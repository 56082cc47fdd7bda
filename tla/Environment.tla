---------------------------- MODULE Environment ----------------------------
(***************************************************************************)
(* The variables of the environment in a configuration file: expand_env()  *)
(* in src/config.rs.  A text is a sequence of symbols, of which some stand *)
(* for ${name}; an environment is a function from names to texts.          *)
(***************************************************************************)
EXTENDS SequencesExt

CONSTANT Vars   \* the symbols that stand for ${name}: a function to the name

\* expand_env: a variable that is not set becomes the empty text.
expand_env(env, text) ==
    FlattenSeq([i \in DOMAIN text |->
        CASE text[i] \notin DOMAIN Vars -> <<text[i]>>
          [] text[i] \in DOMAIN Vars /\ Vars[text[i]] \in DOMAIN env -> env[Vars[text[i]]]
          [] OTHER -> <<>>])

\* The variables it reports as missing: an error where they are required.
Missing(env, text) == {Vars[c] : c \in Range(text) \cap DOMAIN Vars} \ DOMAIN env

=============================================================================
