--------------------------- MODULE UpgradeTunnel ---------------------------
(***************************************************************************)
(* The two-way copy behind an upgraded connection: the task that           *)
(* handle_upgrade() in src/main.rs spawns, once both ends are upgraded.    *)
(*                                                                         *)
(* Two loops run concurrently in that task, one per direction.  Each reads *)
(* a chunk under an idle timer of its own, writes all of it without any    *)
(* timer, and shuts its sink down when it leaves the loop.  join! waits    *)
(* for both.                                                               *)
(*                                                                         *)
(* The peers are the client and Docker: each may send, end its half, stop  *)
(* reading or disappear.  A byte is the number of its place in its stream. *)
(***************************************************************************)
EXTENDS Naturals, Sequences

CONSTANTS
    CopyBuf,    \* UPGRADE_COPY_BUF_BYTES
    Window,     \* bytes the sockets hold for a peer that does not read
    MaxBytes    \* bound on the bytes a peer sends

ASSUME SizesAssumption ==
    CopyBuf \in Nat \ {0} /\ Window \in Nat \ {0} /\ MaxBytes \in Nat

Dirs == {"c2d", "d2c"}
Opposite(d) == IF d = "c2d" THEN "d2c" ELSE "c2d"

VARIABLES
    tls,        \* the client is connected over TLS
    source,     \* per direction, its sender: "open", "ended" (its half) or "gone"
    sent,       \* bytes it has sent
    step,       \* the loop: "reading", "writing", "shutdown" or "done"
    got,        \* bytes the loop has read: the last of them are in buf
    off,        \* bytes it has got rid of: buf[..n] from here on is to be written
    out,        \* what it has written to the sink
    taken,      \* bytes of it that the receiving peer has read
    why,        \* why it left its loop: "none", "eof", "idle" or "error"
    joined      \* the task is over and the streams are dropped

peerVars == <<source, sent, taken>>
loopVars == <<step, got, off, out, why>>
vars == <<tls, peerVars, loopVars, joined>>

----------------------------------------------------------------------------
Init ==
    /\ tls \in BOOLEAN
    /\ source = [d \in Dirs |-> "open"]
    /\ sent = [d \in Dirs |-> 0]
    /\ step = [d \in Dirs |-> "reading"]
    /\ got = [d \in Dirs |-> 0]
    /\ off = [d \in Dirs |-> 0]
    /\ out = [d \in Dirs |-> <<>>]
    /\ taken = [d \in Dirs |-> 0]
    /\ why = [d \in Dirs |-> "none"]
    /\ joined = FALSE

\* The peer that receives what d carries.
SinkGone(d) == source[Opposite(d)] = "gone"

Room(d) == Len(out[d]) - taken[d] < Window

(* The peers.                                                               *)
Send(d) ==
    /\ ~joined /\ source[d] = "open" /\ sent[d] < MaxBytes
    /\ sent' = [sent EXCEPT ![d] = @ + 1]
    /\ UNCHANGED <<tls, source, taken, loopVars, joined>>

EndHalf(d) ==
    /\ ~joined /\ source[d] = "open"
    /\ source' = [source EXCEPT ![d] = "ended"]
    /\ UNCHANGED <<tls, sent, taken, loopVars, joined>>

\* The sender closes or resets its whole connection.
Disappear(d) ==
    /\ ~joined /\ source[d] # "gone"
    /\ source' = [source EXCEPT ![d] = "gone"]
    /\ UNCHANGED <<tls, sent, taken, loopVars, joined>>

Take(d) ==
    /\ ~SinkGone(d) /\ taken[d] < Len(out[d])
    /\ taken' = [taken EXCEPT ![d] = @ + 1]
    /\ UNCHANGED <<tls, source, sent, loopVars, joined>>

----------------------------------------------------------------------------
(* A direction's loop.                                                      *)
Ready(d) == got[d] < sent[d]

Leave(d, reason) ==
    /\ step' = [step EXCEPT ![d] = "shutdown"]
    /\ why' = [why EXCEPT ![d] = reason]

\* Mutant: the whole buffer is taken for what was read, not buf[..n].
ReadWholeBuf(d) ==
    /\ step[d] = "reading" /\ ~joined /\ Ready(d)
    /\ got' = [got EXCEPT ![d] = @ + CopyBuf]
    /\ step' = [step EXCEPT ![d] = "writing"]
    /\ UNCHANGED <<tls, peerVars, off, out, why, joined>>

\* read() returns some of what has arrived, at most a buffer full.
Read(d) ==
    /\ step[d] = "reading" /\ ~joined
    /\ \E n \in 1..CopyBuf :
          /\ got[d] + n <= sent[d]
          /\ got' = [got EXCEPT ![d] = @ + n]
    /\ step' = [step EXCEPT ![d] = "writing"]
    /\ UNCHANGED <<tls, peerVars, off, out, why, joined>>

\* Mutant: the end is acted on as soon as it is there, before the bytes ahead of it.
ReadEndEarly(d) ==
    /\ step[d] = "reading" /\ ~joined
    /\ \/ source[d] # "open" /\ Leave(d, "eof")
       \/ source[d] = "gone" /\ Leave(d, "error")
    /\ UNCHANGED <<tls, peerVars, got, off, out, joined>>

\* read() returns 0 at the end of the stream, or an error once the sender is gone.
ReadEnd(d) ==
    /\ step[d] = "reading" /\ ~joined
    /\ \/ source[d] # "open" /\ ~Ready(d) /\ Leave(d, "eof")
       \/ source[d] = "gone" /\ Leave(d, "error")
    /\ UNCHANGED <<tls, peerVars, got, off, out, joined>>

\* Mutant: only the client is timed.
IdleClient(d) ==
    /\ step[d] = "reading" /\ ~joined
    /\ source[d] = "open" /\ ~Ready(d) /\ d = "c2d"
    /\ Leave(d, "idle")
    /\ UNCHANGED <<tls, peerVars, got, off, out, joined>>

\* UPGRADE_IDLE_TIMEOUT passed without a byte; timeout() polls the read first.
Idle(d) ==
    /\ step[d] = "reading" /\ ~joined
    /\ source[d] = "open" /\ ~Ready(d)
    /\ Leave(d, "idle")
    /\ UNCHANGED <<tls, peerVars, got, off, out, joined>>

\* Mutant: write() in the place of write_all(): the rest of the chunk is forgotten.
WriteOnce(d) ==
    /\ step[d] = "writing" /\ ~joined /\ Room(d)
    /\ out' = [out EXCEPT ![d] = Append(@, off[d] + 1)]
    /\ off' = [off EXCEPT ![d] = got[d]]
    /\ step' = [step EXCEPT ![d] = "reading"]
    /\ UNCHANGED <<tls, peerVars, got, why, joined>>

\* write_all() hands over the chunk as the sockets have room for it, byte by byte.
Write(d) ==
    /\ step[d] = "writing" /\ ~joined /\ Room(d)
    /\ out' = [out EXCEPT ![d] = Append(@, off[d] + 1)]
    /\ off' = [off EXCEPT ![d] = @ + 1]
    /\ step' = [step EXCEPT ![d] = IF off[d] + 1 = got[d] THEN "reading" ELSE "writing"]
    /\ UNCHANGED <<tls, peerVars, got, why, joined>>

WriteFails(d) ==
    /\ step[d] = "writing" /\ ~joined /\ SinkGone(d)
    /\ Leave(d, "error")
    /\ UNCHANGED <<tls, peerVars, got, off, out, joined>>

\* shutdown(), whose result is ignored: at once on a plain socket, while TLS first
\* has to get its closing message out.
Shutdown(d) ==
    /\ step[d] = "shutdown" /\ ~joined
    /\ tls /\ d = "d2c" => Room(d) \/ SinkGone(d)
    /\ step' = [step EXCEPT ![d] = "done"]
    /\ UNCHANGED <<tls, peerVars, got, off, out, why, joined>>

\* join! is over when both directions are.
Join ==
    /\ ~joined /\ \A d \in Dirs : step[d] = "done"
    /\ joined' = TRUE
    /\ UNCHANGED <<tls, peerVars, loopVars>>

----------------------------------------------------------------------------
Peer(d) == Send(d) \/ EndHalf(d) \/ Disappear(d) \/ Take(d)
Copy(d) == Read(d) \/ ReadEnd(d) \/ Write(d) \/ WriteFails(d) \/ Shutdown(d)

Next ==
    \/ \E d \in Dirs : Peer(d) \/ Copy(d) \/ Idle(d)
    \/ Join

Spec == Init /\ [][Next]_vars

\* The runtime polls the task whenever one of its sockets is ready, and its timers
\* fire; a peer never has to do anything.
FairSpec ==
    /\ Spec
    /\ WF_vars(Join)
    /\ \A d \in Dirs : WF_vars(Copy(d)) /\ WF_vars(Idle(d))

----------------------------------------------------------------------------
(* Properties.                                                              *)

\* Every variable keeps its type, and a loop writes exactly while it holds bytes.
TypeOK ==
    /\ tls \in BOOLEAN /\ joined \in BOOLEAN
    /\ source \in [Dirs -> {"open", "ended", "gone"}]
    /\ step \in [Dirs -> {"reading", "writing", "shutdown", "done"}]
    /\ why \in [Dirs -> {"none", "eof", "idle", "error"}]
    /\ sent \in [Dirs -> Nat] /\ got \in [Dirs -> Nat] /\ off \in [Dirs -> Nat]
    /\ out \in [Dirs -> Seq(Nat)] /\ taken \in [Dirs -> Nat]
    /\ \A d \in Dirs : /\ off[d] <= got[d] /\ got[d] <= sent[d]
                       /\ step[d] = "reading" => off[d] = got[d]
                       /\ step[d] = "writing" => off[d] < got[d]

\* Bytes are relayed in order, none twice and none left out, through partial reads
\* and writes and sockets that fill up: what a peer was given is the beginning of
\* what the other one sent.
RelayedInOrder ==
    \A d \in Dirs : \A i \in 1..Len(out[d]) : out[d][i] = i

\* A direction shuts its sink down only when it has nothing left to hand over: at
\* the end of its stream all of the stream has been written, however it was chunked
\* and however often the sink was full; after an idle hour all that was read has;
\* and anything may be missing only when one of the two peers is gone.
DeliveredBeforeShutdown ==
    \A d \in Dirs : step[d] \in {"shutdown", "done"} =>
        \/ why[d] = "eof" /\ Len(out[d]) = sent[d]
        \/ why[d] = "idle" /\ Len(out[d]) = got[d]
        \/ why[d] = "error" /\ "gone" \in {source[d], source[Opposite(d)]}

\* A direction whose peer does not read has no timer to end it.
Blocked(d) == step[d] \in {"writing", "shutdown"} /\ ~Room(d) /\ ~SinkGone(d)

\* Once the peers fall silent the tunnel ends by itself, unless a write or the end
\* of a TLS stream waits forever for a peer that stopped reading: the only wait in
\* the task without a timeout.
EndsUnlessBlocked == <>joined \/ <>[](\E d \in Dirs : Blocked(d))

=============================================================================
