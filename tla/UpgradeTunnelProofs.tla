------------------------ MODULE UpgradeTunnelProofs ------------------------
(***************************************************************************)
(* Proofs about UpgradeTunnel, for buffers, socket windows and streams of  *)
(* any size.                                                               *)
(***************************************************************************)
EXTENDS UpgradeTunnel, TLAPS

LEMMA DirsFact == \A d \in Dirs : Opposite(d) \in Dirs
  BY DEF Dirs, Opposite

\* Every variable of the tunnel keeps its type, and a loop of the copy writes
\* exactly while its buffer holds bytes.
THEOREM TypeCorrect == Spec => []TypeOK
<1>1. Init => TypeOK
  <2> SUFFICES ASSUME Init PROVE TypeOK
    OBVIOUS
  <2>1. tls \in BOOLEAN /\ joined \in BOOLEAN
    BY DEF Init
  <2>2. out \in [Dirs -> Seq(Nat)]
    BY <<>> \in Seq(Nat) DEF Init
  <2> QED BY <2>1, <2>2 DEF Init, TypeOK
<1>2. TypeOK /\ [Next]_vars => TypeOK'
  <2> SUFFICES ASSUME TypeOK, [Next]_vars PROVE TypeOK'
    OBVIOUS
  <2>1. ASSUME NEW d \in Dirs, Peer(d) PROVE TypeOK'
    <3>1. CASE Send(d)
      BY <3>1 DEF Send, TypeOK, loopVars
    <3>2. CASE EndHalf(d)
      BY <3>2 DEF EndHalf, TypeOK, loopVars
    <3>3. CASE Disappear(d)
      BY <3>3 DEF Disappear, TypeOK, loopVars
    <3>4. CASE Take(d)
      BY <3>4, SMTT(30) DEF Take, TypeOK, loopVars
    <3> QED BY <2>1, <3>1, <3>2, <3>3, <3>4 DEF Peer
  <2>2. ASSUME NEW d \in Dirs, Copy(d) PROVE TypeOK'
    <3>1. CASE Read(d)
      BY <3>1, SizesAssumption DEF Read, TypeOK, peerVars
    <3>2. CASE ReadEnd(d)
      BY <3>2 DEF ReadEnd, Leave, Ready, TypeOK, peerVars
    <3>3. CASE Write(d)
      BY <3>3 DEF Write, TypeOK, peerVars
    <3>4. CASE WriteFails(d)
      BY <3>4 DEF WriteFails, Leave, TypeOK, peerVars
    <3>5. CASE Shutdown(d)
      BY <3>5 DEF Shutdown, TypeOK, peerVars
    <3> QED BY <2>2, <3>1, <3>2, <3>3, <3>4, <3>5 DEF Copy
  <2>3. ASSUME NEW d \in Dirs, Idle(d) PROVE TypeOK'
    BY <2>3 DEF Idle, Leave, TypeOK, peerVars
  <2>4. CASE Join
    BY <2>4 DEF Join, TypeOK, peerVars, loopVars
  <2>5. CASE UNCHANGED vars
    BY <2>5 DEF vars, TypeOK, peerVars, loopVars
  <2> QED BY <2>1, <2>2, <2>3, <2>4, <2>5 DEF Next
<1> QED BY <1>1, <1>2, PTL DEF Spec

----------------------------------------------------------------------------
\* What has been written is as long as the loop's offset says.
OffsetExact == \A d \in Dirs : Len(out[d]) = off[d]

OrderInv == OffsetExact /\ RelayedInOrder

\* Bytes are relayed in order, none twice and none left out: every step of the
\* copy loops appends to the sink the byte after the last one it wrote.
THEOREM RelaysInOrder == Spec => []RelayedInOrder
<1>1. Init => OrderInv
  BY DEF Init, OrderInv, OffsetExact, RelayedInOrder
<1>2. TypeOK /\ OrderInv /\ [Next]_vars => OrderInv'
  <2> SUFFICES ASSUME TypeOK, OrderInv, [Next]_vars PROVE OrderInv'
    OBVIOUS
  <2>1. CASE UNCHANGED <<off, out>>
    BY <2>1 DEF OrderInv, OffsetExact, RelayedInOrder
  <2>2. ASSUME NEW d \in Dirs, Write(d) PROVE OrderInv'
    <3>1. /\ out' = [out EXCEPT ![d] = Append(out[d], off[d] + 1)]
          /\ off' = [off EXCEPT ![d] = off[d] + 1]
      BY <2>2 DEF Write
    <3>2. out \in [Dirs -> Seq(Nat)] /\ off \in [Dirs -> Nat]
      BY DEF TypeOK
    <3>3. Len(out[d]) = off[d] /\ \A i \in 1..Len(out[d]) : out[d][i] = i
      BY DEF OrderInv, OffsetExact, RelayedInOrder
    <3>4. /\ Len(out'[d]) = off'[d]
          /\ \A i \in 1..Len(out'[d]) : out'[d][i] = i
      BY <3>1, <3>2, <3>3
    <3>5. ASSUME NEW e \in Dirs, e # d
          PROVE  out'[e] = out[e] /\ off'[e] = off[e]
      BY <3>1, <3>2, <3>5
    <3> QED BY <3>4, <3>5 DEF OrderInv, OffsetExact, RelayedInOrder
  <2>3. CASE \E d \in Dirs : Peer(d) \/ Idle(d)
    BY <2>1, <2>3 DEF Peer, Send, EndHalf, Disappear, Take, Idle, loopVars
  <2>4. CASE \E d \in Dirs : Copy(d)
    BY <2>1, <2>2, <2>4 DEF Copy, Read, ReadEnd, WriteFails, Shutdown
  <2>5. CASE Join \/ UNCHANGED vars
    BY <2>1, <2>5 DEF Join, vars, loopVars
  <2> QED BY <2>3, <2>4, <2>5 DEF Next
<1>3. OrderInv => RelayedInOrder
  BY DEF OrderInv
<1> QED BY <1>1, <1>2, <1>3, TypeCorrect, PTL DEF Spec

----------------------------------------------------------------------------
\* Why a loop that was left was left, and what then holds of its stream.
Excused(d) ==
    \/ why[d] = "eof" /\ source[d] # "open" /\ Len(out[d]) = sent[d]
    \/ why[d] = "idle" /\ Len(out[d]) = got[d]
    \/ why[d] = "error" /\ "gone" \in {source[d], source[Opposite(d)]}

LeftForAReason == \A d \in Dirs : step[d] \in {"shutdown", "done"} => Excused(d)

\* A direction that met the end of its stream has delivered every byte of it before
\* it shuts its sink down, one that was idle every byte it had read, and any other
\* met a peer that is gone.
THEOREM DeliversBeforeShutdown == Spec => []DeliveredBeforeShutdown
<1>1. Init => LeftForAReason
  BY DEF Init, LeftForAReason
<1>2. TypeOK /\ OffsetExact /\ LeftForAReason /\ [Next]_vars => LeftForAReason'
  <2> SUFFICES ASSUME TypeOK, OffsetExact, LeftForAReason, [Next]_vars
               PROVE  LeftForAReason'
    OBVIOUS
  <2> USE DirsFact
  <2>1. ASSUME NEW d \in Dirs, Peer(d) PROVE LeftForAReason'
    <3>1. /\ UNCHANGED loopVars
          /\ \A e \in Dirs : source[e] = "gone" => source'[e] = "gone"
          /\ \A e \in Dirs : source[e] # "open" => source'[e] # "open" /\ sent'[e] = sent[e]
      BY <2>1 DEF Peer, Send, EndHalf, Disappear, Take, TypeOK
    <3>2. ASSUME NEW e \in Dirs, Excused(e) PROVE Excused(e)'
      BY <3>1, <3>2 DEF Excused, loopVars
    <3> QED BY <3>1, <3>2 DEF LeftForAReason, loopVars
  <2>2. ASSUME NEW d \in Dirs, UNCHANGED peerVars,
               \A e \in Dirs \ {d} : /\ step'[e] = step[e] /\ why'[e] = why[e]
                                     /\ got'[e] = got[e] /\ out'[e] = out[e],
               step'[d] \in {"shutdown", "done"} => Excused(d)'
        PROVE  LeftForAReason'
    <3>1. ASSUME NEW e \in Dirs \ {d}, Excused(e) PROVE Excused(e)'
      BY <2>2, <3>1 DEF Excused, peerVars
    <3> QED BY <2>2, <3>1 DEF LeftForAReason
  <2>3. ASSUME NEW d \in Dirs, Copy(d) PROVE LeftForAReason'
    <3>1. CASE Read(d)
      BY <2>2, <3>1 DEF Read, TypeOK, peerVars
    <3>2. CASE ReadEnd(d)
      <4>1. Excused(d)'
        BY <3>2 DEF ReadEnd, Leave, Ready, Excused, OffsetExact, TypeOK, peerVars
      <4> QED BY <2>2, <3>2, <4>1 DEF ReadEnd, Leave, TypeOK, peerVars
    <3>3. CASE Write(d)
      BY <2>2, <3>3 DEF Write, TypeOK, peerVars
    <3>4. CASE WriteFails(d)
      <4>1. Excused(d)'
        BY <3>4 DEF WriteFails, Leave, SinkGone, Excused, TypeOK, peerVars
      <4> QED BY <2>2, <3>4, <4>1 DEF WriteFails, Leave, TypeOK, peerVars
    <3>5. CASE Shutdown(d)
      <4>1. Excused(d)'
        BY <3>5 DEF Shutdown, Excused, LeftForAReason, peerVars
      <4> QED BY <2>2, <3>5, <4>1 DEF Shutdown, TypeOK, peerVars
    <3> QED BY <2>3, <3>1, <3>2, <3>3, <3>4, <3>5 DEF Copy
  <2>4. ASSUME NEW d \in Dirs, Idle(d) PROVE LeftForAReason'
    <3>1. Excused(d)'
      BY <2>4 DEF Idle, Leave, Excused, OffsetExact, TypeOK
    <3> QED BY <2>2, <2>4, <3>1 DEF Idle, Leave, TypeOK, peerVars
  <2>5. CASE Join
    BY <2>5 DEF Join, LeftForAReason, Excused, loopVars, peerVars
  <2>6. CASE UNCHANGED vars
    BY <2>6 DEF vars, LeftForAReason, Excused, loopVars, peerVars
  <2> QED BY <2>1, <2>3, <2>4, <2>5, <2>6 DEF Next
<1>3. LeftForAReason => DeliveredBeforeShutdown
  BY DEF LeftForAReason, Excused, DeliveredBeforeShutdown
<1>4. Spec => []OffsetExact
  <2>1. Init => OffsetExact
    BY DEF Init, OffsetExact
  <2>2. TypeOK /\ OffsetExact /\ [Next]_vars => OffsetExact'
    <3> SUFFICES ASSUME TypeOK, OffsetExact, [Next]_vars PROVE OffsetExact'
      OBVIOUS
    <3>1. CASE UNCHANGED <<off, out>>
      BY <3>1 DEF OffsetExact
    <3>2. ASSUME NEW d \in Dirs, Write(d) PROVE OffsetExact'
      BY <3>2 DEF Write, OffsetExact, TypeOK
    <3> QED BY <3>1, <3>2 DEF Next, Peer, Send, EndHalf, Disappear, Take, Copy, Read, ReadEnd,
                              WriteFails, Shutdown, Idle, Join, vars, loopVars
  <2> QED BY <2>1, <2>2, TypeCorrect, PTL DEF Spec
<1> QED BY <1>1, <1>2, <1>3, <1>4, TypeCorrect, PTL DEF Spec

=============================================================================
