--------------------------- MODULE FrontEndProofs ---------------------------
(***************************************************************************)
(* Proofs that the send path of a FrontEnd has one writer at a time, loses *)
(* and duplicates nothing, never splits a message over two connections and *)
(* keeps the order of each caller's messages on a connection, for every    *)
(* number of callers, calls and connections, provided epipe is run by one  *)
(* thread at a time (ExclusiveSpec).                                       *)
(***************************************************************************)
EXTENDS FrontEnd, FiniteSetTheorems, TLAPS

-----------------------------------------------------------------------------
(* Sequences without repetitions. *)

\* The values of a sequence, and that none of them occurs twice.
Elems(s) == {s[i] : i \in DOMAIN s}
Distinct(s) == \A i, j \in DOMAIN s : s[i] = s[j] => i = j

\* Appending a new value adds it to the values (MpscQueue::push).
LEMMA AppendElems ==
  ASSUME NEW S, NEW s \in Seq(S), NEW e \in S
  PROVE  /\ Append(s, e) \in Seq(S) /\ Len(Append(s, e)) = Len(s) + 1
         /\ Elems(Append(s, e)) = Elems(s) \cup {e}
         /\ Distinct(s) /\ e \notin Elems(s) => Distinct(Append(s, e))
<1> DEFINE t == Append(s, e)
<1>1. /\ t \in Seq(S) /\ Len(t) = Len(s) + 1 /\ t[Len(s) + 1] = e
      /\ DOMAIN s = 1 .. Len(s) /\ DOMAIN t = 1 .. (Len(s) + 1) /\ Len(s) \in Nat
      /\ \A i \in 1 .. Len(s) : t[i] = s[i]
  OBVIOUS
<1> HIDE DEF t
<1>2. Elems(t) = Elems(s) \cup {e}
  BY <1>1 DEF Elems
<1>3. ASSUME Distinct(s), e \notin Elems(s)
      PROVE  Distinct(t)
  <2> SUFFICES ASSUME NEW i \in DOMAIN t, NEW j \in DOMAIN t, t[i] = t[j], i # j
               PROVE  FALSE
    BY DEF Distinct
  <2>1. CASE i \in DOMAIN s /\ j \in DOMAIN s
    BY <2>1, <1>1, <1>3 DEF Distinct
  <2>2. CASE i = Len(s) + 1
    BY <2>2, <1>1, <1>3 DEF Elems
  <2>3. CASE j = Len(s) + 1
    BY <2>3, <1>1, <1>3 DEF Elems
  <2> QED BY <2>1, <2>2, <2>3, <1>1
<1> QED BY <1>1, <1>2, <1>3 DEF t

\* Removing the first value removes it from the values (MpscQueue::pop).
LEMMA TailElems ==
  ASSUME NEW S, NEW s \in Seq(S), s # <<>>, Distinct(s)
  PROVE  /\ Tail(s) \in Seq(S) /\ Len(s) > 0 /\ Len(Tail(s)) = Len(s) - 1
         /\ Head(s) \in S /\ Head(s) \in Elems(s)
         /\ Elems(Tail(s)) = Elems(s) \ {Head(s)}
         /\ Distinct(Tail(s))
<1> DEFINE t == Tail(s)
<1>1. /\ t \in Seq(S) /\ Len(s) \in Nat /\ Len(s) > 0 /\ Len(t) = Len(s) - 1
      /\ Head(s) \in S /\ Head(s) = s[1]
      /\ DOMAIN s = 1 .. Len(s) /\ DOMAIN t = 1 .. (Len(s) - 1)
      /\ \A i \in 1 .. (Len(s) - 1) : t[i] = s[i + 1]
  OBVIOUS
<1> HIDE DEF t
<1>2. Elems(t) \subseteq Elems(s) \ {Head(s)}
  BY <1>1 DEF Elems, Distinct
<1>3. ASSUME NEW x \in Elems(s), x # Head(s)
      PROVE  x \in Elems(t)
  <2>1. PICK i \in DOMAIN s : s[i] = x
    BY DEF Elems
  <2>2. i - 1 \in DOMAIN t /\ t[i - 1] = x
    BY <2>1, <1>1, <1>3
  <2> QED BY <2>2 DEF Elems
<1>4. Distinct(t)
  <2> SUFFICES ASSUME NEW i \in DOMAIN t, NEW j \in DOMAIN t, t[i] = t[j]
               PROVE  i = j
    BY DEF Distinct
  <2>1. i + 1 \in DOMAIN s /\ j + 1 \in DOMAIN s /\ s[i + 1] = s[j + 1]
    BY <1>1
  <2> QED BY <2>1, <1>1 DEF Distinct
<1>5. Head(s) \in Elems(s)
  BY <1>1 DEF Elems
<1> QED BY <1>1, <1>2, <1>3, <1>4, <1>5 DEF t

-----------------------------------------------------------------------------
(* The inductive invariant. *)

\* Where an accepted message can be before it leaves.
Pushing == {m \in Msg : pc[m] = "push"}
InQueue == Elems(queue)
MsgPC   == {"check", "conn", "connecting", "resume", "take", "send", "epipe", "reroute"}
HeldMsg == {m \in Msg : m = msg /\ more /\ \E o \in Msg : pc[o] \in MsgPC}
HeldSending ==
  {m \in Msg : m = sending /\ \E o \in Msg :
                 \/ pc[o] \in {"send", "epipe", "reroute"}
                 \/ pc[o] \in {"conn", "resume"} /\ part # 0}

\* What the owner's batch adds to the counter on top of the queue.
Held(o) ==
  IF pc[o] \in {"spin", "espin"} THEN 0
  ELSE IF pc[o] = "esub" \/ ~more THEN cnt[o]
  ELSE cnt[o] + 1

\* The facts about the worker that hold at each of its control points.
OwnerFacts ==
  \A o \in Owners :
    /\ pc[o] \in {"check", "take", "connecting"} => more
    /\ pc[o] \in {"conn", "resume"} => IF part = 0 THEN more ELSE cnt[o] > 0
    /\ pc[o] \in {"send", "sub", "epipe", "reroute", "esub"} => cnt[o] > 0
    /\ pc[o] \in {"sub", "spin"} => ~more
    /\ pc[o] \in MsgPC /\ more => msg \in Msg
    /\ pc[o] \in {"send", "epipe", "reroute"} => sending \in Msg
    /\ pc[o] \in {"conn", "resume"} /\ part # 0 => sending \in Msg /\ part = sock
    /\ part # 0 => pc[o] \in {"conn", "resume", "epipe", "reroute"}

\* The connection as the worker and a late set_state see it.
ConnFacts ==
  /\ "DISCONNECT" \in state => ~up
  /\ up => sock > 0
  /\ \A o \in Owners :
       /\ pc[o] \in Epiping \cup {"connecting"} => ~up
       /\ pc[o] \in {"reroute", "esub", "espin"} => "DISCONNECT" \notin state
       /\ pc[o] = "conn" /\ part # 0 => "DISCONNECT" \notin state
  /\ \A m \in Msg : pc[m] = "setst" =>
       /\ ~up /\ "DISCONNECT" \notin state
       /\ \A o \in Owners : pc[o] \notin {"conn", "connecting", "resume"}
  /\ IF isClient
     THEN \A m \in Msg : mode[m] # "block"
     ELSE /\ "DISCONNECT" \notin state
          /\ \A m \in Msg : pc[m] \notin {"connecting", "reroute", "esub", "espin", "setst"}

\* The places are disjoint and no place holds a message twice.
Apart ==
  /\ Distinct(queue) /\ LeavesOnce
  /\ InQueue \subseteq Accepted /\ Left \subseteq Accepted
  /\ HeldMsg \subseteq Accepted /\ HeldSending \subseteq Accepted
  /\ InQueue \cap Pushing = {} /\ InQueue \cap HeldMsg = {}
  /\ InQueue \cap HeldSending = {} /\ InQueue \cap Left = {}
  /\ HeldMsg \cap Pushing = {} /\ HeldMsg \cap HeldSending = {} /\ HeldMsg \cap Left = {}
  /\ HeldSending \cap Pushing = {} /\ HeldSending \cap Left = {}
  /\ Left \cap Pushing = {}

\* A server socket after epipe: the counter stays above zero for ever.
Stuck == Owners = {} /\ ~isClient /\ "EPIPE" \in state /\ size > 0

\* Every accepted message has a place, and the counter counts those that are
\* not yet subtracted.
Account ==
  \/ Stuck
  \/ /\ Accepted = Pushing \cup InQueue \cup HeldMsg \cup HeldSending \cup Left
     /\ Owners = {} => size = 0 /\ Pushing = {} /\ queue = <<>>
     /\ \A o \in Owners :
          /\ size = Cardinality(Pushing) + Len(queue) + Held(o)
          /\ size > 0

IInv ==
  /\ TypeOK
  /\ SingleWriter
  /\ EpipeExclusive
  /\ OwnerFacts
  /\ ConnFacts
  /\ Apart
  /\ Account
  /\ MessageComplete

-----------------------------------------------------------------------------
\* There are finitely many messages.
LEMMA MsgFinite == IsFiniteSet(Msg)
<1>1. IsFiniteSet(1 .. Calls)
  BY CallsAssumption, FS_Interval
<1> QED BY <1>1, ProducerAssumption, FS_Product, Zenon DEF Msg

\* The messages between fetch_add and the push are finitely many.
LEMMA PushingFinite ==
  /\ IsFiniteSet(Pushing) /\ Cardinality(Pushing) \in Nat
  /\ (Cardinality(Pushing) = 0) <=> (Pushing = {})
BY MsgFinite, FS_Subset, FS_CardinalityType, FS_EmptySet DEF Pushing

USE DEF Goto, queueVars, workVars, connVars

\* A step that moves no message and leaves the counter alone keeps the
\* bookkeeping.
LEMMA Frame ==
  ASSUME Apart, Account, Stuck => Stuck',
         UNCHANGED <<Owners, Pushing, HeldMsg, HeldSending, Accepted, queue, out, size>>,
         \A o \in Owners : Held(o)' = Held(o)
  PROVE  Apart' /\ Account'
<1>1. InQueue' = InQueue /\ Left' = Left /\ LeavesOnce' = LeavesOnce
  BY DEF InQueue, Left, LeavesOnce
<1>2. Apart'
  BY <1>1 DEF Apart
<1>3. Account'
  BY <1>1 DEF Account
<1> QED BY <1>2, <1>3

\* The look at the state in send_msg_nonblock keeps IInv.
LEMMA CheckStep ==
  ASSUME IInv, NEW m \in Msg, Check(m), EpipeExclusive'
  PROVE  IInv'
<1> USE DEF IInv
<1>1. TypeOK'
  BY Zenon DEF TypeOK, Check, PC, OwnerPC, Working, Epiping, Modes
<1>2. Owners = {m} /\ Owners' = {m}
  BY DEF TypeOK, Check, SingleWriter, Owners, OwnerPC, Working, Epiping
<1>3. SingleWriter'
  BY <1>2 DEF SingleWriter
<1>4. OwnerFacts'
  BY <1>2 DEF TypeOK, Check, OwnerFacts, ConnFacts, MsgPC
<1>5. ConnFacts'
  BY <1>2 DEF TypeOK, Check, OwnerFacts, ConnFacts, Epiping
<1>6. UNCHANGED <<Pushing, Accepted, HeldMsg, HeldSending, queue, out, size>>
  <2>1. Pushing' = Pushing /\ Accepted' = Accepted
    BY DEF Check, TypeOK, Pushing, Accepted
  <2>2. HeldMsg' = HeldMsg
    BY <1>2 DEF Check, TypeOK, HeldMsg, MsgPC
  <2>3. HeldSending' = HeldSending
    BY <1>2 DEF Check, TypeOK, HeldSending, OwnerFacts, ConnFacts
  <2> QED BY <2>1, <2>2, <2>3 DEF Check
<1>7. Held(m)' = Held(m) /\ ~Stuck
  BY <1>2 DEF Check, TypeOK, Held, Stuck
<1>8. Apart' /\ Account'
  BY <1>2, <1>6, <1>7, Frame
<1>9. MessageComplete'
  BY DEF Check, MessageComplete
<1> QED BY <1>1, <1>3, <1>4, <1>5, <1>8, <1>9

\* The start of keep_writing keeps IInv.
LEMMA ConnStep ==
  ASSUME IInv, NEW m \in Msg, Conn(m), EpipeExclusive'
  PROVE  IInv'
<1> USE DEF IInv
<1>1. TypeOK'
  BY DEF TypeOK, Conn, PC, OwnerPC, Working, Epiping, Modes
<1>2. Owners = {m} /\ Owners' = {m}
  BY DEF TypeOK, Conn, SingleWriter, Owners, OwnerPC, Working, Epiping
<1>3. SingleWriter'
  BY <1>2 DEF SingleWriter
<1>4. OwnerFacts'
  BY <1>2 DEF TypeOK, Conn, OwnerFacts, ConnFacts, MsgPC
<1>5. ConnFacts'
  BY <1>2 DEF TypeOK, Conn, OwnerFacts, ConnFacts, Epiping
<1>6. UNCHANGED <<Pushing, Accepted, HeldMsg, HeldSending, queue, out, size>>
  <2>1. Pushing' = Pushing /\ Accepted' = Accepted
    BY DEF Conn, TypeOK, Pushing, Accepted
  <2>2. HeldMsg' = HeldMsg
    BY <1>2 DEF Conn, TypeOK, HeldMsg, MsgPC
  <2>3. HeldSending' = HeldSending
    BY <1>2 DEF Conn, TypeOK, HeldSending, OwnerFacts, ConnFacts
  <2> QED BY <2>1, <2>2, <2>3 DEF Conn
<1>7. Held(m)' = Held(m) /\ ~Stuck
  BY <1>2 DEF Conn, TypeOK, Held, Stuck
<1>8. Apart' /\ Account'
  BY <1>2, <1>6, <1>7, Frame
<1>9. MessageComplete'
  BY DEF Conn, MessageComplete
<1> QED BY <1>1, <1>3, <1>4, <1>5, <1>8, <1>9

\* A successful connect keeps IInv.
LEMMA ConnectOkStep ==
  ASSUME IInv, NEW m \in Msg, ConnectOk(m), EpipeExclusive'
  PROVE  IInv'
<1> USE DEF IInv
<1>1. TypeOK'
  BY DEF TypeOK, ConnectOk, PC, OwnerPC, Working, Epiping, Modes
<1>2. Owners = {m} /\ Owners' = {m}
  BY DEF TypeOK, ConnectOk, SingleWriter, Owners, OwnerPC, Working, Epiping
<1>3. SingleWriter'
  BY <1>2 DEF SingleWriter
<1>4. OwnerFacts'
  BY <1>2 DEF TypeOK, ConnectOk, OwnerFacts, ConnFacts, MsgPC
<1>5. ConnFacts'
  BY <1>2 DEF TypeOK, ConnectOk, OwnerFacts, ConnFacts, Epiping
<1>6. UNCHANGED <<Pushing, Accepted, HeldMsg, HeldSending, queue, out, size>>
  <2>1. Pushing' = Pushing /\ Accepted' = Accepted
    BY DEF ConnectOk, TypeOK, Pushing, Accepted
  <2>2. HeldMsg' = HeldMsg
    BY <1>2 DEF ConnectOk, TypeOK, HeldMsg, MsgPC
  <2>3. HeldSending' = HeldSending
    BY <1>2 DEF ConnectOk, TypeOK, HeldSending, OwnerFacts, ConnFacts
  <2> QED BY <2>1, <2>2, <2>3 DEF ConnectOk
<1>7. Held(m)' = Held(m) /\ ~Stuck
  BY <1>2 DEF ConnectOk, TypeOK, Held, Stuck
<1>8. Apart' /\ Account'
  BY <1>2, <1>6, <1>7, Frame
<1>9. MessageComplete'
  BY DEF ConnectOk, MessageComplete
<1> QED BY <1>1, <1>3, <1>4, <1>5, <1>8, <1>9

\* A partial write, which hands over to keep_writing, keeps IInv.
LEMMA SendPartialStep ==
  ASSUME IInv, NEW m \in Msg, SendPartial(m), EpipeExclusive'
  PROVE  IInv'
<1> USE DEF IInv
<1>1. TypeOK'
  BY DEF TypeOK, SendPartial, PC, OwnerPC, Working, Epiping, Modes
<1>2. Owners = {m} /\ Owners' = {m}
  BY DEF TypeOK, SendPartial, SingleWriter, Owners, OwnerPC, Working, Epiping
<1>3. SingleWriter'
  BY <1>2 DEF SingleWriter
<1>4. OwnerFacts'
  BY <1>2 DEF TypeOK, SendPartial, OwnerFacts, ConnFacts, MsgPC
<1>5. ConnFacts'
  BY <1>2 DEF TypeOK, SendPartial, OwnerFacts, ConnFacts, Epiping
<1>6. UNCHANGED <<Pushing, Accepted, HeldMsg, HeldSending, queue, out, size>>
  <2>1. Pushing' = Pushing /\ Accepted' = Accepted
    BY DEF SendPartial, TypeOK, Pushing, Accepted
  <2>2. HeldMsg' = HeldMsg
    BY <1>2 DEF SendPartial, TypeOK, HeldMsg, MsgPC
  <2>3. HeldSending' = HeldSending
    BY <1>2 DEF SendPartial, TypeOK, HeldSending, OwnerFacts, ConnFacts
  <2> QED BY <2>1, <2>2, <2>3 DEF SendPartial
<1>7. Held(m)' = Held(m) /\ ~Stuck
  BY <1>2 DEF SendPartial, TypeOK, Held, Stuck
<1>8. Apart' /\ Account'
  BY <1>2, <1>6, <1>7, Frame
<1>9. MessageComplete'
  BY DEF SendPartial, MessageComplete
<1> QED BY <1>1, <1>3, <1>4, <1>5, <1>8, <1>9

\* A failed write keeps IInv.
LEMMA SendFailStep ==
  ASSUME IInv, NEW m \in Msg, SendFail(m), EpipeExclusive'
  PROVE  IInv'
<1> USE DEF IInv
<1>1. TypeOK'
  BY DEF TypeOK, SendFail, PC, OwnerPC, Working, Epiping, Modes
<1>2. Owners = {m} /\ Owners' = {m}
  BY DEF TypeOK, SendFail, SingleWriter, Owners, OwnerPC, Working, Epiping
<1>3. SingleWriter'
  BY <1>2 DEF SingleWriter
<1>4. OwnerFacts'
  BY <1>2 DEF TypeOK, SendFail, OwnerFacts, ConnFacts, MsgPC
<1>5. ConnFacts'
  BY <1>2 DEF TypeOK, SendFail, OwnerFacts, ConnFacts, Epiping
<1>6. UNCHANGED <<Pushing, Accepted, HeldMsg, HeldSending, queue, out, size>>
  <2>1. Pushing' = Pushing /\ Accepted' = Accepted
    BY DEF SendFail, TypeOK, Pushing, Accepted
  <2>2. HeldMsg' = HeldMsg
    BY <1>2 DEF SendFail, TypeOK, HeldMsg, MsgPC
  <2>3. HeldSending' = HeldSending
    BY <1>2 DEF SendFail, TypeOK, HeldSending, OwnerFacts, ConnFacts
  <2> QED BY <2>1, <2>2, <2>3 DEF SendFail
<1>7. Held(m)' = Held(m) /\ ~Stuck
  BY <1>2 DEF SendFail, TypeOK, Held, Stuck
<1>8. Apart' /\ Account'
  BY <1>2, <1>6, <1>7, Frame
<1>9. MessageComplete'
  BY DEF SendFail, MessageComplete
<1> QED BY <1>1, <1>3, <1>4, <1>5, <1>8, <1>9

\* A call that finds the FrontEnd available keeps IInv.
LEMMA EnterStep ==
  ASSUME IInv, NEW m \in Msg, NEW how \in Modes, Enter(m, how), EpipeExclusive'
  PROVE  IInv'
<1> USE DEF IInv
<1>1. TypeOK'
  BY DEF TypeOK, Enter, Ready, PC, Modes
<1>2. Owners' = Owners
  BY DEF TypeOK, Enter, Ready, Owners, OwnerPC, Working, Epiping
<1>3. SingleWriter'
  BY <1>2 DEF SingleWriter
<1>4. OwnerFacts'
  BY <1>2 DEF TypeOK, Enter, Ready, OwnerFacts, Owners, OwnerPC, Working, Epiping
<1>5. ConnFacts'
  BY <1>2 DEF TypeOK, Enter, Ready, ConnFacts, Owners, OwnerPC, Working, Epiping
<1>6. UNCHANGED <<Pushing, Accepted, HeldMsg, HeldSending, queue, out, size>>
  <2>1. Pushing' = Pushing /\ Accepted' = Accepted
    BY DEF Enter, Ready, TypeOK, Pushing, Accepted
  <2>2. HeldMsg' = HeldMsg
    BY DEF Enter, Ready, TypeOK, HeldMsg, MsgPC
  <2>3. HeldSending' = HeldSending
    BY DEF Enter, Ready, TypeOK, HeldSending
  <2> QED BY <2>1, <2>2, <2>3 DEF Enter
<1>7. (\A o \in Owners : Held(o)' = Held(o)) /\ (Stuck => Stuck')
  BY <1>2 DEF Enter, Ready, TypeOK, Held, Stuck, Owners, ConnFacts
<1>8. Apart' /\ Account'
  BY <1>2, <1>6, <1>7, Frame
<1>9. MessageComplete'
  BY DEF Enter, MessageComplete
<1> QED BY <1>1, <1>3, <1>4, <1>5, <1>8, <1>9

\* A call that is refused keeps IInv.
LEMMA RefuseStep ==
  ASSUME IInv, NEW m \in Msg, Refuse(m), EpipeExclusive'
  PROVE  IInv'
<1> USE DEF IInv
<1>1. TypeOK'
  BY DEF TypeOK, Refuse, Ready, PC, Modes
<1>2. Owners' = Owners
  BY DEF TypeOK, Refuse, Ready, Owners, OwnerPC, Working, Epiping
<1>3. SingleWriter'
  BY <1>2 DEF SingleWriter
<1>4. OwnerFacts'
  BY <1>2 DEF TypeOK, Refuse, Ready, OwnerFacts, Owners, OwnerPC, Working, Epiping
<1>5. ConnFacts'
  BY <1>2 DEF TypeOK, Refuse, Ready, ConnFacts, Owners, OwnerPC, Working, Epiping
<1>6. UNCHANGED <<Pushing, Accepted, HeldMsg, HeldSending, queue, out, size>>
  <2>1. Pushing' = Pushing /\ Accepted' = Accepted
    BY DEF Refuse, Ready, TypeOK, Pushing, Accepted
  <2>2. HeldMsg' = HeldMsg
    BY DEF Refuse, Ready, TypeOK, HeldMsg, MsgPC
  <2>3. HeldSending' = HeldSending
    BY DEF Refuse, Ready, TypeOK, HeldSending
  <2> QED BY <2>1, <2>2, <2>3 DEF Refuse
<1>7. (\A o \in Owners : Held(o)' = Held(o)) /\ (Stuck => Stuck')
  BY <1>2 DEF Refuse, Ready, TypeOK, Held, Stuck, Owners, ConnFacts
<1>8. Apart' /\ Account'
  BY <1>2, <1>6, <1>7, Frame
<1>9. MessageComplete'
  BY DEF Refuse, MessageComplete
<1> QED BY <1>1, <1>3, <1>4, <1>5, <1>8, <1>9

\* The link that ends a push keeps IInv.
LEMMA LinkStep ==
  ASSUME IInv, NEW m \in Msg, Link(m), EpipeExclusive'
  PROVE  IInv'
<1> USE DEF IInv
<1>1. TypeOK'
  BY DEF TypeOK, Link, PC, Modes
<1>2. Owners' = Owners
  BY DEF TypeOK, Link, Owners, OwnerPC, Working, Epiping
<1>3. SingleWriter'
  BY <1>2 DEF SingleWriter
<1>4. OwnerFacts'
  BY <1>2 DEF TypeOK, Link, OwnerFacts, Owners, OwnerPC, Working, Epiping
<1>5. ConnFacts'
  BY <1>2 DEF TypeOK, Link, ConnFacts, Owners, OwnerPC, Working, Epiping
<1>6. UNCHANGED <<Pushing, Accepted, HeldMsg, HeldSending, queue, out, size>>
  <2>1. Pushing' = Pushing /\ Accepted' = Accepted
    BY DEF Link, TypeOK, Pushing, Accepted
  <2>2. HeldMsg' = HeldMsg
    BY DEF Link, TypeOK, HeldMsg, MsgPC
  <2>3. HeldSending' = HeldSending
    BY DEF Link, TypeOK, HeldSending
  <2> QED BY <2>1, <2>2, <2>3 DEF Link
<1>7. (\A o \in Owners : Held(o)' = Held(o)) /\ (Stuck => Stuck')
  BY <1>2 DEF Link, TypeOK, Held, Stuck, Owners, ConnFacts
<1>8. Apart' /\ Account'
  BY <1>2, <1>6, <1>7, Frame
<1>9. MessageComplete'
  BY DEF Link, MessageComplete
<1> QED BY <1>1, <1>3, <1>4, <1>5, <1>8, <1>9

\* The last store of epipe keeps IInv.
LEMMA SetDisconnectStep ==
  ASSUME IInv, NEW m \in Msg, SetDisconnect(m), EpipeExclusive'
  PROVE  IInv'
<1> USE DEF IInv
<1>1. TypeOK'
  BY DEF TypeOK, SetDisconnect, PC, Modes
<1>2. Owners' = Owners
  BY DEF TypeOK, SetDisconnect, Owners, OwnerPC, Working, Epiping
<1>3. SingleWriter'
  BY <1>2 DEF SingleWriter
<1>4. OwnerFacts'
  BY <1>2 DEF TypeOK, SetDisconnect, OwnerFacts, Owners, OwnerPC, Working, Epiping
<1>5. ConnFacts'
  BY <1>2
     DEF TypeOK, SetDisconnect, ConnFacts, Owners, OwnerPC, Working, Epiping, EpipeExclusive,
         InEpipe
<1>6. UNCHANGED <<Pushing, Accepted, HeldMsg, HeldSending, queue, out, size>>
  <2>1. Pushing' = Pushing /\ Accepted' = Accepted
    BY DEF SetDisconnect, TypeOK, Pushing, Accepted
  <2>2. HeldMsg' = HeldMsg
    BY DEF SetDisconnect, TypeOK, HeldMsg, MsgPC
  <2>3. HeldSending' = HeldSending
    BY DEF SetDisconnect, TypeOK, HeldSending
  <2> QED BY <2>1, <2>2, <2>3 DEF SetDisconnect
<1>7. (\A o \in Owners : Held(o)' = Held(o)) /\ (Stuck => Stuck')
  BY <1>2 DEF SetDisconnect, TypeOK, Held, Stuck, Owners, ConnFacts
<1>8. Apart' /\ Account'
  BY <1>2, <1>6, <1>7, Frame
<1>9. MessageComplete'
  BY DEF SetDisconnect, MessageComplete
<1> QED BY <1>1, <1>3, <1>4, <1>5, <1>8, <1>9

\* The loss of the connection keeps IInv.
LEMMA BreakStep ==
  ASSUME IInv, Break, EpipeExclusive'
  PROVE  IInv'
<1> USE DEF IInv
<1>1. TypeOK'
  BY Zenon DEF TypeOK, Break, PC, Modes
<1>2. Owners' = Owners
  BY DEF TypeOK, Break, Owners, OwnerPC, Working, Epiping
<1>3. SingleWriter'
  BY <1>2 DEF SingleWriter
<1>4. OwnerFacts'
  BY <1>2 DEF TypeOK, Break, OwnerFacts, Owners, OwnerPC, Working, Epiping
<1>5. ConnFacts'
  BY <1>2 DEF TypeOK, Break, ConnFacts, Owners, OwnerPC, Working, Epiping
<1>6. UNCHANGED <<Pushing, Accepted, HeldMsg, HeldSending, queue, out, size>>
  <2>1. Pushing' = Pushing /\ Accepted' = Accepted
    BY DEF Break, TypeOK, Pushing, Accepted
  <2>2. HeldMsg' = HeldMsg
    BY DEF Break, TypeOK, HeldMsg, MsgPC
  <2>3. HeldSending' = HeldSending
    BY DEF Break, TypeOK, HeldSending
  <2> QED BY <2>1, <2>2, <2>3 DEF Break
<1>7. (\A o \in Owners : Held(o)' = Held(o)) /\ (Stuck => Stuck')
  BY <1>2 DEF Break, TypeOK, Held, Stuck, Owners, ConnFacts
<1>8. Apart' /\ Account'
  BY <1>2, <1>6, <1>7, Frame
<1>9. MessageComplete'
  BY DEF Break, MessageComplete
<1> QED BY <1>1, <1>3, <1>4, <1>5, <1>8, <1>9

\* The event that an IO thread gets keeps IInv.
LEMMA PollWaitStep ==
  ASSUME IInv, PollWait, EpipeExclusive'
  PROVE  IInv'
<1> USE DEF IInv
<1>1. TypeOK'
  BY DEF TypeOK, PollWait, PC, Modes
<1>2. Owners' = Owners
  BY DEF TypeOK, PollWait, Owners, OwnerPC, Working, Epiping
<1>3. SingleWriter'
  BY <1>2 DEF SingleWriter
<1>4. OwnerFacts'
  BY <1>2 DEF TypeOK, PollWait, OwnerFacts, Owners, OwnerPC, Working, Epiping
<1>5. ConnFacts'
  BY <1>2 DEF TypeOK, PollWait, ConnFacts, Owners, OwnerPC, Working, Epiping
<1>6. UNCHANGED <<Pushing, Accepted, HeldMsg, HeldSending, queue, out, size>>
  <2>1. Pushing' = Pushing /\ Accepted' = Accepted
    BY DEF PollWait, TypeOK, Pushing, Accepted
  <2>2. HeldMsg' = HeldMsg
    BY DEF PollWait, TypeOK, HeldMsg, MsgPC
  <2>3. HeldSending' = HeldSending
    BY DEF PollWait, TypeOK, HeldSending
  <2> QED BY <2>1, <2>2, <2>3 DEF PollWait
<1>7. (\A o \in Owners : Held(o)' = Held(o)) /\ (Stuck => Stuck')
  BY <1>2 DEF PollWait, TypeOK, Held, Stuck, Owners, ConnFacts
<1>8. Apart' /\ Account'
  BY <1>2, <1>6, <1>7, Frame
<1>9. MessageComplete'
  BY DEF PollWait, MessageComplete
<1> QED BY <1>1, <1>3, <1>4, <1>5, <1>8, <1>9

\* The IO thread's handling of the event keeps IInv.
LEMMA HandleEventStep ==
  ASSUME IInv, HandleEvent, EpipeExclusive'
  PROVE  IInv'
<1> USE DEF IInv
<1>1. TypeOK'
  BY Zenon DEF TypeOK, HandleEvent, PC, Modes
<1>2. Owners' = Owners
  BY DEF TypeOK, HandleEvent, Owners, OwnerPC, Working, Epiping
<1>3. SingleWriter'
  BY <1>2 DEF SingleWriter
<1>4. OwnerFacts'
  BY <1>2 DEF TypeOK, HandleEvent, OwnerFacts, Owners, OwnerPC, Working, Epiping
<1>5. ConnFacts'
  BY <1>2 DEF TypeOK, HandleEvent, ConnFacts, Owners, OwnerPC, Working, Epiping
<1>6. UNCHANGED <<Pushing, Accepted, HeldMsg, HeldSending, queue, out, size>>
  <2>1. Pushing' = Pushing /\ Accepted' = Accepted
    BY DEF HandleEvent, TypeOK, Pushing, Accepted
  <2>2. HeldMsg' = HeldMsg
    BY DEF HandleEvent, TypeOK, HeldMsg, MsgPC
  <2>3. HeldSending' = HeldSending
    BY DEF HandleEvent, TypeOK, HeldSending
  <2> QED BY <2>1, <2>2, <2>3 DEF HandleEvent
<1>7. (\A o \in Owners : Held(o)' = Held(o)) /\ (Stuck => Stuck')
  BY <1>2 DEF HandleEvent, TypeOK, Held, Stuck, Owners, ConnFacts
<1>8. Apart' /\ Account'
  BY <1>2, <1>6, <1>7, Frame
<1>9. MessageComplete'
  BY DEF HandleEvent, MessageComplete
<1> QED BY <1>1, <1>3, <1>4, <1>5, <1>8, <1>9

-----------------------------------------------------------------------------
(* Messages that leave. *)

LeftIn(s) == {s[i].m : i \in DOMAIN s}
OnceIn(s) == \A i, j \in DOMAIN s : s[i].m = s[j].m => i = j
WholeIn(s) == \A i \in DOMAIN s : s[i].first = s[i].last

\* The properties of the messages that left, as predicates of a sequence.
LEMMA OutDefs == Left = LeftIn(out) /\ LeavesOnce = OnceIn(out) /\ MessageComplete = WholeIn(out)
BY DEF Left, LeavesOnce, MessageComplete, LeftIn, OnceIn, WholeIn

\* A step of the worker from one of its control points to another keeps the role.
LEMMA OwnerStays ==
  ASSUME TypeOK, SingleWriter, NEW m \in Msg, NEW l \in OwnerPC,
         pc[m] \in OwnerPC, pc' = [pc EXCEPT ![m] = l]
  PROVE  Owners = {m} /\ Owners' = {m}
<1>1. Owners = {m}
  BY DEF Owners, SingleWriter
<1>2. pc \in [Msg -> PC]
  BY DEF TypeOK
<1>3. pc'[m] = l /\ \A n \in Msg : n # m => pc'[n] = pc[n]
  BY <1>2
<1> QED BY <1>1, <1>3 DEF Owners

\* What the worker knows when it enters epipe with a message in hand.
LEMMA OwnerAtEpipe ==
  ASSUME NEW m \in Msg, Owners' = {m}, pc'[m] = "epipe", cnt'[m] > 0,
         sending' \in Msg, more' => msg' \in Msg
  PROVE  OwnerFacts'
BY DEF OwnerFacts, MsgPC

\* What it knows when it is about to subtract what epipe handed back.
LEMMA OwnerAtEsub ==
  ASSUME NEW m \in Msg, Owners' = {m}, pc'[m] = "esub", cnt'[m] > 0, part' = 0
  PROVE  OwnerFacts'
BY DEF OwnerFacts, MsgPC

\* One more message leaves: what that does to those predicates.
LEMMA OutAppend ==
  ASSUME NEW s \in Seq(Record), NEW r \in Record
  PROVE  /\ Append(s, r) \in Seq(Record)
         /\ LeftIn(Append(s, r)) = LeftIn(s) \cup {r.m}
         /\ OnceIn(s) /\ r.m \notin LeftIn(s) => OnceIn(Append(s, r))
         /\ WholeIn(s) /\ r.first = r.last => WholeIn(Append(s, r))
<1> DEFINE t == Append(s, r)
<1>1. /\ t \in Seq(Record) /\ t[Len(s) + 1] = r
      /\ DOMAIN s = 1 .. Len(s) /\ DOMAIN t = 1 .. (Len(s) + 1) /\ Len(s) \in Nat
      /\ \A i \in 1 .. Len(s) : t[i] = s[i]
  OBVIOUS
<1> HIDE DEF t
<1>2. LeftIn(t) = LeftIn(s) \cup {r.m}
  BY <1>1 DEF LeftIn
<1>3. ASSUME OnceIn(s), r.m \notin LeftIn(s)
      PROVE  OnceIn(t)
  <2> SUFFICES ASSUME NEW i \in DOMAIN t, NEW j \in DOMAIN t, t[i].m = t[j].m, i # j
               PROVE  FALSE
    BY DEF OnceIn
  <2>1. CASE i \in DOMAIN s /\ j \in DOMAIN s
    BY <2>1, <1>1, <1>3 DEF OnceIn
  <2>2. CASE i = Len(s) + 1
    BY <2>2, <1>1, <1>3 DEF LeftIn
  <2>3. CASE j = Len(s) + 1
    BY <2>3, <1>1, <1>3 DEF LeftIn
  <2> QED BY <2>1, <2>2, <2>3, <1>1
<1>4. ASSUME WholeIn(s), r.first = r.last
      PROVE  WholeIn(t)
  BY <1>1, <1>4 DEF WholeIn
<1> QED BY <1>1, <1>2, <1>3, <1>4 DEF t

\* What epipe does to out for one message: it leaves, whole and once.
LEMMA HandBack ==
  ASSUME NEW s \in Seq(Record), NEW n \in Msg, OnceIn(s), WholeIn(s), n \notin LeftIn(s)
  PROVE  /\ Append(s, HandedBack(n)) \in Seq(Record)
         /\ LeftIn(Append(s, HandedBack(n))) = LeftIn(s) \cup {n}
         /\ OnceIn(Append(s, HandedBack(n))) /\ WholeIn(Append(s, HandedBack(n)))
<1> DEFINE r == HandedBack(n)
<1>1. r \in Record /\ r.m = n /\ r.first = r.last
  BY DEF HandedBack, Record
<1> HIDE DEF r
<1>2. /\ Append(s, r) \in Seq(Record) /\ LeftIn(Append(s, r)) = LeftIn(s) \cup {n}
      /\ OnceIn(Append(s, r)) /\ WholeIn(Append(s, r))
  BY <1>1, OutAppend
<1> QED BY <1>2 DEF r

-----------------------------------------------------------------------------
(* The steps that move a message or change the counter. *)

\* The fetch_add, which accepts a message and may make a worker, keeps IInv.
LEMMA FetchAddStep ==
  ASSUME IInv, NEW m \in Msg, FetchAdd(m), EpipeExclusive'
  PROVE  IInv'
<1> USE DEF IInv
<1>1. TypeOK'
  <2>1. size' \in Nat
    BY DEF TypeOK, FetchAdd
  <2>2. pc' \in [Msg -> PC] /\ cnt' \in [Msg -> Nat]
    <3>1. {"conn", "check", "push"} \subseteq PC
      BY DEF PC, OwnerPC, Working
    <3>2. \E l \in {"conn", "check", "push"} : pc' = [pc EXCEPT ![m] = l]
      BY DEF FetchAdd
    <3>3. cnt' = cnt \/ cnt' = [cnt EXCEPT ![m] = 0]
      BY DEF FetchAdd
    <3>4. pc \in [Msg -> PC] /\ cnt \in [Msg -> Nat]
      BY DEF TypeOK
    <3> HIDE DEF IInv
    <3> QED BY <3>1, <3>2, <3>3, <3>4
  <2>3. msg' \in Msg \cup {NoMsg} /\ more' \in BOOLEAN /\ part' \in Nat
    BY Zenon DEF TypeOK, FetchAdd
  <2> QED BY <2>1, <2>2, <2>3 DEF TypeOK, FetchAdd
<1>2. MessageComplete' /\ LeavesOnce' /\ Left' = Left /\ InQueue' = InQueue
  BY DEF FetchAdd, MessageComplete, Apart, LeavesOnce, Left, InQueue
<1>3. Accepted' = Accepted \cup {m} /\ m \notin Accepted
  BY DEF TypeOK, FetchAdd, Accepted
<1>4. CASE size = 0
  <2>1. Owners = {} /\ ~Stuck
    BY <1>4 DEF Account, Stuck
  <2>2. Owners' = {m}
    BY <2>1, <1>4 DEF TypeOK, FetchAdd, Owners, OwnerPC, Working, Epiping
  <2>3. pc'[m] \in {"conn", "check"} /\ (isClient => pc'[m] = "check")
    BY <1>4 DEF FetchAdd, TypeOK, ConnFacts
  <2>4. OwnerFacts'
    BY <1>4, <2>2, <2>3 DEF OwnerFacts, FetchAdd, TypeOK, MsgPC
  <2>5. ConnFacts'
    BY <1>4, <2>2, <2>3 DEF ConnFacts, FetchAdd, TypeOK, Epiping
  <2>6. Pushing' = {} /\ Pushing = {} /\ queue' = <<>> /\ queue = <<>>
    BY <2>1, <1>4 DEF Account, Pushing, FetchAdd, TypeOK
  <2>7. HeldMsg = {} /\ HeldSending = {}
    BY <2>1 DEF Owners, HeldMsg, HeldSending, OwnerPC, Working, Epiping, MsgPC
  <2>8. HeldMsg' = {m}
    BY <1>4, <2>3 DEF HeldMsg, FetchAdd, TypeOK, MsgPC
  <2>9. HeldSending' = {}
    BY <1>4, <2>2 DEF HeldSending, FetchAdd, TypeOK, Owners, OwnerPC, Working, Epiping
  <2>10. Held(m)' = 1
    BY <1>4, <2>3 DEF Held, FetchAdd, TypeOK
  <2>11. Apart'
    BY <1>2, <1>3, <2>6, <2>7, <2>8, <2>9 DEF Apart
  <2>12. Account'
    <3>1. Cardinality(Pushing') = 0 /\ Len(queue') = 0 /\ size' = 1
      BY <2>6, <1>4, FS_EmptySet DEF FetchAdd
    <3>2. Accepted' = Pushing' \cup InQueue' \cup HeldMsg' \cup HeldSending' \cup Left'
      BY <1>2, <1>3, <2>1, <2>6, <2>7, <2>8, <2>9 DEF Account
    <3> QED BY <3>1, <3>2, <2>2, <2>10 DEF Account
  <2> QED BY <1>1, <1>2, <2>2, <2>4, <2>5, <2>11, <2>12 DEF SingleWriter
<1>5. CASE size # 0
  <2>1. Owners' = Owners
    BY <1>5 DEF TypeOK, FetchAdd, Owners, OwnerPC, Working, Epiping
  <2>2. OwnerFacts' /\ ConnFacts'
    BY <1>5, <2>1, SMTT(30)
       DEF TypeOK, FetchAdd, OwnerFacts, ConnFacts, Owners, OwnerPC, Working, Epiping
  <2>3. Pushing' = Pushing \cup {m} /\ m \notin Pushing
    BY <1>5 DEF TypeOK, FetchAdd, Pushing
  <2>4. HeldMsg' = HeldMsg /\ HeldSending' = HeldSending
    BY <1>5 DEF TypeOK, FetchAdd, HeldMsg, HeldSending, MsgPC
  <2>5. Apart'
    BY <1>2, <1>3, <1>5, <2>3, <2>4 DEF Apart, FetchAdd
  <2>6. Account'
    <3>1. CASE Stuck
      BY <2>1, <3>1, <1>5 DEF Stuck, Account, FetchAdd, TypeOK
    <3>2. CASE ~Stuck
      <4>1. Cardinality(Pushing') = Cardinality(Pushing) + 1
        BY <2>3, PushingFinite, FS_AddElement
      <4>2. Accepted' = Pushing' \cup InQueue' \cup HeldMsg' \cup HeldSending' \cup Left'
        BY <3>2, <1>2, <1>3, <2>3, <2>4 DEF Account
      <4>3. Owners # {}
        BY <3>2, <1>5 DEF Account
      <4>4. \A o \in Owners : Held(o)' = Held(o) /\ Held(o) \in Nat
        BY <1>5 DEF Held, FetchAdd, TypeOK, Owners, OwnerPC, Working, Epiping
      <4>5. size' = size + 1 /\ queue' = queue /\ size \in Nat /\ Len(queue) \in Nat
        BY <1>5 DEF FetchAdd, TypeOK
      <4> QED BY <2>1, <3>2, <4>1, <4>2, <4>3, <4>4, <4>5, PushingFinite DEF Account
    <3> QED BY <3>1, <3>2
  <2> QED BY <1>1, <1>2, <2>1, <2>2, <2>5, <2>6 DEF SingleWriter
<1> QED BY <1>4, <1>5

\* The exchange of _head keeps IInv.
LEMMA PushStep ==
  ASSUME IInv, NEW m \in Msg, Push(m), EpipeExclusive'
  PROVE  IInv'
<1> USE DEF IInv
<1>1. TypeOK'
  BY AppendElems DEF TypeOK, Push, PC
<1>2. Owners' = Owners
  BY DEF TypeOK, Push, Owners, OwnerPC, Working, Epiping
<1>3. SingleWriter' /\ OwnerFacts' /\ ConnFacts'
  <2>1. pc'[m] = "link" /\ \A n \in Msg : n # m => pc'[n] = pc[n]
    BY DEF Push, TypeOK
  <2>2. /\ UNCHANGED <<mode, cnt>> /\ UNCHANGED workVars /\ UNCHANGED connVars
        /\ pc[m] = "push"
    BY DEF Push
  <2>3. m \notin Owners /\ Owners \subseteq Msg
    BY <2>2 DEF Owners, OwnerPC, Working, Epiping
  <2>4. \A o \in Owners : pc'[o] = pc[o]
    BY <2>1, <2>3
  <2>5. SingleWriter'
    BY <1>2 DEF SingleWriter
  <2>6. OwnerFacts'
    BY <1>2, <2>2, <2>4 DEF OwnerFacts
  <2>7. ConnFacts'
    BY <1>2, <2>1, <2>2, <2>4 DEF ConnFacts
  <2> QED BY <2>5, <2>6, <2>7
<1>4. Pushing' = Pushing \ {m} /\ m \in Pushing /\ m \in Accepted
  BY DEF TypeOK, Push, Pushing, Accepted
<1>5. Accepted' = Accepted
  BY DEF TypeOK, Push, Accepted
<1>6. HeldMsg' = HeldMsg /\ HeldSending' = HeldSending
  BY DEF TypeOK, Push, HeldMsg, HeldSending, MsgPC
<1>7. MessageComplete' /\ LeavesOnce' /\ Left' = Left
  BY Zenon DEF Push, MessageComplete, Apart, LeavesOnce, Left
<1>8. InQueue' = InQueue \cup {m} /\ Distinct(queue') /\ Len(queue') = Len(queue) + 1
  BY <1>4, AppendElems DEF Push, InQueue, Apart, TypeOK
<1>9. Apart'
  BY <1>4, <1>5, <1>6, <1>7, <1>8 DEF Apart
<1>10. Account'
  <2>1. Cardinality(Pushing') = Cardinality(Pushing) - 1
    BY <1>4, PushingFinite, FS_RemoveElement, Zenon
  <2>2. size' = size /\ state' = state /\ isClient' = isClient /\ Len(queue) \in Nat
    BY DEF Push, TypeOK, connVars
  <2>3. \A o \in Owners : Held(o)' = Held(o)
    BY DEF Held, Push, TypeOK, Owners, OwnerPC, Working, Epiping
  <2>4. \A o \in Owners : Held(o) \in Nat
    BY DEF Held, TypeOK, Owners
  <2>5. CASE Stuck
    BY <1>2, <2>2, <2>5 DEF Stuck, Account
  <2>6. CASE ~Stuck
    BY <1>2, <1>4, <1>5, <1>6, <1>7, <1>8, <2>1, <2>2, <2>3, <2>4, <2>6, PushingFinite DEF Account
  <2> QED BY <2>5, <2>6
<1> QED BY <1>1, <1>3, <1>7, <1>9, <1>10

\* What the take of a message does to the places.
LEMMA TakeMsgFacts ==
  ASSUME TypeOK, Distinct(queue), TakeMsg, msg \in Msg
  PROVE  /\ sending' = msg /\ more' \in BOOLEAN /\ queue' \in Seq(Msg) /\ Distinct(queue')
         /\ more' => /\ msg' \in InQueue /\ msg' \in Msg
                     /\ InQueue' = InQueue \ {msg'} /\ Len(queue) = Len(queue') + 1
         /\ ~more' => /\ msg' = NoMsg /\ InQueue' = InQueue /\ Len(queue) = Len(queue')
<1>1. CASE CanPop
  <2>1. queue # <<>> /\ queue \in Seq(Msg) /\ Len(queue) \in Nat
    BY <1>1 DEF CanPop, TypeOK
  <2>2. /\ Tail(queue) \in Seq(Msg) /\ Len(queue) = Len(Tail(queue)) + 1
        /\ Head(queue) \in Msg /\ Head(queue) \in Elems(queue)
        /\ Elems(Tail(queue)) = Elems(queue) \ {Head(queue)} /\ Distinct(Tail(queue))
    BY <2>1, TailElems
  <2>3. sending' = msg /\ msg' = Head(queue) /\ queue' = Tail(queue) /\ more' = TRUE
    BY <1>1 DEF TakeMsg, PopInto
  <2> QED BY <2>2, <2>3 DEF InQueue
<1>2. CASE ~CanPop
  BY <1>2, Zenon DEF TypeOK, TakeMsg, InQueue
<1> QED BY <1>1, <1>2

\* The two actions that take a message keep the bookkeeping.
LEMMA TakeMsgBooks ==
  ASSUME IInv, NEW m \in Msg, Owners = {m}, Owners' = {m},
         TakeMsg, more, msg \in Msg, part = 0, part' = 0,
         pc[m] \in {"take", "connecting"}, pc'[m] \in {"send", "epipe"},
         pc' = [pc EXCEPT ![m] = pc'[m]],
         cnt'[m] = cnt[m] + 1, UNCHANGED <<size, out>>
  PROVE  Apart' /\ Account'
<1> USE DEF IInv
<1>1. TypeOK /\ Distinct(queue)
  BY DEF Apart
<1>2. Pushing' = Pushing /\ Accepted' = Accepted
  BY DEF TypeOK, Pushing, Accepted
<1>3. Left' = Left /\ LeavesOnce' = LeavesOnce
  BY DEF Left, LeavesOnce
<1>4. HeldMsg = {msg} /\ HeldSending = {}
  <2>1. HeldMsg = {msg}
    BY DEF HeldMsg, MsgPC
  <2>2. HeldSending = {}
    BY DEF HeldSending, Owners, OwnerPC, Working, Epiping
  <2> QED BY <2>1, <2>2
<1>5. HeldSending' = {msg}
  BY <1>1, TakeMsgFacts DEF HeldSending, TypeOK
<1>6. HeldMsg' = IF more' THEN {msg'} ELSE {}
  BY <1>1, TakeMsgFacts DEF HeldMsg, MsgPC, TypeOK
<1>7. msg \notin InQueue /\ msg \notin Pushing /\ msg \notin Left /\ msg \in Accepted
  BY <1>4 DEF Apart
<1>8. Apart'
  <2>1. CASE more'
    <3>1. msg' \in InQueue /\ InQueue' = InQueue \ {msg'} /\ Distinct(queue')
      BY <2>1, <1>1, TakeMsgFacts
    <3>2. HeldMsg' = {msg'}
      BY <1>6, <2>1
    <3> QED BY <3>1, <3>2, <1>2, <1>3, <1>5, <1>7 DEF Apart
  <2>2. CASE ~more'
    <3>1. InQueue' = InQueue /\ Distinct(queue')
      BY <2>2, <1>1, TakeMsgFacts
    <3>2. HeldMsg' = {}
      BY <1>6, <2>2
    <3> QED BY <3>1, <3>2, <1>2, <1>3, <1>5, <1>7 DEF Apart
  <2> QED BY <2>1, <2>2
<1>9. Account'
  <2>1. ~Stuck
    BY DEF Stuck
  <2>2. Accepted' = Pushing' \cup InQueue' \cup HeldMsg' \cup HeldSending' \cup Left'
    <3>1. Accepted = Pushing \cup InQueue \cup {msg} \cup Left
      BY <1>4, <2>1 DEF Account
    <3>2. CASE more'
      <4>1. msg' \in InQueue /\ InQueue' = InQueue \ {msg'} /\ HeldMsg' = {msg'}
        BY <3>2, <1>1, <1>6, TakeMsgFacts
      <4> QED BY <3>1, <4>1, <1>2, <1>3, <1>5
    <3>3. CASE ~more'
      <4>1. InQueue' = InQueue /\ HeldMsg' = {}
        BY <3>3, <1>1, <1>6, TakeMsgFacts
      <4> QED BY <3>1, <4>1, <1>2, <1>3, <1>5
    <3> QED BY <3>2, <3>3
  <2>3. size = Cardinality(Pushing) + Len(queue) + cnt[m] + 1 /\ size > 0
    <3>1. Held(m) = cnt[m] + 1
      BY DEF Held
    <3>2. size = Cardinality(Pushing) + Len(queue) + Held(m) /\ size > 0
      BY <2>1 DEF Account
    <3>3. Len(queue) \in Nat /\ cnt[m] \in Nat
      BY DEF TypeOK
    <3> QED BY <3>1, <3>2, <3>3, PushingFinite
  <2>4. Held(m)' = IF more' THEN cnt[m] + 2 ELSE cnt[m] + 1
    BY DEF Held, TypeOK
  <2>5. Len(queue) = IF more' THEN Len(queue') + 1 ELSE Len(queue')
    BY <1>1, TakeMsgFacts
  <2>6. /\ Len(queue) \in Nat /\ Len(queue') \in Nat /\ cnt[m] \in Nat
        /\ Cardinality(Pushing) \in Nat
    <3>1. queue' \in Seq(Msg)
      BY <1>1, TakeMsgFacts
    <3>2. queue \in Seq(Msg) /\ cnt[m] \in Nat
      BY DEF TypeOK
    <3> QED BY <3>1, <3>2, PushingFinite
  <2>7. size' = Cardinality(Pushing') + Len(queue') + Held(m)'
    BY <2>3, <2>4, <2>5, <2>6, <1>2
  <2> QED BY <2>2, <2>3, <2>7 DEF Account
<1> QED BY <1>8, <1>9

\* The take of the next message keeps IInv.
LEMMA TakeStep ==
  ASSUME IInv, NEW m \in Msg, Take(m), EpipeExclusive'
  PROVE  IInv'
<1> USE DEF IInv
<1>1. Owners = {m} /\ Owners' = {m}
  BY DEF TypeOK, Take, SingleWriter, Owners, OwnerPC, Working
<1>2. more /\ msg \in Msg /\ part = 0
  BY <1>1 DEF Take, OwnerFacts, MsgPC
<1>3. /\ sending' = msg /\ more' \in BOOLEAN /\ queue' \in Seq(Msg)
      /\ more' => msg' \in Msg
      /\ ~more' => msg' = NoMsg
  BY <1>2, TakeMsgFacts DEF Take, Apart
<1>4. TypeOK'
  BY <1>2, <1>3 DEF TypeOK, Take, PC, OwnerPC, Working
<1>5. OwnerFacts'
  BY <1>1, <1>2, <1>3 DEF TypeOK, Take, OwnerFacts
<1>6. ConnFacts'
  BY <1>1 DEF TypeOK, Take, ConnFacts, Epiping
<1>7. Apart' /\ Account'
  BY <1>1, <1>2, TakeMsgBooks, Zenon DEF Take, TypeOK
<1>8. MessageComplete'
  BY DEF Take, MessageComplete
<1> QED BY <1>1, <1>4, <1>5, <1>6, <1>7, <1>8 DEF SingleWriter

\* A failed connect keeps IInv.
LEMMA ConnectFailStep ==
  ASSUME IInv, NEW m \in Msg, ConnectFail(m), EpipeExclusive'
  PROVE  IInv'
<1> USE DEF IInv
<1>1. Owners = {m} /\ Owners' = {m}
  BY DEF TypeOK, ConnectFail, SingleWriter, Owners, OwnerPC, Working, Epiping
<1>2. more /\ msg \in Msg /\ part = 0
  BY <1>1 DEF ConnectFail, OwnerFacts, MsgPC
<1>3. /\ sending' = msg /\ more' \in BOOLEAN /\ queue' \in Seq(Msg)
      /\ more' => msg' \in Msg
      /\ ~more' => msg' = NoMsg
  BY <1>2, TakeMsgFacts DEF ConnectFail, Apart
<1>4. TypeOK'
  BY <1>2, <1>3 DEF TypeOK, ConnectFail, PC, OwnerPC, Epiping
<1>5. OwnerFacts'
  <2>1. pc'[m] = "epipe" /\ cnt[m] \in Nat /\ cnt'[m] = cnt[m] + 1
    BY DEF ConnectFail, TypeOK
  <2>2. cnt'[m] > 0
    BY <2>1
  <2> QED BY <1>1, <1>2, <1>3, <2>1, <2>2, OwnerAtEpipe
<1>6. ConnFacts'
  BY <1>1 DEF TypeOK, ConnectFail, ConnFacts, Epiping
<1>7. Apart' /\ Account'
  BY <1>1, <1>2, TakeMsgBooks, Zenon DEF ConnectFail, TypeOK
<1>8. MessageComplete'
  BY DEF ConnectFail, MessageComplete
<1> QED BY <1>1, <1>4, <1>5, <1>6, <1>7, <1>8 DEF SingleWriter

\* The rest of a half-written message keeps IInv.
LEMMA ResumeStep ==
  ASSUME IInv, NEW m \in Msg, Resume(m), EpipeExclusive'
  PROVE  IInv'
<1> USE DEF IInv
<1>1. Owners = {m} /\ Owners' = {m}
  BY DEF TypeOK, Resume, SingleWriter, Owners, OwnerPC, Working, Epiping
<1>2. Pushing' = Pushing /\ Accepted' = Accepted /\ queue' = queue /\ size' = size
  BY DEF TypeOK, Resume, Pushing, Accepted
<1>3. Held(m)' = Held(m) /\ ~Stuck
  BY <1>1 DEF Resume, TypeOK, Held, Stuck
<1>4. HeldMsg' = HeldMsg
  BY <1>1 DEF Resume, TypeOK, HeldMsg, MsgPC
<1>5. ConnFacts'
  <2>1. /\ pc'[m] \in {"epipe", "take", "sub"} /\ (pc'[m] = "epipe" => ~up)
        /\ \A n \in Msg : n # m => pc'[n] = pc[n]
    BY DEF Resume, TypeOK
  <2>2. UNCHANGED mode /\ UNCHANGED connVars /\ pc[m] = "resume"
    BY DEF Resume
  <2> QED BY <1>1, <2>1, <2>2 DEF ConnFacts, Epiping
<1>6. OwnerFacts'
  BY <1>1 DEF TypeOK, Resume, OwnerFacts, MsgPC
<1>7. CASE part = 0 \/ ~up
  <2>1. out' = out
    BY <1>7 DEF Resume
  <2>2. TypeOK'
    <3>1. \E l \in {"epipe", "take", "sub"} : pc' = [pc EXCEPT ![m] = l]
      BY DEF Resume
    <3>2. pc' \in [Msg -> PC]
      BY <3>1 DEF TypeOK, PC, OwnerPC, Working, Epiping
    <3>3. part' \in Nat
      BY DEF TypeOK, Resume
    <3> QED BY <2>1, <3>2, <3>3 DEF TypeOK, Resume
  <2>3. HeldSending' = HeldSending
    BY <1>1, <1>7 DEF Resume, TypeOK, HeldSending, Owners, OwnerPC, Working, Epiping
  <2>4. Apart' /\ Account'
    BY <1>1, <1>2, <1>3, <1>4, <2>1, <2>3, Frame
  <2>5. MessageComplete'
    BY <2>1 DEF MessageComplete
  <2> QED BY <1>1, <1>5, <1>6, <2>2, <2>4, <2>5 DEF SingleWriter
<1>8. CASE part # 0 /\ up
  <2> DEFINE r == Gone(sock)
  <2>1. sending \in Msg /\ part = sock
    BY <1>1, <1>8 DEF Resume, OwnerFacts
  <2>2. r \in Record /\ r.m = sending /\ r.first = r.last
    BY <2>1 DEF Gone, Record, TypeOK
  <2>3. out' = Append(out, r) /\ part' = 0
    BY <1>8 DEF Resume
  <2>4. HeldSending = {sending}
    BY <2>1, <1>8 DEF HeldSending, Resume
  <2>5. HeldSending' = {}
    BY <1>1, <1>8 DEF Resume, TypeOK, HeldSending, Owners, OwnerPC, Working, Epiping
  <2>6. sending \notin Left /\ LeavesOnce
    BY <2>4 DEF Apart
  <2> HIDE DEF r
  <2>7. out' \in Seq(Record) /\ Left' = Left \cup {sending} /\ LeavesOnce' /\ MessageComplete'
    <3>1. out \in Seq(Record)
      BY DEF TypeOK
    <3>2. LeftIn(out) = Left /\ OnceIn(out) /\ WholeIn(out)
      BY <2>6, OutDefs
    <3>3. /\ Append(out, r) \in Seq(Record) /\ LeftIn(Append(out, r)) = Left \cup {sending}
          /\ OnceIn(Append(out, r)) /\ WholeIn(Append(out, r))
      BY <3>1, <3>2, <2>2, <2>6, OutAppend
    <3> QED BY Zenon, <3>3, <2>3 DEF Left, LeavesOnce, MessageComplete, LeftIn, OnceIn, WholeIn
  <2>8. TypeOK'
    BY <2>3, <2>7 DEF TypeOK, Resume, PC, OwnerPC, Working, Epiping
  <2>9. InQueue' = InQueue
    BY <1>2 DEF InQueue
  <2>10. Apart'
    BY <1>2, <1>4, <2>4, <2>5, <2>7, <2>9 DEF Apart
  <2>11. Account'
    BY <1>1, <1>2, <1>3, <1>4, <2>4, <2>5, <2>7, <2>9 DEF Account
  <2> QED BY <1>1, <1>5, <1>6, <2>7, <2>8, <2>10, <2>11 DEF SingleWriter
<1> QED BY <1>7, <1>8 DEF TypeOK

\* A complete write keeps IInv.
LEMMA SendOkStep ==
  ASSUME IInv, NEW m \in Msg, SendOk(m), EpipeExclusive'
  PROVE  IInv'
<1> USE DEF IInv
<1>1. Owners = {m} /\ Owners' = {m}
  BY DEF TypeOK, SendOk, SingleWriter, Owners, OwnerPC, Working, Epiping
<1>2. Pushing' = Pushing /\ Accepted' = Accepted /\ queue' = queue /\ size' = size
  BY DEF TypeOK, SendOk, Pushing, Accepted
<1>3. Held(m)' = Held(m) /\ ~Stuck
  BY <1>1 DEF SendOk, TypeOK, Held, Stuck
<1>4. HeldMsg' = HeldMsg
  BY <1>1 DEF SendOk, TypeOK, HeldMsg, MsgPC, Owners, OwnerPC, Working, Epiping
<1>5. ConnFacts'
  BY <1>1 DEF TypeOK, SendOk, OwnerFacts, ConnFacts, Epiping
<1>6. OwnerFacts'
  BY <1>1 DEF TypeOK, SendOk, OwnerFacts, MsgPC
<1> DEFINE r == Gone(sock)
<1>7. sending \in Msg /\ part = 0
  BY <1>1 DEF SendOk, OwnerFacts
<1>8. r \in Record /\ r.m = sending /\ r.first = r.last
  BY <1>7 DEF Gone, Record, TypeOK
<1>9. out' = Append(out, r)
  BY DEF SendOk
<1>10. HeldSending = {sending}
  BY <1>7 DEF HeldSending, SendOk
<1>11. HeldSending' = {}
  BY <1>1, <1>7 DEF SendOk, TypeOK, HeldSending, Owners, OwnerPC, Working, Epiping
<1>12. sending \notin Left /\ LeavesOnce
  BY <1>10 DEF Apart
<1> HIDE DEF r
<1>13. out' \in Seq(Record) /\ Left' = Left \cup {sending} /\ LeavesOnce' /\ MessageComplete'
  <2>1. out \in Seq(Record)
    BY DEF TypeOK
  <2>2. LeftIn(out) = Left /\ OnceIn(out) /\ WholeIn(out)
    BY <1>12, OutDefs
  <2>3. /\ Append(out, r) \in Seq(Record) /\ LeftIn(Append(out, r)) = Left \cup {sending}
        /\ OnceIn(Append(out, r)) /\ WholeIn(Append(out, r))
    BY <2>1, <2>2, <1>8, <1>12, OutAppend
  <2> QED BY Zenon, <2>3, <1>9 DEF Left, LeavesOnce, MessageComplete, LeftIn, OnceIn, WholeIn
<1>14. TypeOK'
  BY <1>13 DEF TypeOK, SendOk, PC, OwnerPC, Working
<1>15. InQueue' = InQueue
  BY <1>2 DEF InQueue
<1>16. Apart'
  BY <1>2, <1>4, <1>10, <1>11, <1>13, <1>15 DEF Apart
<1>17. Account'
  BY <1>1, <1>2, <1>3, <1>4, <1>10, <1>11, <1>13, <1>15 DEF Account
<1> QED BY <1>1, <1>5, <1>6, <1>13, <1>14, <1>16, <1>17 DEF SingleWriter

\* A natural minus a part of it.
LEMMA Subtract ==
  ASSUME NEW a \in Nat, NEW b \in Nat, NEW c \in Nat
  PROVE  (a + b + c) - c = a + b /\ a + b \in Nat
OBVIOUS

\* The two fetch_sub calls: the batch is complete, nothing is held any more.
LEMMA SubBooks ==
  ASSUME IInv, NEW m \in Msg, Owners = {m}, Held(m) = cnt[m],
         HeldMsg = {}, HeldSending = {}, HeldMsg' = {}, HeldSending' = {},
         UNCHANGED <<Pushing, Accepted, queue, out>>,
         size' = size - cnt[m], size # cnt[m] => Held(m)' = 0,
         Owners' = IF size = cnt[m] THEN {} ELSE {m}
  PROVE  size' \in Nat /\ Apart' /\ Account'
<1> USE DEF IInv
<1>1. InQueue' = InQueue /\ Left' = Left /\ LeavesOnce' = LeavesOnce
  BY DEF InQueue, Left, LeavesOnce
<1>2. Apart'
  BY <1>1 DEF Apart
<1>3. ~Stuck
  BY DEF Stuck
<1>4. Accepted' = Pushing' \cup InQueue' \cup HeldMsg' \cup HeldSending' \cup Left'
  BY <1>1, <1>3 DEF Account
<1>5. size = Cardinality(Pushing) + Len(queue) + cnt[m]
  BY <1>3 DEF Account
<1>6. Cardinality(Pushing) \in Nat /\ Len(queue) \in Nat /\ cnt[m] \in Nat
  BY PushingFinite DEF TypeOK
<1>7. size' = Cardinality(Pushing) + Len(queue) /\ size' \in Nat
  <2> DEFINE a == Cardinality(Pushing)
             b == Len(queue)
             c == cnt[m]
  <2>1. a \in Nat /\ b \in Nat /\ c \in Nat
    BY <1>6
  <2>2. size' = (a + b + c) - c
    BY <1>5
  <2> HIDE DEF a, b, c
  <2>3. size' = a + b /\ size' \in Nat
    <3>1. (a + b + c) - c = a + b
      BY <2>1, Subtract
    <3> QED BY <2>1, <2>2, <3>1, SMTT(20)
  <2> QED BY <2>3 DEF a, b
<1>8. CASE size = cnt[m]
  <2>1. Cardinality(Pushing) = 0 /\ Len(queue) = 0 /\ size' = 0
    BY <1>5, <1>6, <1>7, <1>8
  <2>2. Pushing = {} /\ queue = <<>>
    BY <2>1, PushingFinite DEF TypeOK
  <2> QED BY <1>2, <1>4, <1>7, <1>8, <2>1, <2>2 DEF Account
<1>9. CASE size # cnt[m]
  <2>1. size' > 0
    BY <1>5, <1>6, <1>7, <1>9
  <2> QED BY <1>2, <1>4, <1>6, <1>7, <1>9, <2>1 DEF Account
<1> QED BY <1>8, <1>9

\* The fetch_sub that ends a batch keeps IInv.
LEMMA SubStep ==
  ASSUME IInv, NEW m \in Msg, Sub(m), EpipeExclusive'
  PROVE  IInv'
<1> USE DEF IInv
<1>1. Owners = {m}
  BY DEF TypeOK, Sub, SingleWriter, Owners, OwnerPC, Working
<1>2. Owners' = IF size = cnt[m] THEN {} ELSE {m}
  BY <1>1 DEF TypeOK, Sub, Owners, OwnerPC, Working, Epiping
<1>3. ~more /\ part = 0
  BY <1>1 DEF Sub, OwnerFacts
<1>4. Pushing' = Pushing /\ Accepted' = Accepted /\ queue' = queue /\ out' = out
  BY DEF TypeOK, Sub, Pushing, Accepted
<1>5. HeldMsg = {} /\ HeldMsg' = {}
  BY <1>3 DEF Sub, HeldMsg
<1>6. HeldSending = {} /\ HeldSending' = {}
  BY <1>1, <1>3 DEF Sub, TypeOK, HeldSending, Owners, OwnerPC, Working, Epiping
<1>7. Held(m) = cnt[m]
  BY <1>3 DEF Held, Sub
<1>8. size # cnt[m] => Held(m)' = 0
  BY DEF Held, Sub, TypeOK
<1>9. size' \in Nat /\ Apart' /\ Account'
  BY <1>1, <1>2, <1>4, <1>5, <1>6, <1>7, <1>8, SubBooks, Zenon DEF Sub
<1>10. TypeOK'
  BY <1>9 DEF TypeOK, Sub, PC, OwnerPC, Working
<1>11. OwnerFacts'
  BY <1>2, <1>3 DEF OwnerFacts, Sub, TypeOK, MsgPC
<1>12. ConnFacts'
  BY <1>1, <1>2 DEF ConnFacts, Sub, TypeOK, Epiping
<1> QED BY <1>2, <1>4, <1>9, <1>10, <1>11, <1>12 DEF SingleWriter, MessageComplete

\* What a pop does to the queue.
LEMMA PopFacts ==
  ASSUME TypeOK, Distinct(queue), queue # <<>>, queue' = Tail(queue)
  PROVE  /\ Head(queue) \in Msg /\ Head(queue) \in InQueue
         /\ InQueue' = InQueue \ {Head(queue)}
         /\ queue' \in Seq(Msg) /\ Distinct(queue')
         /\ Len(queue) = Len(queue') + 1 /\ Len(queue') \in Nat
<1>1. queue \in Seq(Msg) /\ Len(queue) \in Nat
  BY DEF TypeOK
<1>2. /\ Tail(queue) \in Seq(Msg) /\ Len(queue) = Len(Tail(queue)) + 1
      /\ Head(queue) \in Msg /\ Head(queue) \in Elems(queue)
      /\ Elems(Tail(queue)) = Elems(queue) \ {Head(queue)} /\ Distinct(Tail(queue))
  BY <1>1, TailElems
<1>3. Len(Tail(queue)) \in Nat
  BY <1>2
<1> QED BY <1>2, <1>3 DEF InQueue

\* The pop that begins the next batch keeps IInv.
LEMMA SpinStep ==
  ASSUME IInv, NEW m \in Msg, Spin(m), EpipeExclusive'
  PROVE  IInv'
<1> USE DEF IInv
<1>1. Owners = {m} /\ Owners' = {m}
  BY DEF TypeOK, Spin, SingleWriter, Owners, OwnerPC, Working
<1>2. ~more /\ part = 0
  BY <1>1 DEF Spin, OwnerFacts
<1>3. queue # <<>> /\ queue' = Tail(queue) /\ Distinct(queue)
  BY DEF Spin, PopInto, CanPop, Apart
<1> DEFINE h == Head(queue)
<1>4. /\ h \in Msg /\ h \in InQueue /\ InQueue' = InQueue \ {h}
      /\ queue' \in Seq(Msg) /\ Distinct(queue')
      /\ Len(queue) = Len(queue') + 1 /\ Len(queue') \in Nat
  BY <1>3, PopFacts
<1>5. msg' = h /\ more'
  BY DEF Spin, PopInto
<1> HIDE DEF h
<1>6. TypeOK'
  BY <1>4, <1>5 DEF TypeOK, Spin, PC, OwnerPC, Working
<1>7. OwnerFacts'
  BY <1>1, <1>2, <1>4, <1>5 DEF OwnerFacts, Spin, TypeOK
<1>8. ConnFacts'
  BY <1>1 DEF ConnFacts, Spin, TypeOK, Epiping
<1>9. Pushing' = Pushing /\ Accepted' = Accepted
  BY DEF TypeOK, Spin, Pushing, Accepted
<1>10. Left' = Left /\ LeavesOnce' = LeavesOnce /\ MessageComplete'
  BY Zenon DEF Spin, Left, LeavesOnce, MessageComplete
<1>11. HeldMsg = {} /\ HeldMsg' = {h}
  BY <1>2, <1>4, <1>5 DEF HeldMsg, Spin, TypeOK, MsgPC
<1>12. HeldSending = {} /\ HeldSending' = {}
  BY <1>1, <1>2 DEF Spin, TypeOK, HeldSending, Owners, OwnerPC, Working, Epiping
<1>13. Apart'
  BY <1>4, <1>9, <1>10, <1>11, <1>12 DEF Apart
<1>14. Account'
  <2>1. ~Stuck
    BY <1>1 DEF Stuck
  <2>2. Accepted' = Pushing' \cup InQueue' \cup HeldMsg' \cup HeldSending' \cup Left'
    BY <2>1, <1>4, <1>9, <1>10, <1>11, <1>12 DEF Account
  <2>3. Held(m) = 0 /\ Held(m)' = 1
    BY <1>5 DEF Held, Spin, TypeOK
  <2>4. size = Cardinality(Pushing) + Len(queue) + 0 /\ size > 0 /\ size' = size
    BY <1>1, <2>1, <2>3 DEF Account, Spin
  <2>5. size' = Cardinality(Pushing') + Len(queue') + 1
    BY <2>4, <1>4, <1>9, PushingFinite
  <2> QED BY <1>1, <2>2, <2>3, <2>4, <2>5 DEF Account
<1> QED BY <1>1, <1>6, <1>7, <1>8, <1>10, <1>13, <1>14 DEF SingleWriter

\* The start of epipe keeps IInv.
LEMMA EpipeStep ==
  ASSUME IInv, NEW m \in Msg, Epipe(m), EpipeExclusive'
  PROVE  IInv'
<1> USE DEF IInv
<1>1. Owners = {m}
  BY DEF TypeOK, Epipe, SingleWriter, Owners, OwnerPC, Epiping
<1>2. TypeOK'
  BY Zenon DEF TypeOK, Epipe, PC, OwnerPC, Epiping
<1>3. MessageComplete' /\ Left' = Left /\ LeavesOnce' = LeavesOnce /\ InQueue' = InQueue
  BY Zenon DEF Epipe, MessageComplete, Left, LeavesOnce, InQueue
<1>4. Pushing' = Pushing /\ Accepted' = Accepted
  BY DEF Epipe, TypeOK, Pushing, Accepted
<1>5. CASE isClient
  <2>1. Owners' = {m}
    BY <1>1, <1>5 DEF TypeOK, Epipe, Owners, OwnerPC, Epiping
  <2>2. OwnerFacts'
    BY <1>1, <2>1, <1>5 DEF OwnerFacts, Epipe, TypeOK, MsgPC
  <2>3. ConnFacts'
    BY <1>1, <2>1, <1>5 DEF ConnFacts, Epipe, TypeOK, Epiping
  <2>4. HeldMsg' = HeldMsg /\ HeldSending' = HeldSending
    BY <1>5 DEF HeldMsg, HeldSending, MsgPC, Epipe, TypeOK
  <2>5. Held(m)' = Held(m) /\ ~Stuck
    BY <1>1, <1>5 DEF Held, Stuck, Epipe, TypeOK
  <2>6. Apart' /\ Account'
    BY <1>1, <1>4, <2>1, <2>4, <2>5, Frame DEF Epipe
  <2> QED BY <1>2, <1>3, <2>1, <2>2, <2>3, <2>6 DEF SingleWriter
<1>6. CASE ~isClient
  <2>1. Owners' = {}
    BY <1>1, <1>6 DEF TypeOK, Epipe, Owners, OwnerPC, Working, Epiping
  <2>2. OwnerFacts' /\ ConnFacts'
    BY <2>1, <1>6, Zenon DEF OwnerFacts, ConnFacts, Epipe, TypeOK
  <2>3. HeldMsg' = {} /\ HeldSending' = {}
    BY <2>1 DEF Owners, HeldMsg, HeldSending, OwnerPC, Working, Epiping, MsgPC
  <2>4. Apart'
    BY <1>3, <1>4, <2>3 DEF Apart, Epipe
  <2>5. size > 0
    BY <1>1 DEF Account, Stuck
  <2>6. Account'
    BY <2>1, <2>5, <1>6 DEF Account, Stuck, Epipe
  <2> QED BY <1>2, <1>3, <2>1, <2>2, <2>4, <2>6 DEF SingleWriter
<1> QED BY <1>5, <1>6

\* The two messages handed back by epipe keep IInv.
LEMMA RerouteStep ==
  ASSUME IInv, NEW m \in Msg, Reroute(m), EpipeExclusive'
  PROVE  IInv'
<1> USE DEF IInv
<1>1. Owners = {m} /\ Owners' = {m}
  BY DEF TypeOK, Reroute, SingleWriter, Owners, OwnerPC, Epiping
<1>2. sending \in Msg /\ cnt[m] > 0 /\ (more => msg \in Msg)
  BY <1>1 DEF Reroute, OwnerFacts, MsgPC
<1>3. HeldSending = {sending}
  BY <1>2 DEF HeldSending, Reroute
<1>4. HeldMsg = IF more THEN {msg} ELSE {}
  BY <1>2 DEF HeldMsg, Reroute, MsgPC
<1>5. HeldMsg' = {} /\ HeldSending' = {}
  BY <1>1 DEF HeldMsg, HeldSending, Reroute, TypeOK, Owners, OwnerPC, Working, Epiping, MsgPC
<1>6. Pushing' = Pushing /\ Accepted' = Accepted /\ InQueue' = InQueue
  BY DEF Reroute, TypeOK, Pushing, Accepted, InQueue
<1>7. out' \in Seq(Record) /\ Left' = Left \cup HeldMsg \cup HeldSending
      /\ LeavesOnce' /\ MessageComplete'
  <2> DEFINE one == Append(out, HandedBack(sending))
             two == Append(one, HandedBack(msg))
  <2>1. out \in Seq(Record) /\ LeftIn(out) = Left /\ OnceIn(out) /\ WholeIn(out)
    BY OutDefs DEF TypeOK, Apart
  <2>3. sending \notin Left
    BY <1>3 DEF Apart
  <2>4. /\ one \in Seq(Record) /\ LeftIn(one) = Left \cup {sending}
        /\ OnceIn(one) /\ WholeIn(one)
    BY <2>1, <2>3, <1>2, HandBack
  <2>5. Left' = LeftIn(out') /\ LeavesOnce' = OnceIn(out') /\ MessageComplete' = WholeIn(out')
    BY DEF Left, LeavesOnce, MessageComplete, LeftIn, OnceIn, WholeIn
  <2>6. CASE more
    <3>1. msg \notin Left \cup {sending}
      BY <2>6, <1>3, <1>4, Zenon DEF Apart
    <3> HIDE DEF one
    <3>2. /\ two \in Seq(Record) /\ LeftIn(two) = Left \cup {sending} \cup {msg}
          /\ OnceIn(two) /\ WholeIn(two)
      BY <2>4, <2>6, <3>1, <1>2, HandBack
    <3>3. out' = two
      BY <2>6 DEF Reroute, one
    <3> HIDE DEF two
    <3>4. HeldMsg = {msg}
      BY <2>6, <1>4
    <3> QED BY <2>5, <3>2, <3>3, <3>4, <1>3
  <2>7. CASE ~more
    <3>1. out' = one
      BY <2>7 DEF Reroute
    <3> HIDE DEF one
    <3>2. HeldMsg = {}
      BY <2>7, <1>4
    <3> QED BY <2>5, <2>4, <3>1, <3>2, <1>3
  <2> QED BY <2>6, <2>7
<1>8. cnt'[m] \in Nat /\ cnt'[m] > 0 /\ cnt' \in [Msg -> Nat]
  <2> DEFINE k == IF more THEN cnt[m] + 1 ELSE cnt[m]
  <2>1. cnt' = [cnt EXCEPT ![m] = k]
    BY DEF Reroute
  <2>2. cnt \in [Msg -> Nat]
    BY DEF TypeOK
  <2>3. k \in Nat /\ k > 0
    BY <2>2, <1>2
  <2> HIDE DEF k
  <2> QED BY <2>1, <2>2, <2>3
<1>9. TypeOK'
  BY <1>7, <1>8 DEF TypeOK, Reroute, PC, OwnerPC, Epiping
<1>10. OwnerFacts'
  <2>1. pc'[m] = "esub" /\ part' = 0
    BY DEF Reroute, TypeOK
  <2> QED BY <1>1, <1>8, <2>1, OwnerAtEsub
<1>11. ConnFacts'
  BY <1>1 DEF ConnFacts, Reroute, TypeOK, Epiping
<1>12. Apart'
  BY <1>3, <1>5, <1>6, <1>7 DEF Apart, Reroute
<1>13. Account'
  <2>1. ~Stuck
    BY <1>1 DEF Stuck
  <2>2. Accepted' = Pushing' \cup InQueue' \cup HeldMsg' \cup HeldSending' \cup Left'
    BY <2>1, <1>5, <1>6, <1>7 DEF Account
  <2>3. Held(m)' = Held(m)
    BY DEF Held, Reroute, TypeOK
  <2> QED BY <1>1, <1>6, <2>1, <2>2, <2>3 DEF Account, Reroute
<1> QED BY <1>1, <1>7, <1>9, <1>10, <1>11, <1>12, <1>13 DEF SingleWriter

\* The fetch_sub of epipe's drain keeps IInv.
LEMMA EpipeSubStep ==
  ASSUME IInv, NEW m \in Msg, EpipeSub(m), EpipeExclusive'
  PROVE  IInv'
<1> USE DEF IInv
<1>1. Owners = {m}
  BY DEF TypeOK, EpipeSub, SingleWriter, Owners, OwnerPC, Epiping
<1>2. Owners' = IF size = cnt[m] THEN {} ELSE {m}
  BY <1>1 DEF TypeOK, EpipeSub, Owners, OwnerPC, Working, Epiping
<1>3. part = 0
  BY <1>1, Zenon DEF EpipeSub, OwnerFacts
<1>4. Pushing' = Pushing /\ Accepted' = Accepted /\ queue' = queue /\ out' = out
  BY DEF TypeOK, EpipeSub, Pushing, Accepted
<1>5. HeldMsg = {} /\ HeldMsg' = {}
  BY <1>1 DEF EpipeSub, TypeOK, HeldMsg, MsgPC, Owners, OwnerPC, Working, Epiping
<1>6. HeldSending = {} /\ HeldSending' = {}
  BY <1>1, <1>3 DEF EpipeSub, TypeOK, HeldSending, Owners, OwnerPC, Working, Epiping
<1>7. Held(m) = cnt[m]
  BY DEF Held, EpipeSub
<1>8. size # cnt[m] => Held(m)' = 0
  BY DEF Held, EpipeSub, TypeOK
<1>9. size' \in Nat /\ Apart' /\ Account'
  BY <1>1, <1>2, <1>4, <1>5, <1>6, <1>7, <1>8, SubBooks, Zenon DEF EpipeSub
<1>10. TypeOK'
  BY <1>9 DEF TypeOK, EpipeSub, PC, OwnerPC, Epiping
<1>11. OwnerFacts'
  BY <1>2, <1>3, Zenon DEF OwnerFacts, EpipeSub, TypeOK, MsgPC
<1>12. ConnFacts'
  BY <1>1, <1>2 DEF ConnFacts, EpipeSub, TypeOK, Epiping
<1> QED BY <1>2, <1>4, <1>9, <1>10, <1>11, <1>12 DEF SingleWriter, MessageComplete

\* The pop and the hand-back of epipe's drain keep IInv.
LEMMA EpipeSpinStep ==
  ASSUME IInv, NEW m \in Msg, EpipeSpin(m), EpipeExclusive'
  PROVE  IInv'
<1> USE DEF IInv
<1>1. Owners = {m} /\ Owners' = {m}
  <2>1. pc[m] \in OwnerPC /\ "esub" \in OwnerPC
    BY DEF EpipeSpin, OwnerPC, Epiping
  <2>2. pc' = [pc EXCEPT ![m] = "esub"]
    BY DEF EpipeSpin
  <2> QED BY <2>1, <2>2, OwnerStays, Zenon
<1>2. part = 0
  BY <1>1 DEF EpipeSpin, OwnerFacts
<1>3. queue # <<>> /\ queue' = Tail(queue) /\ Distinct(queue)
  BY DEF EpipeSpin, CanPop, Apart
<1> DEFINE h == Head(queue)
<1>4. /\ h \in Msg /\ h \in InQueue /\ InQueue' = InQueue \ {h}
      /\ queue' \in Seq(Msg) /\ Distinct(queue')
      /\ Len(queue) = Len(queue') + 1 /\ Len(queue') \in Nat
  BY <1>3, PopFacts
<1>5. out' = Append(out, HandedBack(h))
  BY DEF EpipeSpin
<1> HIDE DEF h
<1>6. out' \in Seq(Record) /\ Left' = Left \cup {h} /\ LeavesOnce' /\ MessageComplete'
  <2>1. out \in Seq(Record) /\ LeftIn(out) = Left /\ OnceIn(out) /\ WholeIn(out)
    BY OutDefs DEF TypeOK, Apart
  <2>3. h \notin Left
    BY <1>4 DEF Apart
  <2>4. /\ out' \in Seq(Record) /\ LeftIn(out') = Left \cup {h} /\ OnceIn(out') /\ WholeIn(out')
    BY <2>1, <2>3, <1>4, <1>5, HandBack
  <2> QED BY <2>4, Zenon DEF Left, LeavesOnce, MessageComplete, LeftIn, OnceIn, WholeIn
<1>7. TypeOK'
  BY <1>4, <1>6 DEF TypeOK, EpipeSpin, PC, OwnerPC, Epiping
<1>8. OwnerFacts'
  <2>1. pc'[m] = "esub" /\ cnt'[m] = 1 /\ part' = 0
    BY <1>2 DEF EpipeSpin, TypeOK
  <2>2. cnt'[m] > 0
    BY <2>1
  <2> QED BY <1>1, <2>1, <2>2, OwnerAtEsub
<1>9. ConnFacts'
  BY <1>1 DEF ConnFacts, EpipeSpin, TypeOK, Epiping
<1>10. Pushing' = Pushing /\ Accepted' = Accepted
  BY DEF TypeOK, EpipeSpin, Pushing, Accepted
<1>11. HeldMsg = {} /\ HeldMsg' = {}
  BY <1>1 DEF HeldMsg, EpipeSpin, TypeOK, MsgPC, Owners, OwnerPC, Working, Epiping
<1>12. HeldSending = {} /\ HeldSending' = {}
  BY <1>1, <1>2 DEF EpipeSpin, TypeOK, HeldSending, Owners, OwnerPC, Working, Epiping
<1>13. Apart'
  BY <1>4, <1>6, <1>10, <1>11, <1>12 DEF Apart
<1>14. Account'
  <2>1. ~Stuck
    BY <1>1 DEF Stuck
  <2>2. Accepted' = Pushing' \cup InQueue' \cup HeldMsg' \cup HeldSending' \cup Left'
    BY <2>1, <1>4, <1>6, <1>10, <1>11, <1>12 DEF Account
  <2>3. Held(m) = 0 /\ Held(m)' = 1
    BY DEF Held, EpipeSpin, TypeOK
  <2>4. size = Cardinality(Pushing) + Len(queue) + 0 /\ size > 0 /\ size' = size
    BY <1>1, <2>1, <2>3 DEF Account, EpipeSpin
  <2>5. size' = Cardinality(Pushing') + Len(queue') + 1
    BY <2>4, <1>4, <1>10, PushingFinite
  <2> QED BY <1>1, <2>2, <2>3, <2>4, <2>5 DEF Account
<1> QED BY <1>1, <1>6, <1>7, <1>8, <1>9, <1>13, <1>14 DEF SingleWriter

-----------------------------------------------------------------------------
(* The theorems. *)

\* IInv holds of a new FrontEnd.
LEMMA InitInv == Init => IInv
<1> SUFFICES ASSUME Init PROVE IInv
  OBVIOUS
<1>1. TypeOK
  <2>1. queue \in Seq(Msg) /\ out \in Seq(Record)
    BY DEF Init
  <2>2. /\ state \in SUBSET {"DISCONNECT", "CONNECT", "EPIPE"}
        /\ sock \in Nat /\ up \in BOOLEAN /\ reg \in BOOLEAN
    <3>1. CASE isClient
      <4>1. state = {"DISCONNECT"} /\ sock = 0 /\ up = FALSE /\ reg = FALSE
        BY <3>1 DEF Init
      <4> QED BY <4>1, Zenon
    <3>2. CASE ~isClient
      <4>1. state = {"CONNECT"} /\ sock = 1 /\ up = TRUE /\ reg = TRUE
        BY <3>2 DEF Init
      <4> QED BY <4>1
    <3> QED BY <3>1, <3>2
  <2> QED BY <2>1, <2>2, Zenon DEF Init, TypeOK, PC, Modes
<1>2. Owners = {} /\ Pushing = {} /\ Accepted = {} /\ InQueue = {} /\ Left = {}
  BY DEF Init, Owners, OwnerPC, Working, Epiping, Pushing, Accepted, InQueue, Elems, Left
<1>3. HeldMsg = {} /\ HeldSending = {}
  BY DEF Init, HeldMsg, HeldSending, MsgPC
<1>4. SingleWriter /\ OwnerFacts
  BY <1>2 DEF SingleWriter, OwnerFacts
<1>5. EpipeExclusive
  BY DEF Init, EpipeExclusive, InEpipe, Epiping
<1>6. ConnFacts
  BY <1>2 DEF Init, ConnFacts
<1>7. LeavesOnce /\ MessageComplete /\ Distinct(queue)
  BY DEF Init, LeavesOnce, MessageComplete, Distinct
<1>8. Apart
  BY <1>2, <1>3, <1>7 DEF Apart
<1>9. Account
  BY <1>2, <1>3 DEF Account, Init
<1> QED BY <1>1, <1>4, <1>5, <1>6, <1>7, <1>8, <1>9 DEF IInv

\* Every step of the exclusive behaviours keeps IInv.
LEMMA StepInv == IInv /\ [ExclusiveNext]_vars => IInv'
<1> SUFFICES ASSUME IInv, [ExclusiveNext]_vars PROVE IInv'
  OBVIOUS
<1>1. CASE UNCHANGED vars
  <2>1. UNCHANGED <<Owners, Pushing, Accepted, HeldMsg, HeldSending, InQueue, Left, Stuck>>
    BY <1>1, Zenon DEF vars, Owners, Pushing, Accepted, HeldMsg, HeldSending, InQueue, Left, Stuck
  <2>2. \A o \in Msg : Held(o)' = Held(o)
    BY <1>1 DEF vars, Held
  <2>3. TypeOK' /\ EpipeExclusive' /\ LeavesOnce' = LeavesOnce /\ MessageComplete'
    BY <1>1, Zenon DEF vars, IInv, TypeOK, EpipeExclusive, LeavesOnce, MessageComplete
  <2>4. OwnerFacts' /\ ConnFacts' /\ SingleWriter'
    BY <1>1, <2>1, Zenon DEF vars, IInv, OwnerFacts, ConnFacts, SingleWriter
  <2>5. Apart' /\ Account'
    BY <1>1, <2>1, <2>2, <2>3, Zenon DEF vars, IInv, Apart, Account, Owners
  <2> QED BY <2>3, <2>4, <2>5 DEF IInv
<1>2. CASE ExclusiveNext
  <2> USE <1>2 DEF ExclusiveNext
  <2>1. EpipeExclusive'
    OBVIOUS
  <2>2. ASSUME NEW m \in Msg, Thread(m)
        PROVE  IInv'
    BY <2>1, <2>2, FetchAddStep, PushStep, LinkStep, CheckStep, ConnStep, ConnectOkStep,
       ConnectFailStep, ResumeStep, TakeStep, SendOkStep, SendPartialStep, SendFailStep,
       SubStep, SpinStep, EpipeStep, RerouteStep, EpipeSubStep, EpipeSpinStep,
       SetDisconnectStep, Zenon DEF Thread
  <2>3. ASSUME NEW m \in Msg, Refuse(m)
        PROVE  IInv'
    BY <2>1, <2>3, RefuseStep
  <2>4. ASSUME NEW m \in Msg, NEW how \in Modes, Enter(m, how)
        PROVE  IInv'
    BY <2>1, <2>4, EnterStep
  <2> QED BY <2>1, <2>2, <2>3, <2>4, BreakStep, PollWaitStep, HandleEventStep DEF Next
<1> QED BY <1>1, <1>2

\* IInv is an invariant of the behaviours in which epipe is exclusive.
THEOREM Invariance == ExclusiveSpec => []IInv
BY InitInv, StepInv, PTL DEF ExclusiveSpec

\* FrontEnd.cpp:44 and 93, "only one thread gets here": whatever the callers,
\* hand-overs and failures, _msg, _sending_msg, the cursors and the socket have
\* one writer at a time.
THEOREM OneWriter == ExclusiveSpec => []SingleWriter
<1>1. IInv => SingleWriter
  BY DEF IInv
<1> QED BY <1>1, Invariance, PTL

\* The variables of the send path keep their types; in particular the counter
\* _sending_queue_size never goes below zero.
THEOREM TypeCorrect == ExclusiveSpec => []TypeOK
<1>1. IInv => TypeOK
  BY DEF IInv
<1> QED BY <1>1, Invariance, PTL

\* When the worker's role is free, the counter is zero, the queue is empty and
\* every message accepted by a fetch_add was written or handed back by epipe.
THEOREM NoneStranded == ExclusiveSpec => []NothingStranded
<1>1. IInv => NothingStranded
  <2> SUFFICES ASSUME IInv, Owners = {}, isClient \/ "EPIPE" \notin state
               PROVE  size = 0 /\ queue = <<>> /\ Accepted = Left
    BY DEF NothingStranded
  <2>1. HeldMsg = {} /\ HeldSending = {}
    BY DEF Owners, HeldMsg, HeldSending, OwnerPC, Working, Epiping, MsgPC
  <2>2. size = 0 /\ Pushing = {} /\ queue = <<>>
    BY DEF IInv, Account, Stuck
  <2>3. InQueue = {}
    BY <2>2 DEF InQueue, Elems
  <2> QED BY <2>1, <2>2, <2>3 DEF IInv, Account, Stuck
<1> QED BY <1>1, Invariance, PTL

\* The worker and epipe never wait for a message that does not come.
THEOREM NoEndlessSpin == ExclusiveSpec => []SpinEnds
<1>1. IInv => SpinEnds
  <2> SUFFICES ASSUME IInv, NEW o \in Msg, pc[o] \in {"spin", "espin"}, queue = <<>>
               PROVE  Pushing # {}
    BY DEF SpinEnds, Pushing
  <2>1. o \in Owners
    BY DEF Owners, OwnerPC, Working, Epiping
  <2>2. Held(o) = 0 /\ ~Stuck
    BY <2>1 DEF Held, Stuck
  <2>3. size = Cardinality(Pushing) + Len(queue) /\ size > 0
    BY <2>1, <2>2, PushingFinite DEF IInv, Account
  <2>4. Cardinality(Pushing) # 0
    BY <2>3
  <2> QED BY <2>4, FS_EmptySet, Zenon
<1> QED BY <1>1, Invariance, PTL

\* No message leaves the FrontEnd twice.
THEOREM AtMostOnce == ExclusiveSpec => []LeavesOnce
<1>1. IInv => LeavesOnce
  BY DEF IInv, Apart
<1> QED BY <1>1, Invariance, PTL

\* "Message complete": no message is split over two connections.
THEOREM Unsplit == ExclusiveSpec => []MessageComplete
<1>1. IInv => MessageComplete
  BY DEF IInv
<1> QED BY <1>1, Invariance, PTL

-----------------------------------------------------------------------------
(* The order of a caller's messages. *)

\* m and n are messages of one caller, and m is the earlier one.
Earlier(m, n) == m[1] = n[1] /\ m[2] < n[2]

\* The control points of a call before its message is queued or held.
Calling == {"idle", "add", "push", "link"}

\* A caller's next call begins only when the one before it has returned: then
\* its message is in its place, or was refused.
CallsOrdered ==
  /\ \A m, n \in Msg : Earlier(m, n) /\ pc[n] # "idle" => pc[m] \notin Calling
  /\ \A m \in Msg : mode[m] = "async" => pc[m] \notin Calling

\* Along the way of a message, from the queue q through _msg (hm) and
\* _sending_msg (hs) to the messages s that left, no message is ahead of an
\* earlier one of the same caller.
NoOvertaking(q, hm, hs, s) ==
  /\ \A i, j \in DOMAIN q : Earlier(q[i], q[j]) => i < j
  /\ \A m \in Elems(q), n \in hm \cup hs \cup LeftIn(s) : ~Earlier(m, n)
  /\ \A m \in hm, n \in hs \cup LeftIn(s) : ~Earlier(m, n)
  /\ \A m \in hs, n \in LeftIn(s) : ~Earlier(m, n)
  /\ \A i, j \in DOMAIN s : Earlier(s[i].m, s[j].m) => i < j

OrderInv == CallsOrdered /\ NoOvertaking(queue, HeldMsg, HeldSending, out)

\* A message has a caller and the number of its call; Earlier is a strict order.
LEMMA EarlierOrder ==
  ASSUME NEW m \in Msg
  PROVE  /\ m[1] \in Producer /\ m[2] \in Nat /\ ~Earlier(m, m)
         /\ \A n \in Msg : Earlier(m, n) => ~Earlier(n, m) /\ m # n
<1>1. m[1] \in Producer /\ m[2] \in Nat /\ \A n \in Msg : n[2] \in Nat
  BY CallsAssumption DEF Msg
<1> QED BY <1>1 DEF Earlier

\* The positions of a sequence with one more element.
LEMMA OneMore ==
  ASSUME NEW n \in Nat
  PROVE  /\ \A i \in 1 .. n : i < n + 1
         /\ \A i \in 1 .. (n + 1) : i \in 1 .. n \/ i = n + 1
OBVIOUS

LEMMA AppendFacts ==
  ASSUME NEW S, NEW s \in Seq(S), NEW x \in S
  PROVE  /\ Append(s, x)[Len(s) + 1] = x /\ Len(s) \in Nat
         /\ DOMAIN s = 1 .. Len(s) /\ DOMAIN Append(s, x) = 1 .. (Len(s) + 1)
         /\ \A i \in 1 .. Len(s) : Append(s, x)[i] = s[i]
OBVIOUS

\* Places that hold less keep the order.
LEMMA OrderFewer ==
  ASSUME NEW q, NEW hm, NEW hs, NEW s, NoOvertaking(q, hm, hs, s),
         NEW gm \in SUBSET hm, NEW gs \in SUBSET hs
  PROVE  NoOvertaking(q, gm, gs, s)
BY Zenon DEF NoOvertaking

\* A message is queued while nothing of its caller's is later.
LEMMA OrderPush ==
  ASSUME NEW q \in Seq(Msg), NEW hm, NEW hs, NEW s, NoOvertaking(q, hm, hs, s),
         NEW x \in Msg,
         \A n \in Elems(q) \cup hm \cup hs \cup LeftIn(s) : ~Earlier(x, n)
  PROVE  NoOvertaking(Append(q, x), hm, hs, s)
<1> DEFINE t == Append(q, x)
<1>1. /\ t[Len(q) + 1] = x /\ Len(q) \in Nat
      /\ DOMAIN q = 1 .. Len(q) /\ DOMAIN t = 1 .. (Len(q) + 1)
      /\ \A i \in 1 .. Len(q) : t[i] = q[i]
  BY AppendFacts
<1>2. Elems(t) = Elems(q) \cup {x}
  BY AppendElems
<1> HIDE DEF t
<1>3. ASSUME NEW i \in DOMAIN t, NEW j \in DOMAIN t, Earlier(t[i], t[j])
      PROVE  i < j
  <2>1. CASE i \in DOMAIN q /\ j \in DOMAIN q
    <3>1. t[i] = q[i] /\ t[j] = q[j]
      BY <2>1, <1>1, Zenon
    <3> QED BY <2>1, <3>1, <1>3, Zenon DEF NoOvertaking
  <2>2. CASE i = Len(q) + 1 /\ j \in DOMAIN q
    <3>1. t[i] = x /\ t[j] = q[j] /\ q[j] \in Elems(q)
      BY <2>2, <1>1, Zenon DEF Elems
    <3> QED BY <3>1, <1>3
  <2>3. CASE i \in DOMAIN q /\ j = Len(q) + 1
    BY <2>3, <1>1, OneMore, Zenon
  <2>4. CASE i = Len(q) + 1 /\ j = Len(q) + 1
    BY <2>4, <1>1, <1>3, EarlierOrder, Zenon
  <2> QED BY <2>1, <2>2, <2>3, <2>4, <1>1, OneMore, Zenon
<1>4. NoOvertaking(t, hm, hs, s)
  BY <1>2, <1>3, Zenon DEF NoOvertaking
<1> QED BY <1>4 DEF t

\* The oldest message of the queue goes to the empty _msg.
LEMMA OrderPop ==
  ASSUME NEW q \in Seq(Msg), NEW hs, NEW s, NoOvertaking(q, {}, hs, s),
         q # <<>>, Distinct(q)
  PROVE  NoOvertaking(Tail(q), {Head(q)}, hs, s)
<1> DEFINE t == Tail(q)
<1>1. /\ Len(q) \in Nat /\ Len(q) > 0 /\ Head(q) \in Msg /\ Head(q) = q[1]
      /\ DOMAIN q = 1 .. Len(q) /\ DOMAIN t = 1 .. (Len(q) - 1)
      /\ \A i \in 1 .. (Len(q) - 1) : t[i] = q[i + 1]
  OBVIOUS
<1>2. Elems(t) = Elems(q) \ {Head(q)} /\ Head(q) \in Elems(q)
  BY TailElems
<1> HIDE DEF t
<1>3. ASSUME NEW i \in DOMAIN t, NEW j \in DOMAIN t, Earlier(t[i], t[j])
      PROVE  i < j
  <2>1. i + 1 \in DOMAIN q /\ j + 1 \in DOMAIN q /\ Earlier(q[i + 1], q[j + 1])
    BY <1>1, <1>3
  <2>2. i + 1 < j + 1
    BY <2>1 DEF NoOvertaking
  <2> QED BY <2>2, <1>1
<1>4. ASSUME NEW m \in Elems(t), Earlier(m, Head(q))
      PROVE  FALSE
  <2>1. PICK i \in DOMAIN t : t[i] = m
    BY DEF Elems
  <2>2. i + 1 \in DOMAIN q /\ q[i + 1] = m /\ 1 \in DOMAIN q /\ i + 1 > 1
    BY <1>1, <2>1
  <2>3. i + 1 < 1
    BY <1>1, <1>4, <2>2 DEF NoOvertaking
  <2> QED BY <2>2, <2>3, <1>1
<1>5. NoOvertaking(t, {Head(q)}, hs, s)
  BY <1>2, <1>3, <1>4 DEF NoOvertaking
<1> QED BY <1>5 DEF t

\* _msg goes to the empty _sending_msg.
LEMMA OrderMove ==
  ASSUME NEW q, NEW hm, NEW s, NoOvertaking(q, hm, {}, s)
  PROVE  NoOvertaking(q, {}, hm, s)
BY Zenon DEF NoOvertaking

\* The message of _sending_msg leaves.
LEMMA OrderLeave ==
  ASSUME NEW q, NEW hm, NEW s \in Seq(Record), NEW r \in Record, NoOvertaking(q, hm, {r.m}, s)
  PROVE  NoOvertaking(q, hm, {}, Append(s, r))
<1> DEFINE t == Append(s, r)
<1>1. /\ t[Len(s) + 1] = r /\ Len(s) \in Nat
      /\ DOMAIN s = 1 .. Len(s) /\ DOMAIN t = 1 .. (Len(s) + 1)
      /\ \A i \in 1 .. Len(s) : t[i] = s[i]
  BY AppendFacts
<1>2. LeftIn(t) = LeftIn(s) \cup {r.m}
  BY OutAppend, Zenon
<1> HIDE DEF t
<1>3. ASSUME NEW i \in DOMAIN t, NEW j \in DOMAIN t, Earlier(t[i].m, t[j].m)
      PROVE  i < j
  <2>1. CASE i \in DOMAIN s /\ j \in DOMAIN s
    <3>1. t[i] = s[i] /\ t[j] = s[j]
      BY <2>1, <1>1, Zenon
    <3> QED BY <2>1, <3>1, <1>3, Zenon DEF NoOvertaking
  <2>2. CASE i = Len(s) + 1 /\ j \in DOMAIN s
    <3>1. t[i].m = r.m /\ t[j].m = s[j].m /\ s[j].m \in LeftIn(s)
      BY <2>2, <1>1, Zenon DEF LeftIn
    <3> QED BY <3>1, <1>3 DEF NoOvertaking
  <2>3. CASE i \in DOMAIN s /\ j = Len(s) + 1
    BY <2>3, <1>1, OneMore, Zenon
  <2>4. CASE i = Len(s) + 1 /\ j = Len(s) + 1
    <3>1. r.m \in Msg
      BY DEF Record
    <3> QED BY <2>4, <3>1, <1>1, <1>3, EarlierOrder, Zenon
  <2> QED BY <2>1, <2>2, <2>3, <2>4, <1>1, OneMore, Zenon
<1>4. NoOvertaking(q, hm, {}, t)
  BY <1>2, <1>3, Zenon DEF NoOvertaking
<1> QED BY <1>4 DEF t

\* A call that queues its message keeps the order of the calls.
LEMMA CallPushes ==
  ASSUME TypeOK, CallsOrdered, NEW m \in Msg, NEW l \in {"push", "link"},
         pc[m] \in {"add", "push"}, pc' = [pc EXCEPT ![m] = l], mode' = mode
  PROVE  CallsOrdered'
<1>1. pc'[m] = l /\ \A n \in Msg : n # m => pc'[n] = pc[n]
  BY DEF TypeOK
<1> QED BY <1>1 DEF CallsOrdered, Calling

\* So does a call whose message is in its place, whoever goes on with it.
LEMMA CallPlaced ==
  ASSUME TypeOK, CallsOrdered, NEW m \in Msg, NEW l \in PC \ Calling,
         pc[m] # "idle", pc' = [pc EXCEPT ![m] = l],
         \A n \in Msg : n # m => mode'[n] = mode[n]
  PROVE  CallsOrdered'
<1>1. pc'[m] = l /\ \A n \in Msg : n # m => pc'[n] = pc[n]
  BY DEF TypeOK
<1> QED BY <1>1, Zenon DEF CallsOrdered, Calling

\* So does a call that begins, or is refused.
LEMMA CallBegins ==
  ASSUME TypeOK, CallsOrdered, NEW m \in Msg, NEW l \in PC, Ready(m), l # "idle",
         pc' = [pc EXCEPT ![m] = l],
         \A n \in Msg : mode'[n] = "async" => mode[n] = "async"
  PROVE  CallsOrdered'
<1>1. pc'[m] = l /\ pc[m] = "idle" /\ \A n \in Msg : n # m => pc'[n] = pc[n]
  BY DEF TypeOK, Ready
<1>2. ASSUME NEW a \in Msg, Earlier(a, m)
      PROVE  pc[a] \notin Calling /\ a # m
  <2> DEFINE b == <<m[1], m[2] - 1>>
  <2>1. /\ a[1] = m[1] /\ a[2] < m[2] /\ a[2] \in 1 .. Calls /\ m[2] \in 1 .. Calls
        /\ a = <<a[1], a[2]>> /\ m[1] \in Producer
    BY <1>2 DEF Earlier, Msg
  <2>2. b \in Msg /\ m[2] > 1 /\ (a = b \/ Earlier(a, b)) /\ a # m
    BY <2>1, CallsAssumption DEF Earlier, Msg
  <2>3. pc[b] \in {"done", "refused"} \/ mode[b] = "async"
    BY <2>2 DEF Ready
  <2>4. pc[b] \notin Calling
    BY <2>2, <2>3 DEF CallsOrdered, Calling
  <2> HIDE DEF b
  <2> QED BY <2>2, <2>4 DEF CallsOrdered, Calling
<1>3. ASSUME NEW a \in Msg, NEW b \in Msg, Earlier(a, b), pc'[b] # "idle"
      PROVE  pc'[a] \notin Calling
  <2>1. CASE b = m
    BY <2>1, <1>1, <1>2, <1>3, Zenon
  <2>2. CASE b # m
    BY <2>2, <1>1, <1>3 DEF CallsOrdered, Calling
  <2> QED BY <2>1, <2>2
<1>4. ASSUME NEW a \in Msg, mode'[a] = "async"
      PROVE  pc'[a] \notin Calling
  BY <1>1, <1>4 DEF CallsOrdered, Calling
<1> QED BY <1>3, <1>4 DEF CallsOrdered

\* What is queued, held or left was accepted, so nothing of it is later than a
\* message whose call has not placed it yet.
LEMMA NothingLater ==
  ASSUME Apart, CallsOrdered, NEW m \in Msg, pc[m] \in Calling
  PROVE  \A n \in InQueue \cup HeldMsg \cup HeldSending \cup Left : ~Earlier(m, n)
BY Zenon DEF Apart, CallsOrdered, Accepted, Calling

\* A step that queues, pops and writes nothing keeps the order.
LEMMA OrderFrame ==
  ASSUME OrderInv, UNCHANGED <<queue, out>>, CallsOrdered',
         HeldMsg' \subseteq HeldMsg, HeldSending' \subseteq HeldSending
  PROVE  OrderInv'
<1>1. NoOvertaking(queue, HeldMsg', HeldSending', out)
  BY OrderFewer DEF OrderInv
<1> QED BY <1>1 DEF OrderInv

\* Calls that begin, end their push or wait keep the order.
LEMMA OrderCalls ==
  ASSUME IInv, OrderInv, NEW m \in Msg,
         Refuse(m) \/ Link(m) \/ SetDisconnect(m) \/ \E how \in Modes : Enter(m, how)
  PROVE  OrderInv'
<1> USE DEF IInv, OrderInv
<1>1. UNCHANGED <<queue, out>>
  BY Zenon DEF Refuse, Link, SetDisconnect, Enter
<1>2. CallsOrdered'
  <2>1. CASE Refuse(m)
    <3>1. Ready(m) /\ pc' = [pc EXCEPT ![m] = "refused"] /\ mode' = mode /\ "refused" \in PC
      BY <2>1 DEF Refuse, PC
    <3> QED BY <3>1, CallBegins, Zenon
  <2>2. CASE Link(m)
    <3>1. /\ pc[m] = "link" /\ pc' = [pc EXCEPT ![m] = "done"] /\ mode' = mode
          /\ "done" \in PC \ Calling
      BY <2>2 DEF Link, PC, Calling
    <3> QED BY <3>1, CallPlaced, Zenon
  <2>3. CASE SetDisconnect(m)
    <3>1. /\ pc[m] = "setst" /\ pc' = [pc EXCEPT ![m] = "done"] /\ mode' = mode
          /\ "done" \in PC \ Calling
      BY <2>3 DEF SetDisconnect, PC, Calling
    <3> QED BY <3>1, CallPlaced, Zenon
  <2>4. ASSUME NEW how \in Modes, Enter(m, how)
        PROVE  CallsOrdered'
    <3>1. \A n \in Msg : mode'[n] = "async" => mode[n] = "async"
      BY <2>4, Zenon DEF Enter, TypeOK
    <3>2. Ready(m) /\ pc' = [pc EXCEPT ![m] = "add"] /\ "add" \in PC
      BY <2>4 DEF Enter, PC
    <3> QED BY <3>1, <3>2, CallBegins, Zenon
  <2> QED BY <2>1, <2>2, <2>3, <2>4
<1>3. \A n \in Msg : pc'[n] \in OwnerPC => pc'[n] = pc[n]
  BY Zenon DEF Refuse, Link, SetDisconnect, Enter, TypeOK, OwnerPC, Working, Epiping
<1>4. UNCHANGED workVars
  BY Zenon DEF Refuse, Link, SetDisconnect, Enter
<1>5. HeldMsg' \subseteq HeldMsg /\ HeldSending' \subseteq HeldSending
  BY <1>3, <1>4, Zenon DEF HeldMsg, HeldSending, MsgPC, OwnerPC, Working, Epiping
<1> QED BY <1>1, <1>2, <1>5, OrderFrame

\* The connection's events keep the order.
LEMMA OrderEvents ==
  ASSUME OrderInv, Break \/ PollWait \/ HandleEvent \/ UNCHANGED vars
  PROVE  OrderInv'
<1>1. UNCHANGED <<pc, mode, queue, out, workVars>>
  BY DEF Break, PollWait, HandleEvent, vars
<1>2. CallsOrdered' /\ HeldMsg' = HeldMsg /\ HeldSending' = HeldSending
  BY <1>1, Zenon DEF OrderInv, CallsOrdered, HeldMsg, HeldSending
<1> QED BY <1>1, <1>2, OrderFrame

\* The worker goes from one control point to another.
LEMMA OwnerGoesOn ==
  ASSUME IInv, OrderInv, NEW m \in Msg, NEW l \in OwnerPC \cup {"done", "setst"},
         pc[m] \in OwnerPC, pc' = [pc EXCEPT ![m] = l],
         \A n \in Msg : n # m => mode'[n] = mode[n]
  PROVE  /\ CallsOrdered' /\ pc'[m] = l
         /\ \A n \in Msg : n # m => pc'[n] = pc[n] /\ pc[n] \notin OwnerPC /\ pc'[n] \notin OwnerPC
<1>1. l \in PC \ Calling /\ pc[m] # "idle" /\ TypeOK /\ CallsOrdered
  BY DEF PC, OwnerPC, Working, Epiping, Calling, IInv, OrderInv
<1>2. CallsOrdered'
  BY <1>1, CallPlaced, Zenon
<1>3. \A n \in Msg : n # m => pc[n] \notin OwnerPC
  BY DEF IInv, SingleWriter, Owners
<1> QED BY <1>1, <1>2, <1>3 DEF TypeOK

\* The worker's steps that move no message keep the order.
LEMMA OrderOwner ==
  ASSUME IInv, OrderInv, NEW m \in Msg,
         \/ Check(m) \/ Conn(m) \/ ConnectOk(m) \/ SendPartial(m) \/ SendFail(m)
         \/ Sub(m) \/ Epipe(m) \/ EpipeSub(m)
  PROVE  OrderInv'
<1>1. UNCHANGED <<queue, out, msg, more, sending>>
  BY Zenon DEF Check, Conn, ConnectOk, SendPartial, SendFail, Sub, Epipe, EpipeSub
<1> DEFINE Quiet(l) == /\ pc[m] \in OwnerPC /\ pc' = [pc EXCEPT ![m] = l]
                       /\ \A n \in Msg : n # m => mode'[n] = mode[n]
                       /\ l \in MsgPC /\ more => pc[m] \in MsgPC
                       /\ \/ l \in {"send", "epipe", "reroute"}
                          \/ l \in {"conn", "resume"} /\ part' # 0
                          => \/ pc[m] \in {"send", "epipe", "reroute"}
                             \/ pc[m] \in {"conn", "resume"} /\ part # 0
<1>2. \E l \in OwnerPC \cup {"done", "setst"} : Quiet(l)
  <2> USE DEF TypeOK, IInv, OwnerPC, Working, Epiping, MsgPC, Owners, OwnerFacts
  <2>1. CASE Check(m)
    BY <2>1, Zenon DEF Check
  <2>2. CASE Conn(m)
    <3>1. CASE "DISCONNECT" \in state
      <4>1. Quiet("connecting")
        BY <2>2, <3>1, Zenon DEF Conn
      <4> QED BY <4>1, Zenon
    <3>2. CASE "DISCONNECT" \notin state
      <4>1. Quiet("resume")
        BY <2>2, <3>2, Zenon DEF Conn
      <4> QED BY <4>1, Zenon
    <3> QED BY <3>1, <3>2, Zenon
  <2>3. CASE ConnectOk(m)
    <3>1. m \in Owners /\ part = 0
      BY <2>3, Zenon DEF ConnectOk
    <3>2. Quiet("resume")
      BY <2>3, <3>1, Zenon DEF ConnectOk
    <3> QED BY <3>2, Zenon
  <2>4. CASE SendPartial(m)
    BY <2>4, Zenon DEF SendPartial
  <2>5. CASE SendFail(m)
    BY <2>5, Zenon DEF SendFail
  <2>6. CASE Sub(m)
    <3>1. Quiet("done") \/ Quiet("spin")
      BY <2>6, Zenon DEF Sub
    <3> QED BY <3>1, Zenon
  <2>7. CASE Epipe(m)
    BY <2>7, Zenon DEF Epipe
  <2>8. CASE EpipeSub(m)
    <3>1. Quiet("setst") \/ Quiet("espin")
      BY <2>8, Zenon DEF EpipeSub
    <3> QED BY <3>1, Zenon
  <2> QED BY <2>1, <2>2, <2>3, <2>4, <2>5, <2>6, <2>7, <2>8, Zenon
<1>3. PICK l \in OwnerPC \cup {"done", "setst"} : Quiet(l)
  BY <1>2, Zenon
<1>4. /\ CallsOrdered' /\ pc'[m] = l
      /\ \A n \in Msg : n # m => pc'[n] = pc[n] /\ pc[n] \notin OwnerPC /\ pc'[n] \notin OwnerPC
  BY <1>3, OwnerGoesOn, Zenon
<1>5. HeldMsg' \subseteq HeldMsg /\ HeldSending' \subseteq HeldSending
  BY <1>1, <1>3, <1>4, Zenon DEF HeldMsg, HeldSending, MsgPC, OwnerPC, Working, Epiping
<1> QED BY <1>1, <1>4, <1>5, OrderFrame, Zenon

\* The fetch_add keeps the order: a message that finds the counter at zero is
\* alone, and one that does not is not placed yet.
LEMMA OrderFetchAdd ==
  ASSUME IInv, IInv', OrderInv, NEW m \in Msg, FetchAdd(m)
  PROVE  OrderInv'
<1> USE DEF IInv, OrderInv
<1>1. UNCHANGED <<queue, out, mode>> /\ pc[m] = "add" /\ pc[m] \in Calling
  BY Zenon DEF FetchAdd, Calling
<1>2. CallsOrdered'
  <2>1. PICK l \in {"conn", "check", "push"} : pc' = [pc EXCEPT ![m] = l]
    BY DEF FetchAdd
  <2>2. CASE l = "push"
    BY <1>1, <2>1, <2>2, CallPushes, Zenon
  <2>3. CASE l # "push"
    <3>1. l \in PC \ Calling
      BY <2>3 DEF PC, OwnerPC, Working, Calling
    <3> QED BY <1>1, <2>1, <3>1, CallPlaced, Zenon
  <2> QED BY <2>2, <2>3
<1>3. CASE size = 0
  <2>1. Owners = {} /\ queue = <<>>
    BY <1>3 DEF Account, Stuck
  <2>2. HeldMsg' \subseteq {m}
    BY <1>3 DEF HeldMsg, FetchAdd
  <2>3. HeldSending' = {}
    <3>1. pc'[m] \in {"conn", "check"} /\ part' = 0
      BY <1>3, Zenon DEF FetchAdd, TypeOK
    <3>2. \A o \in Msg : o # m => pc'[o] = pc[o] /\ pc[o] \notin OwnerPC
      BY <2>1, Zenon DEF FetchAdd, TypeOK, Owners
    <3>3. ASSUME NEW o \in Msg
          PROVE  /\ pc'[o] \notin {"send", "epipe", "reroute"}
                 /\ ~(pc'[o] \in {"conn", "resume"} /\ part' # 0)
      BY <3>1, <3>2, Zenon DEF OwnerPC, Working, Epiping
    <3> QED BY <3>3, Zenon DEF HeldSending
  <2>4. \A n \in LeftIn(out) : ~Earlier(m, n)
    BY <1>1, NothingLater, OutDefs
  <2>5. NoOvertaking(queue, HeldMsg', {}, out)
    <3>1. DOMAIN queue = {} /\ Elems(queue) = {}
      BY <2>1 DEF Elems
    <3>2. \A i, j \in DOMAIN out : Earlier(out[i].m, out[j].m) => i < j
      BY Zenon DEF NoOvertaking
    <3> QED BY <3>1, <3>2, <2>2, <2>4, Zenon DEF NoOvertaking
  <2> QED BY <1>1, <1>2, <2>3, <2>5
<1>4. CASE size # 0
  <2>1. UNCHANGED workVars /\ pc' = [pc EXCEPT ![m] = "push"]
    BY <1>4, Zenon DEF FetchAdd
  <2>2. HeldMsg' \subseteq HeldMsg /\ HeldSending' \subseteq HeldSending
    BY <2>1, Zenon DEF HeldMsg, HeldSending, MsgPC, TypeOK
  <2> QED BY <1>1, <1>2, <2>2, OrderFrame
<1> QED BY <1>3, <1>4

\* The exchange of _head keeps the order: the caller has nothing later.
LEMMA OrderPushStep ==
  ASSUME IInv, OrderInv, NEW m \in Msg, Push(m)
  PROVE  OrderInv'
<1> USE DEF IInv, OrderInv
<1>1. /\ pc[m] = "push" /\ pc' = [pc EXCEPT ![m] = "link"]
      /\ UNCHANGED <<out, mode, workVars>> /\ queue' = Append(queue, m)
      /\ queue \in Seq(Msg)
  BY DEF Push, TypeOK
<1>2. CallsOrdered'
  BY <1>1, CallPushes, Zenon
<1>3. HeldMsg' = HeldMsg /\ HeldSending' = HeldSending
  BY <1>1 DEF HeldMsg, HeldSending, MsgPC, TypeOK
<1>4. \A n \in Elems(queue) \cup HeldMsg \cup HeldSending \cup LeftIn(out) : ~Earlier(m, n)
  BY <1>1, NothingLater, OutDefs DEF InQueue, Calling
<1>5. NoOvertaking(queue', HeldMsg, HeldSending, out)
  BY <1>1, <1>4, OrderPush
<1> QED BY <1>1, <1>2, <1>3, <1>5

\* The take keeps the order: _msg goes to _sending_msg and the oldest message of
\* the queue follows.
LEMMA OrderTakeMsg ==
  ASSUME IInv, OrderInv, TakeMsg, HeldSending = {}, HeldMsg = {msg}
  PROVE  /\ more' => NoOvertaking(queue', {msg'}, {sending'}, out)
         /\ ~more' => NoOvertaking(queue', {}, {sending'}, out)
<1>1. NoOvertaking(queue, {}, {msg}, out) /\ sending' = msg
  BY OrderMove DEF OrderInv, TakeMsg
<1>2. CASE CanPop
  <2>1. queue # <<>> /\ queue \in Seq(Msg) /\ Distinct(queue)
    BY <1>2 DEF CanPop, IInv, TypeOK, Apart
  <2>2. NoOvertaking(Tail(queue), {Head(queue)}, {msg}, out)
    BY <1>1, <2>1, OrderPop
  <2> QED BY <1>1, <1>2, <2>2, Zenon DEF TakeMsg, PopInto
<1>3. CASE ~CanPop
  BY <1>1, <1>3 DEF TakeMsg
<1> QED BY <1>2, <1>3

\* The worker that takes the next message keeps the order.
LEMMA OrderTake ==
  ASSUME IInv, OrderInv, NEW m \in Msg, Take(m) \/ ConnectFail(m)
  PROVE  OrderInv'
<1> USE DEF IInv
<1>1. /\ pc[m] \in {"take", "connecting"} /\ pc[m] \in OwnerPC /\ TakeMsg
      /\ UNCHANGED <<mode, out>>
  BY DEF Take, ConnectFail, OwnerPC, Working
<1>2. PICK l \in {"send", "epipe"} : pc' = [pc EXCEPT ![m] = l]
  BY DEF Take, ConnectFail
<1>3. l \in OwnerPC
  BY DEF OwnerPC, Working, Epiping
<1>4. /\ CallsOrdered' /\ pc'[m] = l
      /\ \A n \in Msg : n # m => pc'[n] = pc[n] /\ pc[n] \notin OwnerPC /\ pc'[n] \notin OwnerPC
  BY <1>1, <1>2, <1>3, OwnerGoesOn, Zenon
<1>5. more /\ msg \in Msg /\ part = 0
  BY <1>1, Zenon DEF OwnerFacts, Owners, MsgPC
<1>6. HeldMsg = {msg} /\ HeldSending = {}
  BY <1>1, <1>4, <1>5, Zenon DEF HeldMsg, HeldSending, MsgPC, OwnerPC, Working, Epiping
<1>7. /\ more' => NoOvertaking(queue', {msg'}, {sending'}, out)
      /\ ~more' => NoOvertaking(queue', {}, {sending'}, out)
  BY <1>1, <1>6, OrderTakeMsg
<1>8. HeldMsg' \subseteq {msg'} /\ (~more' => HeldMsg' = {}) /\ HeldSending' \subseteq {sending'}
  BY DEF HeldMsg, HeldSending
<1>9. NoOvertaking(queue', HeldMsg', HeldSending', out)
  BY <1>7, <1>8, OrderFewer
<1> QED BY <1>1, <1>4, <1>9 DEF OrderInv

\* A message that is written whole leaves in its turn.
LEMMA OrderSend ==
  ASSUME IInv, OrderInv, NEW m \in Msg, SendOk(m) \/ (Resume(m) /\ part # 0 /\ up = TRUE)
  PROVE  OrderInv'
<1> USE DEF IInv
<1> DEFINE r == Gone(sock)
<1>1. /\ pc[m] \in {"send", "resume"} /\ (pc[m] = "resume" => part # 0)
      /\ out' = Append(out, r) /\ UNCHANGED <<mode, queue, msg, more, sending>>
      /\ pc[m] \in OwnerPC
  BY DEF SendOk, Resume, OwnerPC, Working
<1>2. PICK l \in {"take", "sub"} : pc' = [pc EXCEPT ![m] = l] /\ (l = "take" <=> more)
  BY DEF SendOk, Resume, TypeOK
<1>3. l \in OwnerPC
  BY DEF OwnerPC, Working
<1>4. /\ CallsOrdered' /\ pc'[m] = l
      /\ \A n \in Msg : n # m => pc'[n] = pc[n] /\ pc[n] \notin OwnerPC /\ pc'[n] \notin OwnerPC
  BY <1>1, <1>2, <1>3, OwnerGoesOn, Zenon
<1>5. sending \in Msg
  BY <1>1, Zenon DEF OwnerFacts, Owners
<1>6. r \in Record /\ r.m = sending /\ out \in Seq(Record)
  BY <1>5 DEF Gone, Record, TypeOK
<1> HIDE DEF r
<1>7. HeldSending = {sending} /\ HeldSending' = {}
  BY <1>1, <1>4, <1>5, Zenon DEF HeldSending, OwnerPC, Working, Epiping
<1>8. HeldMsg' \subseteq HeldMsg
  BY <1>1, <1>4, <1>2 DEF HeldMsg, MsgPC, OwnerPC, Working, Epiping
<1>9. NoOvertaking(queue, HeldMsg, {}, out')
  BY <1>1, <1>6, <1>7, OrderLeave DEF OrderInv
<1>10. NoOvertaking(queue, HeldMsg', {}, out')
  BY <1>8, <1>9, OrderFewer
<1> QED BY <1>1, <1>4, <1>7, <1>10, Zenon DEF OrderInv

\* keep_writing goes on without a message half written, or gives up.
LEMMA OrderResume ==
  ASSUME IInv, OrderInv, NEW m \in Msg, Resume(m)
  PROVE  OrderInv'
<1> USE DEF IInv
<1>1. CASE part # 0 /\ up = TRUE
  BY <1>1, OrderSend
<1>2. CASE ~(part # 0 /\ up = TRUE)
  <2>1. /\ UNCHANGED <<queue, out, mode, msg, more, sending>> /\ pc[m] = "resume"
        /\ pc[m] \in OwnerPC
    BY <1>2 DEF Resume, OwnerPC, Working, TypeOK
  <2>2. PICK l \in {"epipe", "take", "sub"} :
          pc' = [pc EXCEPT ![m] = l] /\ (l = "epipe" => part # 0)
    BY <1>2 DEF Resume, TypeOK
  <2>3. l \in OwnerPC
    BY DEF OwnerPC, Working, Epiping
  <2>4. /\ CallsOrdered' /\ pc'[m] = l
        /\ \A n \in Msg : n # m => pc'[n] = pc[n] /\ pc[n] \notin OwnerPC /\ pc'[n] \notin OwnerPC
    BY <2>1, <2>2, <2>3, OwnerGoesOn, Zenon
  <2>5. HeldMsg' \subseteq HeldMsg /\ HeldSending' \subseteq HeldSending
    BY <2>1, <2>2, <2>4 DEF HeldMsg, HeldSending, MsgPC, OwnerPC, Working, Epiping
  <2> QED BY <2>1, <2>4, <2>5, OrderFrame
<1> QED BY <1>1, <1>2, Zenon

\* The wait for a promised message ends with the oldest of the queue in _msg.
LEMMA OrderSpin ==
  ASSUME IInv, OrderInv, NEW m \in Msg, Spin(m)
  PROVE  OrderInv'
<1> USE DEF IInv
<1>1. /\ pc[m] = "spin" /\ pc[m] \in OwnerPC /\ pc' = [pc EXCEPT ![m] = "take"]
      /\ queue' = Tail(queue) /\ msg' = Head(queue) /\ UNCHANGED <<mode, out>>
      /\ queue # <<>> /\ queue \in Seq(Msg) /\ Distinct(queue) /\ "take" \in OwnerPC
  BY Zenon DEF Spin, PopInto, CanPop, OwnerPC, Working, TypeOK, Apart
<1>2. /\ CallsOrdered' /\ pc'[m] = "take"
      /\ \A n \in Msg : n # m => pc'[n] = pc[n] /\ pc[n] \notin OwnerPC /\ pc'[n] \notin OwnerPC
  BY <1>1, OwnerGoesOn, Zenon
<1>3. NoOvertaking(queue, {}, {}, out)
  BY OrderFewer DEF OrderInv
<1>4. NoOvertaking(queue', {msg'}, {}, out)
  BY <1>1, <1>3, OrderPop
<1>5. HeldMsg' \subseteq {msg'} /\ HeldSending' = {}
  BY <1>2, Zenon DEF HeldMsg, HeldSending, OwnerPC, Working, Epiping
<1>6. NoOvertaking(queue', HeldMsg', {}, out)
  BY <1>4, <1>5, OrderFewer
<1> QED BY <1>1, <1>2, <1>5, <1>6 DEF OrderInv

\* A message handed back leaves in its turn.
LEMMA OrderHandBack ==
  ASSUME NEW q, NEW hm, NEW s \in Seq(Record), NEW n \in Msg, NoOvertaking(q, hm, {n}, s)
  PROVE  /\ NoOvertaking(q, hm, {}, Append(s, HandedBack(n)))
         /\ Append(s, HandedBack(n)) \in Seq(Record)
<1>1. HandedBack(n) \in Record /\ HandedBack(n).m = n
  BY DEF HandedBack, Record
<1> QED BY <1>1, OrderLeave, OutAppend, Zenon

\* epipe hands back _sending_msg before _msg, as the caller sent them.
LEMMA OrderReroute ==
  ASSUME IInv, OrderInv, NEW m \in Msg, Reroute(m)
  PROVE  OrderInv'
<1> USE DEF IInv
<1>1. /\ pc[m] = "reroute" /\ pc[m] \in OwnerPC /\ pc' = [pc EXCEPT ![m] = "esub"]
      /\ UNCHANGED <<mode, queue>> /\ "esub" \in OwnerPC /\ out \in Seq(Record)
  BY DEF Reroute, OwnerPC, Epiping, TypeOK
<1>2. /\ CallsOrdered' /\ pc'[m] = "esub"
      /\ \A n \in Msg : n # m => pc'[n] = pc[n] /\ pc[n] \notin OwnerPC /\ pc'[n] \notin OwnerPC
  BY <1>1, OwnerGoesOn, Zenon
<1>3. HeldMsg' = {} /\ HeldSending' = {}
  BY <1>2 DEF HeldMsg, HeldSending, MsgPC, OwnerPC, Working, Epiping
<1>4. sending \in Msg /\ (more => msg \in Msg)
  BY <1>1 DEF OwnerFacts, Owners, MsgPC
<1>5. HeldSending = {sending} /\ (more => HeldMsg = {msg})
  BY <1>1, <1>4 DEF HeldMsg, HeldSending, MsgPC
<1> DEFINE one == Append(out, HandedBack(sending))
<1>6. NoOvertaking(queue, HeldMsg, {}, one) /\ one \in Seq(Record)
  BY <1>1, <1>4, <1>5, OrderHandBack DEF OrderInv
<1>7. NoOvertaking(queue, {}, {}, out')
  <2>1. CASE more
    <3>1. out' = Append(one, HandedBack(msg))
      BY <2>1 DEF Reroute
    <3> HIDE DEF one
    <3>2. NoOvertaking(queue, {}, {msg}, one)
      BY <2>1, <1>5, <1>6, OrderMove, Zenon
    <3> QED BY <3>1, <3>2, <2>1, <1>4, <1>6, OrderHandBack
  <2>2. CASE ~more
    <3>1. out' = one
      BY <2>2 DEF Reroute
    <3> HIDE DEF one
    <3> QED BY <3>1, <1>6, OrderFewer
  <2> QED BY <2>1, <2>2
<1> QED BY <1>1, <1>2, <1>3, <1>7 DEF OrderInv

\* epipe's drain hands back the queue from its oldest message on.
LEMMA OrderEpipeSpin ==
  ASSUME IInv, OrderInv, NEW m \in Msg, EpipeSpin(m)
  PROVE  OrderInv'
<1> USE DEF IInv
<1>1. /\ pc[m] = "espin" /\ pc[m] \in OwnerPC /\ pc' = [pc EXCEPT ![m] = "esub"]
      /\ queue' = Tail(queue) /\ out' = Append(out, HandedBack(Head(queue)))
      /\ mode' = mode /\ queue # <<>> /\ queue \in Seq(Msg) /\ Distinct(queue)
      /\ out \in Seq(Record) /\ "esub" \in OwnerPC
  BY DEF EpipeSpin, CanPop, OwnerPC, Epiping, TypeOK, Apart
<1>2. /\ CallsOrdered' /\ pc'[m] = "esub"
      /\ \A n \in Msg : n # m => pc'[n] = pc[n] /\ pc[n] \notin OwnerPC /\ pc'[n] \notin OwnerPC
  BY <1>1, OwnerGoesOn, Zenon
<1>3. HeldMsg' = {} /\ HeldSending' = {}
  BY <1>2 DEF HeldMsg, HeldSending, MsgPC, OwnerPC, Working, Epiping
<1>4. NoOvertaking(queue, {}, {}, out)
  BY OrderFewer DEF OrderInv
<1>5. NoOvertaking(queue', {Head(queue)}, {}, out) /\ Head(queue) \in Msg
  BY <1>1, <1>4, OrderPop, TailElems
<1>6. NoOvertaking(queue', {}, {Head(queue)}, out)
  BY <1>5, OrderMove
<1>7. NoOvertaking(queue', {}, {}, out')
  BY <1>1, <1>5, <1>6, OrderHandBack
<1> QED BY <1>2, <1>3, <1>7, Zenon DEF OrderInv

\* Every step of the exclusive behaviours keeps the order.
LEMMA StepOrder == IInv /\ IInv' /\ OrderInv /\ [ExclusiveNext]_vars => OrderInv'
<1> SUFFICES ASSUME IInv, IInv', OrderInv, [ExclusiveNext]_vars PROVE OrderInv'
  OBVIOUS
<1>1. ASSUME NEW m \in Msg, Thread(m)
      PROVE  OrderInv'
  <2>1. CASE Link(m) \/ SetDisconnect(m)
    BY <2>1, OrderCalls
  <2>2. CASE \/ Check(m) \/ Conn(m) \/ ConnectOk(m) \/ SendPartial(m) \/ SendFail(m)
             \/ Sub(m) \/ Epipe(m) \/ EpipeSub(m)
    BY <2>2, OrderOwner
  <2>3. CASE FetchAdd(m) \/ Push(m)
    BY <2>3, OrderFetchAdd, OrderPushStep
  <2>4. CASE Take(m) \/ ConnectFail(m)
    BY <2>4, OrderTake
  <2>5. CASE SendOk(m)
    BY <2>5, OrderSend, Zenon
  <2>6. CASE Resume(m) \/ Spin(m) \/ Reroute(m) \/ EpipeSpin(m)
    BY <2>6, OrderResume, OrderSpin, OrderReroute, OrderEpipeSpin
  <2> QED BY <1>1, <2>1, <2>2, <2>3, <2>4, <2>5, <2>6 DEF Thread
<1>2. ASSUME NEW m \in Msg, Refuse(m) \/ \E how \in Modes : Enter(m, how)
      PROVE  OrderInv'
  BY <1>2, OrderCalls
<1> QED BY <1>1, <1>2, OrderEvents DEF ExclusiveNext, Next

\* Messages of one caller leave in the order of the calls, through hand-overs to
\* keep_writing, lost connections and epipe's drain.
THEOREM InOrder == ExclusiveSpec => []SendOrder
<1>1. Init => OrderInv
  <2> SUFFICES ASSUME Init PROVE OrderInv
    OBVIOUS
  <2>1. CallsOrdered
    BY DEF Init, CallsOrdered
  <2>2. HeldMsg = {} /\ HeldSending = {} /\ queue = <<>> /\ out = <<>>
    BY DEF Init, HeldMsg, HeldSending, MsgPC
  <2>3. NoOvertaking(<<>>, {}, {}, <<>>)
    BY DEF NoOvertaking, Elems, LeftIn
  <2> QED BY <2>1, <2>2, <2>3 DEF OrderInv
<1>2. OrderInv => SendOrder
  BY Zenon DEF OrderInv, NoOvertaking, SendOrder, Earlier
<1> QED BY <1>1, <1>2, StepOrder, Invariance, PTL DEF ExclusiveSpec
=============================================================================
