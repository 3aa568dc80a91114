------------------------ MODULE MasterBarrierProofs ------------------------
(***************************************************************************)
(* Proof that MasterClient::barrier is a barrier, for any number of        *)
(* participants and rounds: nobody returns from a round that somebody has  *)
(* not entered, none of its assertions fails, and no wake-up is lost.  The *)
(* lemmas say that the steps which change the room or the door, and the    *)
(* callbacks, keep the invariant of MasterBarrierInv.                      *)
(***************************************************************************)
EXTENDS MasterBarrierInv

USE DEF M!Root

\* The counter is within its bound when somebody is about to generate a child.
LEMMA WithinBound ==
  ASSUME RoundsAssumption, IInv, NEW c \in Client, pc[c] = "gen"
  PROVE  ~Ready /\ Count < Rounds * number
<1>1. ~Ready
  BY DEF IInv, Lead1, Waiters, Through, Doors
<1>2. PICK r \in Nat : Round(r)
  BY DEF IInv
<1>3. entered[c] = r /\ Count = r * number + Cardinality(Present) /\ c \notin Present
  BY <1>1, <1>2 DEF Round, Present, Waiters, Room
<1>4. r < Rounds
  BY <1>3 DEF IInv, Returned, Waiters, Room
<1>5. Present \in SUBSET Client /\ Present # Client
  BY <1>3 DEF Present
<1>6. Cardinality(Present) \in Nat /\ number \in Nat /\ Cardinality(Present) < number
  BY <1>5, Few
<1> QED BY <1>1, <1>3, <1>4, <1>6, TimesLess DEF RoundsAssumption

\* The arrival: a child younger than all others, in a room without a leader.
LEMMA GenStep ==
  ASSUME RoundsAssumption, NamesAssumption, IInv, NEW c \in Client, Gen(c)
  PROVE  IInv'
<1>1. Tree /\ Types /\ Built /\ Lead1 /\ Children /\ Returned /\ Watchful /\ Wakes
  BY DEF IInv
<1>2. /\ Ask(c, "gen", "sub", "aborted") /\ M!master_gen(c, node_path, Base, TRUE)
      /\ UNCHANGED <<watches, woken, left>>
      /\ entered' = [entered EXCEPT ![c] = @ + 1]
      /\ gen' = IF Ok THEN [gen EXCEPT ![c] = CHOOSE k \in reply'.data : TRUE] ELSE gen
  BY Zenon DEF Gen
<1>3. pc[c] = "gen"
  BY <1>2 DEF Ask
<1>4. ~Ready /\ Count < Rounds * number /\ node_path \in DOMAIN node
  BY <1>1, <1>3, WithinBound DEF Built
<1>5. /\ Tree' /\ Ready' = Ready /\ DOMAIN node \subseteq DOMAIN node'
      /\ reply' = [status |-> "OK", data |-> {Count}]
      /\ Count' = Count + 1 /\ Kids' = Kids \cup {Count}
  BY <1>1, <1>2, <1>4, Generates, Zenon
<1>6. Goto(c, "sub") /\ Receive
  BY <1>2, <1>5 DEF Ask, Ok, Goto
<1>7. /\ pc' \in [Client -> Labels] /\ pc'[c] = "sub"
      /\ \A d \in Client : d # c => pc'[d] = pc[d]
  BY <1>1, <1>6, SetPc DEF Waiters, Room, Labels
<1>8. Count \in Nat
  BY <1>1 DEF Tree
<1>9. gen' = [gen EXCEPT ![c] = Count]
  <2>1. Ok /\ reply'.data = {Count}
    BY <1>5 DEF Ok
  <2>2. (CHOOSE k \in reply'.data : TRUE) = Count
    BY <2>1
  <2>3. gen' = [gen EXCEPT ![c] = CHOOSE k \in reply'.data : TRUE]
    BY <1>2, <2>1, Zenon
  <2> QED BY <2>2, <2>3, Zenon
<1>10. /\ gen' \in [Client -> Nat] /\ gen'[c] = Count
       /\ \A d \in Client : d # c => gen'[d] = gen[d]
  BY <1>1, <1>8, <1>9 DEF Types
<1>11. /\ entered' \in [Client -> Nat] /\ entered'[c] = entered[c] + 1
       /\ \A d \in Client : d # c => entered'[d] = entered[d]
  BY <1>1, <1>2 DEF Types
<1>12. Present' = Present \cup {c} /\ c \notin Present /\ c \in Present'
  BY <1>3, <1>7 DEF Present, Waiters, Room
<1>13. /\ inbox' \in [Client -> SUBSET {node_path, ready_path}]
       /\ \A d \in Client : inbox[d] \subseteq inbox'[d]
  BY <1>1, <1>6, Hears
<1>14. Types'
  BY <1>1, <1>2, <1>7, <1>10, <1>11, <1>13 DEF Types
<1>15. Built'
  BY <1>1, <1>4, <1>5, <1>7 DEF Built
<1>16. \A d \in Client : pc[d] \notin Leading /\ pc[d] # "leave"
  BY <1>1, <1>3, <1>4 DEF Lead1, Waiters, Leading
<1>17. \A d \in Client : pc'[d] \notin Leading /\ pc'[d] # "leave"
  BY <1>7, <1>16 DEF Doors, Leading
<1>18. Lead1'
  BY <1>4, <1>5, <1>17 DEF Lead1, Doors, Leading
<1>19. Last(c)'
  BY <1>5, <1>10 DEF Last
<1>20. Children'
  <2>1. \A d \in Present : gen'[d] = gen[d] /\ gen[d] \in Kids /\ gen[d] < Count /\ gen[d] \in Nat
    BY <1>1, <1>10, <1>12 DEF Children, Tree, Types, Present
  <2>2. \A k : k \in Kids' <=> \E d \in Present' : gen'[d] = k
    BY <1>1, <1>5, <1>10, <1>12, <2>1 DEF Children
  <2>3. \A d, e \in Present' : gen'[d] = gen'[e] => d = e
    BY <1>1, <1>8, <1>10, <1>12, <2>1 DEF Children
  <2>4. \A d \in Present' : pc'[d] \notin Leading
    BY <1>17 DEF Present
  <2> QED BY <1>7, <1>12, <1>19, <2>2, <2>3, <2>4 DEF Children
<1>21. (\E r \in Nat : Round(r))'
  <2>1. PICK r \in Nat : Round(r)
    BY DEF IInv
  <2>2. /\ \A d \in Client : entered[d] = IF d \in Present THEN r + 1 ELSE r
        /\ Count = r * number + Cardinality(Present)
    BY <1>4, <2>1 DEF Round
  <2>3. \A d \in Client : entered'[d] = IF d \in Present' THEN r + 1 ELSE r
    BY <1>11, <1>12, <2>2
  <2>4. IsFiniteSet(Present) /\ Cardinality(Present) \in Nat /\ number \in Nat
    BY Few DEF Present
  <2>5. Cardinality(Present') = Cardinality(Present) + 1
    <3>1. Present \in SUBSET Client /\ c \notin Present
      BY <1>3 DEF Present, Waiters, Room
    <3>2. Cardinality(Present \cup {c}) = Cardinality(Present) + 1
      BY <3>1, OneMore
    <3> QED BY <1>12, <3>2, Zenon
  <2>6. r * number \in Nat
    BY <2>4, Times
  <2>7. Count' = r * number + Cardinality(Present')
    BY <1>5, <2>2, <2>4, <2>5, <2>6
  <2>8. Round(r)'
    BY <1>4, <1>5, <2>3, <2>7 DEF Round
  <2> QED BY <2>8
<1>22. Returned'
  BY <1>1, <1>2, <1>3, <1>7, <1>11 DEF Returned, Waiters, Room
<1>23. Watchful'
  BY <1>1, <1>2, <1>3, <1>7 DEF Watchful
<1>24. Wakes'
  <2>1. \A d \in Client : pc'[d] # "alonewait"
    BY <1>17 DEF Doors, Leading
  <2>2. \A d \in Client : Told(d, ready_path) => Told(d, ready_path)'
    BY <1>2, <1>13 DEF Told
  <2> QED BY <1>1, <1>4, <1>5, <1>7, <2>1, <2>2 DEF Wakes
<1> QED BY <1>5, <1>14, <1>15, <1>18, <1>20, <1>21, <1>22, <1>23, <1>24 DEF IInv

\* Who sees a full room and has the greatest child leads; there is no other.
LEMMA SubStep ==
  ASSUME RoundsAssumption, NamesAssumption, IInv, NEW c \in Client, Sub(c)
  PROVE  IInv'
<1>1. Tree /\ Types /\ Built /\ Lead1 /\ Children /\ Returned /\ Watchful /\ Wakes
  BY DEF IInv
<1>2. /\ pc[c] = "sub" /\ Receive /\ M!master_sub(c, node_path)
      /\ Goto(c, IF reply'.status # "OK" THEN "aborted"
                 ELSE IF Cardinality(reply'.data) = number /\ gen[c] = Max(reply'.data)
                 THEN "lead" ELSE "follow")
      /\ woken' = woken \ {c} /\ UNCHANGED <<gen, watches, entered, left>>
  BY DEF Sub, Ok
<1>3. node_path \in DOMAIN node /\ c \in Present
  BY <1>1, <1>2 DEF Built, Present, Waiters, Room
<1>4. /\ reply'.status = "OK" /\ reply'.data = Kids
      /\ UNCHANGED <<node, genId, conn, watchers, up>>
  BY <1>2, <1>3, Subs
<1>5. Tree' /\ Kids' = Kids /\ Count' = Count /\ Ready' = Ready
  BY <1>1, <1>4, TreeSame
<1>6. Cardinality(Kids) = number <=> Present = Client
  BY <1>1, KidsCount
<1>7. Present = Client => (gen[c] = Max(Kids) <=> Last(c))
  <2> SUFFICES ASSUME Present = Client PROVE gen[c] = Max(Kids) <=> Last(c)
    OBVIOUS
  <2>1. \E d \in Present : Last(d)
    <3>1. CASE Ready
      <4>1. PICK d \in Client : pc[d] \in Doors
        BY <1>1, <3>1 DEF Lead1
      <4> QED BY <1>1, <4>1 DEF Children, Leading
    <3>2. CASE ~Ready
      BY <1>1, <1>3, <3>2 DEF Children
    <3> QED BY <3>1, <3>2
  <2> QED BY <1>1, <1>3, <2>1, MaxIsLast
<1>8. \A d \in Client : Last(d)' <=> Last(d)
  BY <1>2, <1>5 DEF Last
<1>9. Present = Client /\ Last(c) =>
        ~Ready /\ \A d \in Client : pc[d] \in Waiters
  <2> SUFFICES ASSUME Present = Client, Last(c) PROVE ~Ready /\ \A d \in Client : pc[d] \in Waiters
    OBVIOUS
  <2>1. ASSUME NEW d \in Client PROVE pc[d] \notin Leading
    <3>1. SUFFICES ASSUME pc[d] \in Leading PROVE FALSE
      OBVIOUS
    <3>2. Last(d) /\ d \in Present
      BY <1>1, <3>1 DEF Children
    <3>3. gen[c] = gen[d]
      <4>1. gen[c] \in Nat /\ gen[d] \in Nat /\ gen[c] + 1 = Count /\ gen[d] + 1 = Count
        BY <1>1, <3>2 DEF Last, Types
      <4> QED BY <4>1
    <3>4. c = d
      BY <1>1, <1>3, <3>2, <3>3 DEF Children
    <3> QED BY <1>2, <3>1, <3>4 DEF Doors, Leading
  <2>2. ~Ready
    BY <1>1, <2>1 DEF Lead1, Leading
  <2>3. \A d \in Client : pc[d] \in Room /\ pc[d] # "leave"
    BY <1>1, <2>2 DEF Lead1, Present
  <2> QED BY <2>1, <2>2, <2>3 DEF Room, Doors, Leading
<1>10. /\ inbox' \in [Client -> SUBSET {node_path, ready_path}]
       /\ \A d \in Client : inbox[d] \subseteq inbox'[d]
  BY <1>1, <1>2, Hears
<1>11. ASSUME NEW s \in {"lead", "follow"}, Goto(c, s), s = "lead" <=> Present = Client /\ Last(c)
       PROVE  IInv'
  <2>1. /\ pc' \in [Client -> Labels] /\ pc'[c] = s
        /\ \A d \in Client : d # c => pc'[d] = pc[d]
    BY <1>1, <1>11, SetPc DEF Waiters, Room, Labels
  <2>2. Present' = Present
    BY <1>2, <2>1 DEF Present, Waiters, Room
  <2>3. Types'
    BY <1>1, <1>2, <1>10, <2>1 DEF Types
  <2>4. Built'
    BY <1>1, <1>3, <1>4, <2>1 DEF Built
  <2>5. Lead1'
    <3>1. CASE s = "lead"
      <4>1. ~Ready /\ \A d \in Client : pc[d] \in Waiters
        BY <1>9, <1>11, <3>1
      <4>2. \A d \in Client : d # c => pc'[d] \in Waiters
        BY <2>1, <4>1
      <4> QED BY <1>5, <2>1, <3>1, <4>1, <4>2 DEF Lead1, Waiters, Doors, Leading
    <3>2. CASE s = "follow"
      <4>1. \A d \in Client : /\ pc'[d] \in Doors <=> pc[d] \in Doors
                              /\ pc'[d] \in Leading <=> pc[d] \in Leading
                              /\ pc'[d] \in {"lead", "open"} <=> pc[d] \in {"lead", "open"}
                              /\ pc'[d] \in {"delete", "close"} <=> pc[d] \in {"delete", "close"}
                              /\ pc'[d] \in Waiters <=> pc[d] \in Waiters
                              /\ pc'[d] \in Through <=> pc[d] \in Through
                              /\ pc'[d] = "leave" <=> pc[d] = "leave"
        BY <1>2, <2>1, <3>2 DEF Waiters, Through, Doors, Leading
      <4> QED BY <1>1, <1>5, <4>1 DEF Lead1
    <3> QED BY <3>1, <3>2
  <2>6. Children'
    <3>1. \A d \in Present' : pc'[d] \in Leading => Last(d)'
      BY <1>1, <1>8, <1>11, <2>1, <2>2 DEF Children, Present, Doors, Leading
    <3>2. ASSUME Client # {}, \A d \in Client : pc'[d] \in Waiters, ~Ready'
          PROVE  \E d \in Client : pc'[d] = "sub" /\ Last(d)'
      <4>1. \A d \in Client : pc[d] \in Waiters
        BY <1>2, <2>1, <3>2 DEF Waiters
      <4>2. PICK d \in Client : pc[d] = "sub" /\ Last(d)
        BY <1>1, <1>5, <3>2, <4>1 DEF Children
      <4>3. Present = Client
        BY <4>1 DEF Present, Room
      <4>4. d # c
        BY <1>11, <2>1, <3>2, <4>2, <4>3 DEF Waiters
      <4> QED BY <1>8, <2>1, <4>2, <4>4
    <3>3. ~Ready' /\ Present' # {} => \E d \in Present' : Last(d)'
      BY <1>1, <1>5, <1>8, <2>2 DEF Children, Present
    <3> QED BY <1>1, <1>2, <1>5, <2>2, <3>1, <3>2, <3>3 DEF Children
  <2>7. (\E r \in Nat : Round(r))'
    BY <1>2, <1>5, <2>2 DEF IInv, Round
  <2>8. Returned'
    BY <1>1, <1>2, <2>1 DEF Returned, Waiters, Room
  <2>9. Watchful'
    BY <1>1, <1>2, <2>1 DEF Watchful
  <2>10. Wakes'
    BY <1>2, <1>5, <1>10, <2>1, <2>2, WakesStay
  <2> QED BY <1>5, <2>3, <2>4, <2>5, <2>6, <2>7, <2>8, <2>9, <2>10 DEF IInv
<1>12. CASE Present = Client /\ Last(c)
  <2>1. Goto(c, "lead")
    BY <1>2, <1>4, <1>6, <1>7, <1>12
  <2> QED BY <1>11, <1>12, <2>1
<1>13. CASE ~(Present = Client /\ Last(c))
  <2>1. Goto(c, "follow")
    BY <1>2, <1>4, <1>6, <1>7, <1>13
  <2> QED BY <1>11, <1>13, <2>1
<1> QED BY <1>12, <1>13

\* The leader opens the door of a full room, and wakes everybody.
LEMMA OpenStep ==
  ASSUME RoundsAssumption, NamesAssumption, IInv, NEW c \in Client, Open(c)
  PROVE  IInv'
<1>1. Tree /\ Types /\ Built /\ Lead1 /\ Children /\ Returned /\ Watchful /\ Wakes
  BY DEF IInv
<1>2. /\ Ask(c, "open", "alone", "aborted") /\ M!master_add(c, ready_path, Base, TRUE)
      /\ woken' = woken \ {c} /\ UNCHANGED <<gen, watches, entered, left>>
  BY Zenon DEF Open
<1>3. pc[c] = "open" /\ Receive
  BY <1>2 DEF Ask
<1>4. \A d \in Client : d # c => pc[d] \in Waiters
  BY <1>1, <1>3 DEF Lead1
<1>5. ~Ready /\ node_path \in DOMAIN node /\ base_path \in DOMAIN node
  BY <1>1, <1>3, <1>4 DEF Lead1, Built, Tree, Waiters, Room, Doors
<1>6. /\ Tree' /\ Kids' = Kids /\ Count' = Count /\ Ready' /\ reply'.status = "OK"
      /\ DOMAIN node \subseteq DOMAIN node'
      /\ \A d \in Client : ready_path \in sent'[d]
  BY <1>1, <1>2, <1>5, AddsReady, Zenon
<1>7. Goto(c, "alone")
  BY <1>2, <1>6 DEF Ask, Ok, Goto
<1>8. /\ pc' \in [Client -> Labels] /\ pc'[c] = "alone"
      /\ \A d \in Client : d # c => pc'[d] = pc[d]
  BY <1>1, <1>7, SetPc DEF Room, Labels
<1>9. Present = Client /\ Present' = Client
  BY <1>3, <1>4, <1>8 DEF Present, Room
<1>10. /\ inbox' \in [Client -> SUBSET {node_path, ready_path}]
       /\ \A d \in Client : inbox[d] \subseteq inbox'[d]
       /\ \A d \in Client : ready_path \in inbox'[d]
  BY <1>1, <1>3, <1>6, Hears, Paths
<1>11. Types'
  BY <1>1, <1>2, <1>8, <1>10 DEF Types
<1>12. Built'
  BY <1>1, <1>3, <1>6, <1>8 DEF Built, Room
<1>13. Lead1'
  BY <1>4, <1>6, <1>8 DEF Lead1, Waiters, Doors, Leading
<1>14. Children'
  <2>1. \A d : Last(d)' <=> Last(d)
    BY <1>2, <1>6 DEF Last
  <2>2. \A d \in Present' : pc'[d] \in Leading => Last(d)'
    BY <1>1, <1>3, <1>4, <1>8, <1>9, <2>1 DEF Children, Leading
  <2> QED BY <1>1, <1>2, <1>6, <1>9, <2>2 DEF Children
<1>15. (\E r \in Nat : Round(r))'
  <2>1. PICK r \in Nat : Round(r)
    BY DEF IInv
  <2>2. Cardinality(Present) = number /\ number \in Nat
    BY <1>9, Few DEF number
  <2>3. (r + 1) * number = r * number + number
    BY <2>2, Times
  <2>4. Round(r)'
    BY <1>2, <1>5, <1>6, <1>9, <2>1, <2>2, <2>3 DEF Round
  <2> QED BY <2>4
<1>16. Returned'
  BY <1>1, <1>2, <1>3, <1>8 DEF Returned, Room
<1>17. Watchful'
  BY <1>1, <1>2, <1>3, <1>8 DEF Watchful
<1>18. Wakes'
  <2>1. \A d \in Client : pc'[d] # "alonewait"
    BY <1>4, <1>8 DEF Waiters
  <2> QED BY <1>6, <1>10, <2>1 DEF Wakes, Told
<1> QED BY <1>6, <1>11, <1>12, <1>13, <1>14, <1>15, <1>16, <1>17, <1>18 DEF IInv

\* A participant's child goes while the door is open: a follower's, or at last
\* the leader's.  Whoever waits to be alone hears of it.
LEMMA ChildGoes ==
  ASSUME NamesAssumption, IInv, NEW c \in Client, NEW s \in {"close", "return"},
         <<pc[c], s>> \in {<<"delete", "close">>, <<"leave", "return">>},
         Goto(c, IF Ok THEN s ELSE "aborted"), Receive,
         M!master_del(c, Append(node_path, gen[c])), UNCHANGED <<gen, woken, entered, left>>
  PROVE  /\ Tree' /\ Built' /\ Lead1' /\ Children' /\ (\E r \in Nat : Round(r))' /\ Returned'
         /\ Wakes' /\ pc' \in [Client -> Labels] /\ pc'[c] = s
         /\ inbox' \in [Client -> SUBSET {node_path, ready_path}]
         /\ \A d \in Client : d # c => pc'[d] = pc[d]
<1>1. Tree /\ Types /\ Built /\ Lead1 /\ Children /\ Returned /\ Watchful /\ Wakes
  BY DEF IInv
<1>2. /\ pc[c] \in {"delete", "leave"} /\ pc[c] = "delete" <=> s = "close"
      /\ s \in Labels
  BY DEF Through, Labels
<1>3. c \in Present /\ Ready /\ gen[c] \in Kids
  BY <1>1, <1>2 DEF Present, Lead1, Children, Room, Doors
<1>4. M!master_del(c, Kid(gen[c]))
  BY DEF Kid
<1>5. /\ Tree' /\ Count' = Count /\ Ready' = Ready /\ reply'.status = "OK"
      /\ Kids' = Kids \ {gen[c]} /\ DOMAIN node' = DOMAIN node \ {Kid(gen[c])}
      /\ \A d \in Client : Kid(gen[c]) \in sent'[d]
  BY <1>1, <1>3, <1>4, Deletes, Zenon
<1>6. Goto(c, s)
  BY <1>5 DEF Ok
<1>7. /\ pc' \in [Client -> Labels] /\ pc'[c] = s
      /\ \A d \in Client : d # c => pc'[d] = pc[d]
  BY <1>1, <1>2, <1>6, SetPc
<1>8. Present' = Present \ {c}
  BY <1>2, <1>7 DEF Present, Waiters, Room
<1>9. /\ inbox' \in [Client -> SUBSET {node_path, ready_path}]
      /\ \A d \in Client : inbox[d] \subseteq inbox'[d]
      /\ \A d \in Client : node_path \in inbox'[d]
  <2>1. Prefix(node_path, Kid(gen[c]))
    BY KidPaths
  <2> QED BY <1>1, <1>5, <2>1, Hears
<1>10. Built'
  <2>1. base_path # Kid(gen[c]) /\ node_path # Kid(gen[c])
    BY KidPaths
  <2> QED BY <1>1, <1>2, <1>5, <1>7, <2>1 DEF Built, Room
<1>11. Lead1'
  <2>1. PICK l \in Client : pc[l] \in Doors
    BY <1>1, <1>3 DEF Lead1
  <2>2. pc'[l] \in Doors /\ Ready'
    BY <1>1, <1>2, <1>3, <1>5, <1>7, <2>1 DEF Lead1, Doors
  <2>3. \A d \in Client : pc'[d] \in Leading => pc[d] \in Leading
    BY <1>2, <1>7 DEF Doors, Leading
  <2>4. \A d \in Client : pc'[d] \in Leading => d = l
    BY <1>1, <2>1, <2>3 DEF Lead1, Leading
  <2>5. \A d \in Client : d # l => pc'[d] \in Waiters \cup {"leave"} \cup Through
    BY <1>1, <1>2, <1>7, <2>1 DEF Lead1, Waiters, Through
  <2>6. pc'[l] \in {"delete", "close"} => \A d \in Client : d # l => pc'[d] \in Through
    BY <1>1, <1>2, <1>7, <2>1 DEF Lead1, Through
  <2> QED BY <2>2, <2>4, <2>5, <2>6 DEF Lead1, Doors, Leading
<1>12. Children'
  <2>1. \A d : Last(d)' <=> Last(d)
    BY <1>5 DEF Last
  <2>2. \A k : k \in Kids' <=> \E d \in Present' : gen'[d] = k
    BY <1>1, <1>3, <1>5, <1>8 DEF Children
  <2>3. \A d \in Present' : pc'[d] = pc[d] /\ d \in Present
    BY <1>7, <1>8 DEF Present
  <2> QED BY <1>1, <1>3, <1>5, <2>1, <2>2, <2>3, Zenon DEF Children
<1>13. (\E r \in Nat : Round(r))'
  BY <1>3, <1>5 DEF IInv, Round
<1>14. Returned'
  BY <1>1, <1>2, <1>7 DEF Returned, Room
<1>15. Wakes'
  <2>1. \A d \in Client : pc'[d] = "followwait" => pc[d] = "followwait"
    BY <1>7
  <2>2. \A d \in Client : Told(d, ready_path) => Told(d, ready_path)'
    BY <1>9 DEF Told
  <2>3. \A d \in Client : Told(d, node_path)'
    BY <1>9 DEF Told
  <2> QED BY <1>1, <1>3, <1>5, <2>1, <2>2, <2>3 DEF Wakes
<1> QED BY <1>5, <1>7, <1>9, <1>10, <1>11, <1>12, <1>13, <1>14, <1>15

\* The leader, alone in the room, takes its child out of it.
LEMMA DeleteOwnStep ==
  ASSUME NamesAssumption, IInv, NEW c \in Client, DeleteOwn(c)
  PROVE  IInv'
<1>1. /\ pc[c] = "delete" /\ Receive /\ M!master_del(c, Append(node_path, gen[c]))
      /\ Goto(c, IF Ok THEN "close" ELSE "aborted")
      /\ watches' = [watches EXCEPT ![c] = @ \ {node_path}]
      /\ UNCHANGED <<gen, woken, entered, left>>
  BY DEF DeleteOwn, Ask
<1>2. /\ Tree' /\ Built' /\ Lead1' /\ Children' /\ (\E r \in Nat : Round(r))' /\ Returned'
      /\ Wakes' /\ pc' \in [Client -> Labels] /\ pc'[c] = "close"
      /\ inbox' \in [Client -> SUBSET {node_path, ready_path}]
      /\ \A d \in Client : d # c => pc'[d] = pc[d]
  BY <1>1, ChildGoes
<1>3. Types /\ Watchful
  BY DEF IInv
<1>4. /\ watches' \in [Client -> SUBSET {node_path, ready_path}]
      /\ watches'[c] = watches[c] \ {node_path}
      /\ \A d \in Client : d # c => watches'[d] = watches[d]
  BY <1>1, <1>3 DEF Types
<1>5. Types'
  BY <1>1, <1>2, <1>3, <1>4 DEF Types
<1>6. Watchful'
  <2>1. ready_path \in watches[c] /\ ready_path # node_path
    BY <1>1, <1>3, Paths DEF Watchful
  <2> QED BY <1>2, <1>3, <1>4, <2>1 DEF Watchful
<1> QED BY <1>2, <1>5, <1>6 DEF IInv

\* A follower takes its child out of the room.
LEMMA LeaveStep ==
  ASSUME NamesAssumption, IInv, NEW c \in Client, Leave(c)
  PROVE  IInv'
<1>1. /\ pc[c] = "leave" /\ Receive /\ M!master_del(c, Append(node_path, gen[c]))
      /\ Goto(c, IF Ok THEN "return" ELSE "aborted")
      /\ UNCHANGED <<gen, watches, woken, entered, left>>
  BY DEF Leave, Ask, local
<1>2. /\ Tree' /\ Built' /\ Lead1' /\ Children' /\ (\E r \in Nat : Round(r))' /\ Returned'
      /\ Wakes' /\ pc' \in [Client -> Labels] /\ pc'[c] = "return"
      /\ inbox' \in [Client -> SUBSET {node_path, ready_path}]
      /\ \A d \in Client : d # c => pc'[d] = pc[d]
  BY <1>1, ChildGoes
<1>3. Types /\ Watchful
  BY DEF IInv
<1>4. Types'
  BY <1>1, <1>2, <1>3 DEF Types
<1>5. Watchful'
  BY <1>1, <1>2, <1>3 DEF Watchful
<1> QED BY <1>2, <1>4, <1>5 DEF IInv

\* The leader closes the door behind an empty room: the round is over.
LEMMA CloseStep ==
  ASSUME RoundsAssumption, NamesAssumption, IInv, NEW c \in Client, Close(c)
  PROVE  IInv'
<1>1. Tree /\ Types /\ Built /\ Lead1 /\ Children /\ Returned /\ Watchful /\ Wakes
  BY DEF IInv
<1>2. /\ pc[c] = "close" /\ Receive /\ M!master_del(c, ready_path)
      /\ Goto(c, IF Ok THEN "return" ELSE "aborted")
      /\ UNCHANGED <<gen, watches, woken, entered, left>>
  BY DEF Close, Ask, local
<1>3. Ready /\ \A d \in Client : d # c => pc[d] \in Through
  BY <1>1, <1>2 DEF Lead1, Doors
<1>4. /\ Tree' /\ Count' = Count /\ ~Ready' /\ reply'.status = "OK"
      /\ Kids' = Kids /\ DOMAIN node' = DOMAIN node \ {ready_path}
      /\ \A d \in Client : ready_path \in sent'[d]
  BY <1>1, <1>2, <1>3, DeletesReady
<1>5. Goto(c, "return")
  BY <1>2, <1>4 DEF Ok
<1>6. /\ pc' \in [Client -> Labels] /\ pc'[c] = "return"
      /\ \A d \in Client : d # c => pc'[d] = pc[d]
  BY <1>1, <1>5, SetPc DEF Through, Labels
<1>7. \A d \in Client : pc'[d] \in Through
  BY <1>3, <1>6 DEF Through
<1>8. Present = {} /\ Present' = {}
  BY <1>2, <1>3, <1>7 DEF Present, Waiters, Room, Through
<1>9. /\ inbox' \in [Client -> SUBSET {node_path, ready_path}]
      /\ \A d \in Client : ready_path \in inbox'[d]
  BY <1>1, <1>2, <1>4, Hears, Paths
<1>10. Types'
  BY <1>1, <1>2, <1>6, <1>9 DEF Types
<1>11. Built'
  <2>1. \A d \in Client : pc'[d] # "node" /\ pc'[d] \notin Room \cup {"gen", "close"}
    BY <1>7 DEF Waiters, Room, Through
  <2> QED BY <2>1, Zenon DEF Built
<1>12. Lead1'
  <2>1. \A d \in Client : /\ pc'[d] \notin Doors /\ pc'[d] \notin Leading /\ pc'[d] # "leave"
                          /\ pc'[d] \notin {"lead", "open"} /\ pc'[d] \notin {"delete", "close"}
    BY <1>7 DEF Through, Doors, Leading
  <2> QED BY <1>4, <2>1, Zenon DEF Lead1
<1>13. Children'
  BY <1>1, <1>4, <1>6, <1>8, Zenon DEF Children, Waiters
<1>14. (\E r \in Nat : Round(r))'
  <2>1. PICK r \in Nat : Round(r)
    BY DEF IInv
  <2>2. Count = (r + 1) * number /\ \A d \in Client : entered[d] = r + 1
    BY <1>3, <2>1 DEF Round
  <2>3. Cardinality(Present') = 0
    BY <1>8, FS_EmptySet
  <2>4. number \in Nat /\ (r + 1) * number \in Nat
    BY Few, Times
  <2>5. Count' = (r + 1) * number + Cardinality(Present')
    BY <1>4, <2>2, <2>3, <2>4
  <2>6. Round(r + 1)'
    BY <1>2, <1>4, <1>8, <2>2, <2>5, Zenon DEF Round
  <2> QED BY <2>6
<1>15. Returned'
  BY <1>1, <1>2, <1>6 DEF Returned
<1>16. Watchful'
  BY <1>1, <1>2, <1>6 DEF Watchful
<1>17. Wakes'
  BY <1>7, <1>9 DEF Wakes, Told, Through
<1> QED BY <1>4, <1>10, <1>11, <1>12, <1>13, <1>14, <1>15, <1>16, <1>17 DEF IInv

\* A callback passes on what the master has sent.
LEMMA CallbackStep ==
  ASSUME IInv, NEW c \in Client, Callback(c)
  PROVE  IInv'
<1>1. Tree /\ Types /\ Built /\ Lead1 /\ Children /\ Returned /\ Watchful /\ Wakes
  BY DEF IInv
<1>2. UNCHANGED <<node, genId, conn, watchers, up, pc, gen, watches, entered, left>>
  BY DEF Callback, Quiet
<1>3. PICK w \in inbox[c] :
        /\ inbox' = [inbox EXCEPT ![c] = @ \ {w}]
        /\ woken' = IF w \in watches[c] THEN woken \cup {c} ELSE woken
  BY Zenon DEF Callback
<1>4. Tree' /\ Kids' = Kids /\ Count' = Count /\ Ready' = Ready
  BY <1>1, <1>2, TreeSame
<1>5. /\ inbox' \in [Client -> SUBSET {node_path, ready_path}] /\ inbox'[c] = inbox[c] \ {w}
      /\ \A d \in Client : d # c => inbox'[d] = inbox[d]
  BY <1>1, <1>3 DEF Types
<1>6. woken \subseteq woken' /\ woken' \subseteq Client /\ (w \in watches[c] => c \in woken')
  BY <1>1, <1>3 DEF Types
<1>7. Types'
  BY <1>1, <1>2, <1>5, <1>6 DEF Types
<1>8. Present' = Present
  BY <1>2 DEF Present
<1>9. Built' /\ Returned' /\ Watchful'
  BY <1>1, <1>2 DEF Built, Returned, Watchful
<1>10. Lead1'
  BY <1>1, <1>2, <1>4 DEF Lead1
<1>11. Children'
  BY <1>1, <1>2, <1>4, <1>8 DEF Children, Last
<1>12. (\E r \in Nat : Round(r))'
  BY <1>2, <1>4, <1>8 DEF IInv, Round
<1>13. \A d \in Client : \A v : v \in watches[d] /\ Told(d, v) => Told(d, v)'
  BY <1>5, <1>6 DEF Told
<1>14. Wakes'
  <2>1. \A d \in Client : pc[d] \in {"freshwait", "followwait"} => ready_path \in watches[d]
    BY <1>1 DEF Watchful
  <2>2. \A d \in Client : pc[d] = "alonewait" => node_path \in watches[d]
    BY <1>1 DEF Watchful
  <2> QED BY <1>1, <1>2, <1>4, <1>8, <1>13, <2>1, <2>2 DEF Wakes
<1> QED BY <1>4, <1>7, <1>9, <1>10, <1>11, <1>12, <1>14 DEF IInv
-----------------------------------------------------------------------------
\* Before the first call there is no room, and the counter is zero.
LEMMA InitInv ==
  ASSUME RoundsAssumption, NamesAssumption, Init
  PROVE  IInv
<1>1. DOMAIN node = {<<>>} /\ node[<<>>] = [owner |-> NoOwner, value |-> Base, sub |-> {}]
  BY DEF Init
<1>2. \A k \in Index : Kid(k) \notin DOMAIN node
  BY <1>1, KidPaths
<1>3. base_path \notin DOMAIN node /\ node_path \notin DOMAIN node /\ ~Ready /\ Kids = {}
  BY <1>1, Paths DEF Ready, Kids
<1>4. Count = 0 /\ DOMAIN genId = {}
  BY DEF Init, Count, M!Counter
<1>5. Tree
  <2>1. node[<<>>] \in NodeRec /\ node[<<>>].owner = NoOwner
    BY <1>1 DEF NodeRec
  <2> QED BY <1>1, <1>2, <1>3, <1>4, <2>1, Zenon DEF Tree, Init
<1>6. \A c \in Client : pc[c] = "idle" /\ entered[c] = 0 /\ left[c] = 0
  BY DEF Init
<1>7. Types
  BY DEF Init, Types, Through, Labels
<1>8. Present = {}
  BY <1>6 DEF Present, Waiters, Room
<1>9. Built /\ Lead1 /\ Watchful /\ Wakes
  BY <1>3, <1>6 DEF Built, Lead1, Watchful, Wakes, Waiters, Room, Doors, Leading
<1>10. Children
  BY <1>3, <1>6, <1>8 DEF Children, Waiters
<1>11. Round(0)
  <2>1. Cardinality(Present) = 0 /\ number \in Nat /\ 0 * number = 0
    BY <1>8, FS_EmptySet, Few, Times
  <2> QED BY <1>3, <1>4, <1>6, <1>8, <2>1 DEF Round
<1>12. Returned
  BY <1>6 DEF Returned, RoundsAssumption, Waiters, Room
<1> QED BY <1>5, <1>7, <1>9, <1>10, <1>11, <1>12 DEF IInv

\* Every step of a participant, and every callback, keeps the invariant.
LEMMA StepInv ==
  ASSUME RoundsAssumption, NamesAssumption, IInv, [Next]_vars
  PROVE  IInv'
<1>1. CASE UNCHANGED vars
  <2>1. UNCHANGED <<node, genId, conn, watchers, up, inbox, pc, gen, watches, woken, entered, left>>
    BY <1>1 DEF vars, master, local
  <2>2. Tree' /\ Kids' = Kids /\ Count' = Count /\ Ready' = Ready
    BY <2>1, TreeSame DEF IInv
  <2>3. Present' = Present /\ \A c : Last(c)' <=> Last(c)
    BY <2>1, <2>2 DEF Present, Last
  <2>4. Types' /\ Built' /\ Returned' /\ Watchful'
    BY <2>1 DEF IInv, Types, Built, Returned, Watchful
  <2>5. Lead1' /\ Wakes'
    BY <2>1, <2>2, <2>3 DEF IInv, Lead1, Wakes, Told
  <2>6. Children' /\ (\E r \in Nat : Round(r))'
    BY <2>1, <2>2, <2>3 DEF IInv, Children, Round
  <2> QED BY <2>2, <2>4, <2>5, <2>6 DEF IInv
<1>2. CASE Next
  <2>1. PICK c \in Client : Step(c) \/ Callback(c)
    BY <1>2 DEF Next
  <2> QED
    BY <2>1, EnterStep, FreshStep, AddBaseStep, AddNodeStep, GenStep, SubStep, LeadStep, OpenStep,
       AloneStep, FollowStep, WakeStep, DeleteOwnStep, CloseStep, LeaveStep, ReturnStep,
       CallbackStep, Zenon DEF Step
<1> QED BY <1>1, <1>2

\* Room, door, counter and rounds belong together in every state of the barrier,
\* for any number of participants and rounds.
THEOREM RoundsKept == Spec => []IInv
<1>1. Init => IInv
  BY RoundsAssumption, NamesAssumption, InitInv
<1>2. IInv /\ [Next]_vars => IInv'
  BY RoundsAssumption, NamesAssumption, StepInv
<1> QED BY <1>1, <1>2, PTL DEF Spec

\* Nobody returns from a round that somebody has not entered.
LEMMA NobodyEarly == IInv => NobodyLeavesEarly
<1> SUFFICES ASSUME IInv, NEW c \in Client, NEW d \in Client PROVE left[c] <= entered[d]
  BY DEF NobodyLeavesEarly
<1>1. PICK r \in Nat : Round(r)
  BY DEF IInv
<1>2. left[c] \in Nat /\ entered[c] \in Nat /\ entered[d] \in Nat
  BY DEF IInv, Types
<1>3. CASE Ready
  <2>1. entered[c] = r + 1 /\ entered[d] = r + 1
    BY <1>1, <1>3 DEF Round
  <2>2. left[c] <= entered[c]
    BY <1>2 DEF IInv, Returned
  <2> QED BY <2>1, <2>2
<1>4. CASE ~Ready
  <2>1. entered[c] = (IF c \in Present THEN r + 1 ELSE r) /\ entered[d] >= r
    BY <1>1, <1>4 DEF Round
  <2>2. c \in Present => entered[c] = left[c] + 1
    BY DEF IInv, Returned, Present
  <2>3. left[c] <= entered[c]
    BY <1>2 DEF IInv, Returned
  <2> QED BY <1>2, <2>1, <2>2, <2>3
<1> QED BY <1>3, <1>4

\* As long as somebody has a round to go, somebody is awake or about to be woken.
LEMMA SomebodyAwake ==
  ASSUME RoundsAssumption, IInv
  PROVE  NotAllAsleep
<1>1. Types /\ Lead1 /\ Children /\ Returned /\ Wakes
  BY DEF IInv
<1>2. SUFFICES ASSUME NEW x \in Client, left[x] # Rounds
               PROVE  \E c \in Client : ~Asleep(c) /\ left[c] < Rounds
  BY DEF NotAllAsleep
<1>3. \A c \in Client : pc[c] # "idle" => left[c] < Rounds
  BY <1>1 DEF Returned
<1>4. ASSUME NEW c \in Client, pc[c] \notin {"idle", "freshwait", "followwait", "alonewait"}
      PROVE  ~Asleep(c) /\ left[c] < Rounds
  BY <1>3, <1>4 DEF Asleep
<1>5. ASSUME NEW c \in Client, NEW w, Told(c, w), pc[c] # "idle"
      PROVE  ~Asleep(c) /\ left[c] < Rounds
  BY <1>3, <1>5 DEF Asleep, Told
<1>6. CASE Ready
  <2>1. PICK l \in Client : pc[l] \in Doors
    BY <1>1, <1>6 DEF Lead1
  <2>2. CASE pc[l] # "alonewait"
    BY <1>4, <2>1, <2>2 DEF Doors
  <2>3. CASE pc[l] = "alonewait" /\ Present = {l}
    <3>1. Told(l, node_path)
      BY <1>1, <2>3 DEF Wakes
    <3> QED BY <1>5, <2>3, <3>1
  <2>4. CASE pc[l] = "alonewait" /\ Present # {l}
    <3>1. PICK d \in Present : d # l
      BY <2>4 DEF Present, Room
    <3>2. d \in Client /\ pc[d] \in Waiters \cup {"leave"}
      BY <1>1, <2>1, <3>1 DEF Lead1, Present, Room, Doors, Leading
    <3>3. CASE pc[d] = "followwait"
      <4>1. Told(d, ready_path)
        BY <1>1, <1>6, <3>2, <3>3 DEF Wakes
      <4> QED BY <1>5, <3>2, <3>3, <4>1
    <3>4. CASE pc[d] # "followwait"
      BY <1>4, <3>2, <3>4 DEF Waiters
    <3> QED BY <3>3, <3>4
  <2> QED BY <2>2, <2>3, <2>4
<1>7. CASE ~Ready
  <2>1. \A c \in Client : pc[c] # "alonewait" /\ pc[c] # "leave"
    BY <1>1, <1>7 DEF Lead1, Doors
  <2>2. CASE \A c \in Client : pc[c] \in Waiters
    <3>1. PICK c \in Client : pc[c] = "sub"
      BY <1>1, <1>7, <2>2 DEF Children
    <3> QED BY <1>4, <3>1
  <2>3. CASE \E c \in Client : pc[c] \notin Waiters
    <3>1. PICK c \in Client : pc[c] \notin Waiters
      BY <2>3
    <3>2. CASE pc[c] = "freshwait"
      <4>1. Told(c, ready_path)
        BY <1>1, <1>7, <3>2 DEF Wakes
      <4> QED BY <1>5, <3>2, <4>1
    <3>3. CASE pc[c] = "idle"
      <4>1. CASE left[c] < Rounds
        BY <3>3, <4>1 DEF Asleep
      <4>2. CASE ~(left[c] < Rounds)
        \* the round is the last one: x has neither entered another nor returned
        <5>1. PICK r \in Nat : Round(r)
          BY DEF IInv
        <5>2. /\ left[c] = Rounds /\ entered[c] = Rounds /\ entered[c] = r
          BY <1>1, <1>7, <3>3, <4>2, <5>1
            DEF Returned, Types, RoundsAssumption, Round, Present, Waiters, Room
        <5>3. entered[x] >= Rounds
          BY <1>7, <5>1, <5>2 DEF Round
        <5>4. left[x] < Rounds /\ left[x] \in Nat /\ entered[x] \in Nat
          BY <1>1, <1>2 DEF Returned, Types, RoundsAssumption
        <5>5. pc[x] \in Room \cup {"close", "return"} /\ entered[x] = left[x] + 1
          BY <1>1, <5>3, <5>4 DEF Returned, RoundsAssumption
        <5>6. x \notin Present
          BY <1>7, <5>1, <5>2, <5>4, <5>5 DEF Round, RoundsAssumption
        <5>7. pc[x] \in {"close", "return"}
          BY <5>5, <5>6 DEF Present
        <5> QED BY <1>4, <5>7
      <4> QED BY <4>1, <4>2
    <3>4. CASE pc[c] \notin {"freshwait", "idle"}
      BY <1>4, <2>1, <3>1, <3>4 DEF Waiters
    <3> QED BY <3>2, <3>3, <3>4
  <2> QED BY <2>2, <2>3
<1> QED BY <1>6, <1>7

\* MasterClient::barrier, for any number of participants and rounds: nobody leaves
\* before all have come, no SCHECK of it fails, and the participants are never all
\* asleep with nobody to wake them.
THEOREM BarrierIsSound == Spec => []BarrierSound
<1>1. IInv => NoAbort
  BY DEF IInv, Types, NoAbort, Waiters, Room, Coming, Through, Labels
<1>2. IInv => BarrierSound
  BY <1>1, NobodyEarly, SomebodyAwake, RoundsAssumption DEF BarrierSound
<1> QED BY <1>2, RoundsKept, PTL
=============================================================================
