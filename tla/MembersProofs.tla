----------------------------- MODULE MembersProofs -----------------------------
(***************************************************************************)
(* Proofs about Members, for every set of legal histories, any number of    *)
(* crawlers and jobs and any faults: its type invariant, that a record of   *)
(* voting power never goes back to an earlier block, that a change of the   *)
(* members is followed by the message for the metrics, and that the members *)
(* of a multisig, the locks of an escrow and the voting power follow the    *)
(* chain.                                                                   *)
(***************************************************************************)
EXTENDS Members, WellFoundedInduction, TLAPS

\* Which events a place of a handler is for.
PlacesFit ==
  \A c \in Crawlers :
    /\ pc[c] \in {"read", "guess", "member"} => Event(c).kind \in {"Locked", "Unlocked"}
    /\ pc[c] \in {"bulk", "metrics", "fallback"} => Batched(c)

TypeInv == TypeOK /\ history \in Histories /\ PlacesFit

LEMMA InitTypeInv == Init => TypeInv
<1> SUFFICES ASSUME Init PROVE TypeInv
  OBVIOUS
<1>1. history \in Seq(Events) /\ Len(history) \in Nat /\ faults \in Nat /\ head \in 0 .. Len(history)
  BY MembersConstants DEF Init
<1>2. pos \in [Crawlers -> 1 .. (head + 1)] /\ upto \in [Crawlers -> 0 .. head]
  BY DEF Init
<1>3. pc \in [Crawlers -> Places] /\ \A c \in Crawlers : pc[c] = "idle"
  BY DEF Init, Places
<1>4. /\ power \in [Accounts -> Records]
      /\ locks \in [Tokens -> [here : BOOLEAN, exit : BOOLEAN, out : BOOLEAN,
                               to : Accounts \union {Nobody}]]
  BY DEF Init, Records, NoLock
<1>5. /\ value \in [Crawlers -> Nat] /\ batch \in [Crawlers -> SUBSET (1 .. head)]
      /\ reached \in 0 .. head
  BY DEF Init
<1>8. /\ list \subseteq Accounts /\ begun \subseteq Crawlers /\ failed \subseteq Subjects
      /\ guessed \subseteq Accounts /\ dirty \in BOOLEAN /\ silent \in BOOLEAN
  BY Zenon DEF Init
<1>6. PlacesFit
  BY <1>3 DEF PlacesFit
<1>7. TypeOK
  BY <1>1, <1>2, <1>3, <1>4, <1>5, <1>8 DEF TypeOK
<1> QED
  BY <1>6, <1>7 DEF TypeInv, Init

-----------------------------------------------------------------------------
(* The events *)

LEMMA EventAt ==
  ASSUME TypeInv, NEW n \in 1 .. head
  PROVE  /\ history[n] \in Events /\ n \in DOMAIN history
         /\ history[n].kind \in LockKinds => history[n].who \in Tokens
         /\ history[n].kind \in PowerKinds \union ListKinds => history[n].who \in Accounts
<1>1. /\ history \in Seq(Events) /\ Len(history) \in Nat /\ DOMAIN history = 1 .. Len(history)
      /\ head \in 0 .. Len(history)
  BY DEF TypeInv, TypeOK
<1>2. n \in 1 .. Len(history)
  BY <1>1
<1>3. history[n] \in Events
  BY <1>1, <1>2
<1>4. Legal(history)
  BY MembersConstants DEF TypeInv
<1>5. IF history[n].kind \in LockKinds THEN history[n].who \in Tokens ELSE history[n].who \in Accounts
  BY <1>1, <1>2, <1>4 DEF Legal
<1>6. (PowerKinds \union ListKinds) \intersect LockKinds = {}
  BY DEF PowerKinds, ListKinds, LockKinds
<1> QED
  BY <1>1, <1>2, <1>3, <1>5, <1>6

LEMMA EventType ==
  ASSUME TypeInv, NEW c \in Crawlers, pc[c] # "idle" \/ pos[c] <= head
  PROVE  /\ pos[c] \in 1 .. head /\ head \in Nat /\ Event(c) \in Events
         /\ Event(c).who \in Subjects /\ Event(c).to \in Accounts \union {Nobody}
         /\ Event(c).amount \in Nat /\ Event(c).total \in Nat /\ Event(c).block \in Nat \ {0}
         /\ Event(c).kind \in LockKinds => Event(c).who \in Tokens
         /\ Event(c).kind \in PowerKinds \union ListKinds => Event(c).who \in Accounts
<1>1. head \in Nat /\ pos[c] \in 1 .. (head + 1) /\ upto[c] \in 0 .. head
  BY DEF TypeInv, TypeOK
<1>2. pc[c] # "idle" => pos[c] <= upto[c]
  BY DEF TypeInv, TypeOK
<1>3. pos[c] \in 1 .. head
  BY <1>1, <1>2
<1>4. Event(c) \in Events
  BY <1>3, EventAt DEF Event
<1> QED
  BY <1>1, <1>3, <1>4, EventAt DEF Event, Events

\* A set of positions has a last one.
LEMMA Greatest ==
  ASSUME NEW n \in Nat, NEW S \in SUBSET (1 .. n), S # {}
  PROVE  \E m \in S : \A i \in S : i <= m
<1> DEFINE R == {ss \in Nat \X Nat : ss[1] < ss[2]}
           T == {n - i : i \in S}
<1>1. IsWellFoundedOn(R, Nat)
  BY NatLessThanWellFounded DEF OpToRel
<1>2. T \subseteq Nat /\ T # {}
  <2>1. PICK s \in S : TRUE
    OBVIOUS
  <2>2. n - s \in T
    OBVIOUS
  <2>3. ASSUME NEW i \in S PROVE n - i \in Nat
    OBVIOUS
  <2> QED
    BY <2>2, <2>3
<1>3. PICK x \in T : \A y \in T : ~(<<y, x>> \in R)
  <2> HIDE DEF R, T
  <2> QED
    BY <1>1, <1>2, WFMin
<1>4. PICK m \in S : x = n - m
  BY <1>3
<1>5. ASSUME NEW i \in S PROVE i <= m
  <2>1. n - i \in T /\ n - i \in Nat /\ x \in Nat
    BY <1>2, <1>3
  <2>2. ~(n - i < x)
    BY <1>3, <2>1
  <2> QED
    BY <1>4, <2>2
<1> QED
  BY <1>5

LEMMA BalanceType ==
  ASSUME TypeInv, NEW a
  PROVE  Balance(a, head) \in Nat
<1> DEFINE about == {i \in 1 .. head : history[i].who = a}
<1>1. head \in Nat
  BY DEF TypeInv, TypeOK
<1>2. CASE about = {}
  BY <1>2 DEF Balance, LastOf
<1>3. CASE about # {}
  <2>1. \E i \in about : \A j \in about : j <= i
    BY <1>1, <1>3, Greatest
  <2>2. LastOf(a, head) \in about
    BY <1>3, <2>1 DEF LastOf
  <2>3. history[LastOf(a, head)].total \in Nat
    BY <2>2, EventAt DEF Events
  <2> QED
    BY <2>3 DEF Balance
<1> QED
  BY <1>2, <1>3

-----------------------------------------------------------------------------
(* A step of one crawler *)

\* What a step leaves of where the crawlers are.
Moved(c) ==
  /\ pc' \in [Crawlers -> Places] /\ pos' \in [Crawlers -> 1 .. (head + 1)]
  /\ upto' \in [Crawlers -> 0 .. head]
  /\ \A d \in Crawlers : d # c => pc'[d] = pc[d] /\ pos'[d] = pos[d] /\ upto'[d] = upto[d]
  /\ pc'[c] # "idle" => pos'[c] = pos[c] /\ pos'[c] <= upto'[c]

Rest ==
  /\ power' \in [Accounts -> Records]
  /\ locks' \in [Tokens -> [here : BOOLEAN, exit : BOOLEAN, out : BOOLEAN, to : Accounts \union {Nobody}]]
  /\ list' \subseteq Accounts /\ dirty' \in BOOLEAN
  /\ value' \in [Crawlers -> Nat] /\ batch' \in [Crawlers -> SUBSET (1 .. head)]
  /\ reached' \in 0 .. head /\ begun' \subseteq Crawlers
  /\ failed' \subseteq Subjects /\ guessed' \subseteq Accounts /\ silent' \in BOOLEAN
  /\ faults' \in Nat

\* The crawler's next place is one for its event.
Fits(c) ==
  /\ pc'[c] \in {"read", "guess", "member"} => Event(c).kind \in {"Locked", "Unlocked"}
  /\ pc'[c] \in {"bulk", "metrics", "fallback"} => Batched(c)

LEMMA RestTypeInv ==
  ASSUME TypeInv, NEW c \in Crawlers, Moved(c), Rest, Fits(c), UNCHANGED <<history, head>>
  PROVE  TypeInv'
<1>1. \A d \in Crawlers : pc'[d] # "idle" => pos'[d] <= upto'[d]
  BY DEF TypeInv, TypeOK, Moved
<1>2. TypeOK'
  BY <1>1 DEF TypeInv, TypeOK, Moved, Rest
<1>3. ASSUME NEW d \in Crawlers, pc'[d] # "idle"
      PROVE  pos'[d] = pos[d] /\ Event(d)' = Event(d) /\ Batched(d)' = Batched(d)
  BY <1>3 DEF Moved, Event, Batched, TypeInv, TypeOK
<1>4. PlacesFit'
  BY <1>3 DEF TypeInv, PlacesFit, Moved, Fits
<1> QED
  BY <1>2, <1>4 DEF TypeInv

LEMMA GotoMoves ==
  ASSUME TypeInv, NEW c \in Crawlers, pc[c] # "idle", NEW place \in Places, Goto(c, place)
  PROVE  Moved(c) /\ pc'[c] = place
BY DEF TypeInv, TypeOK, Moved, Goto

LEMMA DoneMoves ==
  ASSUME TypeInv, NEW c \in Crawlers, Done(c)
  PROVE  Moved(c) /\ pc'[c] = "idle" /\ pos'[c] = upto[c] + 1
<1>1. upto[c] + 1 \in 1 .. (head + 1)
  BY DEF TypeInv, TypeOK
<1>2. pos' \in [Crawlers -> 1 .. (head + 1)] /\ pos'[c] = upto[c] + 1
  BY <1>1 DEF TypeInv, TypeOK, Done
<1>3. pc' \in [Crawlers -> Places] /\ pc'[c] = "idle"
  BY DEF TypeInv, TypeOK, Done, Places
<1> QED
  BY <1>2, <1>3 DEF TypeInv, TypeOK, Moved, Done

LEMMA BeginMoves ==
  ASSUME TypeInv, NEW c \in Crawlers, NEW last \in pos[c] .. head, NEW place \in Places,
         Begin(c, last, place)
  PROVE  /\ Moved(c) /\ pc'[c] = place /\ upto'[c] = last /\ pos' = pos
         /\ reached' \in 0 .. head /\ begun' \subseteq Crawlers
<1>1. last \in 0 .. head /\ last >= pos[c]
  BY DEF TypeInv, TypeOK
<1>2. upto' \in [Crawlers -> 0 .. head] /\ upto'[c] = last
  BY <1>1 DEF TypeInv, TypeOK, Begin
<1> QED
  BY <1>1, <1>2 DEF TypeInv, TypeOK, Moved, Begin

LEMMA ReceiveTypeInv ==
  ASSUME TypeInv, NEW c \in Crawlers, Receive(c) \/ ReceiveRange(c)
  PROVE  TypeInv'
<1>0. /\ pos[c] \in 1 .. head /\ head \in Nat /\ UNCHANGED <<history, head>>
  BY EventType DEF Receive, ReceiveRange, Begin
<1>1. CASE Receive(c)
  <2> DEFINE k == Event(c).kind
             place == CASE k \in {"Locked", "Unlocked"} -> "read"
                        [] k \in {"ExitQueued", "Withdraw", "Added"} -> "find"
                        [] OTHER -> "update"
  <2>1. place \in {"read", "find", "update"} /\ (place = "read" => k \in {"Locked", "Unlocked"})
    OBVIOUS
  <2>2. place \in Places
    BY <2>1 DEF Places
  <2>3. pos[c] \in pos[c] .. head
    BY <1>0
  <2>4. Begin(c, pos[c], place)
    BY <1>1 DEF Receive
  <2> HIDE DEF place
  <2>5. Moved(c) /\ pc'[c] = place /\ reached' \in 0 .. head /\ begun' \subseteq Crawlers
    BY <2>2, <2>3, <2>4, BeginMoves
  <2>6. Rest
    BY <1>1, <2>4, <2>5 DEF Receive, Begin, Rest, TypeInv, TypeOK, records, ghosts
  <2>7. Fits(c)
    BY <2>1, <2>5 DEF Fits
  <2> QED
    BY <1>0, <2>5, <2>6, <2>7, RestTypeInv
<1>2. CASE ReceiveRange(c)
  <2>1. PICK to \in pos[c] .. head : /\ Begin(c, to, "bulk")
                                     /\ batch' = [batch EXCEPT ![c] = Latest(pos[c], to)]
    BY <1>2 DEF ReceiveRange
  <2>2. Moved(c) /\ pc'[c] = "bulk" /\ reached' \in 0 .. head /\ begun' \subseteq Crawlers
    BY <2>1, BeginMoves DEF Places
  <2>3. Latest(pos[c], to) \subseteq 1 .. head
    BY <1>0 DEF Latest
  <2>4. Rest
    BY <2>1, <2>2, <2>3 DEF Begin, Rest, TypeInv, TypeOK, records, ghosts
  <2>5. Fits(c)
    BY <1>2, <2>2 DEF Fits, ReceiveRange
  <2> QED
    BY <1>0, <2>2, <2>4, <2>5, RestTypeInv
<1> QED
  BY <1>1, <1>2

LEMMA KnownType ==
  ASSUME TypeInv, NEW a \in Accounts
  PROVE  Known(a) \in Records /\ Known(a).vp \in Nat /\ Known(a) # NoPower
         /\ Known(a).block >= power[a].block
<1>1. power[a] \in Records
  BY DEF TypeInv, TypeOK
<1> QED
  BY <1>1 DEF Known, Records, NoPower

LEMMA StampedType ==
  ASSUME NEW old \in Records, NEW v \in Nat, NEW b \in Nat \ {0}
  PROVE  /\ Stamped(old, v, b) \in Records /\ Stamped(old, v, b) # NoPower
         /\ Stamped(old, v, b).block >= old.block
BY DEF Stamped, Records, NoPower

LEMMA BalanceStepTypeInv ==
  ASSUME TypeInv, NEW c \in Crawlers, ReadBalance(c) \/ GuessBalance(c) \/ CreateMember(c)
  PROVE  TypeInv'
<1>0. /\ pc[c] # "idle" /\ UNCHANGED <<history, head>> /\ Event(c).kind \in {"Locked", "Unlocked"}
  BY DEF ReadBalance, GuessBalance, CreateMember, TypeInv, PlacesFit
<1>1. Event(c).who \in Accounts /\ Event(c).amount \in Nat
  BY <1>0, EventType DEF PowerKinds
<1>2. /\ Known(Event(c).who) \in Records /\ Known(Event(c).who).vp \in Nat
      /\ power[Event(c).who] \in Records
  BY <1>1, KnownType DEF TypeInv, TypeOK
<1>3. CASE ReadBalance(c)
  <2>1. Balance(Event(c).who, head) \in Nat
    BY BalanceType
  <2>2. value' \in [Crawlers -> Nat] /\ guessed' \subseteq Accounts /\ faults' \in Nat
    BY <1>1, <1>3, <2>1 DEF ReadBalance, Fault, TypeInv, TypeOK
  <2>3. Rest
    BY <1>3, <2>2 DEF ReadBalance, Rest, TypeInv, TypeOK, records
  <2>4. Moved(c) /\ pc'[c] \in {"member", "guess"}
    BY <1>0, <1>3, GotoMoves DEF ReadBalance, Places
  <2>5. Fits(c)
    BY <1>0, <2>4 DEF Fits
  <2> QED
    BY <1>0, <2>3, <2>4, <2>5, RestTypeInv
<1>4. CASE GuessBalance(c)
  <2>1. power' \in [Accounts -> Records]
    BY <1>1, <1>2, <1>4 DEF GuessBalance, TypeInv, TypeOK
  <2>2. value' \in [Crawlers -> Nat]
    <3>1. Known(Event(c).who).vp + Event(c).amount \in Nat
      BY <1>1, <1>2
    <3>2. (IF power[Event(c).who].vp > Event(c).amount
           THEN power[Event(c).who].vp - Event(c).amount ELSE 0) \in Nat
      BY <1>1, <1>2 DEF Records, NoPower
    <3> QED
      BY <1>4, <3>1, <3>2 DEF GuessBalance, TypeInv, TypeOK
  <2>3. Rest
    BY <1>4, <2>1, <2>2 DEF GuessBalance, Rest, TypeInv, TypeOK, ghosts
  <2>4. Moved(c) /\ pc'[c] \in {"update", "member", "idle"}
    BY <1>0, <1>4, GotoMoves, DoneMoves DEF GuessBalance, Places
  <2>5. Fits(c)
    BY <1>0, <2>4 DEF Fits
  <2> QED
    BY <1>0, <2>3, <2>4, <2>5, RestTypeInv
<1>5. CASE CreateMember(c)
  <2>1. power' \in [Accounts -> Records]
    BY <1>1, <1>2, <1>5 DEF CreateMember, TypeInv, TypeOK
  <2>3. Rest
    BY <1>5, <2>1 DEF CreateMember, Rest, TypeInv, TypeOK, ghosts
  <2>4. Moved(c) /\ pc'[c] = "update"
    BY <1>0, <1>5, GotoMoves DEF CreateMember, Places
  <2>5. Fits(c)
    BY <2>4 DEF Fits
  <2> QED
    BY <1>0, <2>3, <2>4, <2>5, RestTypeInv
<1> QED
  BY <1>3, <1>4, <1>5

LEMMA DirtyType ==
  ASSUME NEW a, NEW b, dirty' = (dirty \/ a # b)
  PROVE  dirty' \in BOOLEAN
BY Zenon

LEMMA PowerStepTypeInv ==
  ASSUME TypeInv, NEW c \in Crawlers, UpdatePower(c) \/ BulkWrite(c) \/ BulkMetrics(c) \/ Fallback(c)
  PROVE  TypeInv'
<1>0. pc[c] # "idle" /\ UNCHANGED <<history, head>>
  BY DEF UpdatePower, BulkWrite, BulkMetrics, Fallback
<1>1. head \in Nat /\ batch[c] \subseteq 1 .. head /\ dirty \in BOOLEAN /\ silent \in BOOLEAN
  BY DEF TypeInv, TypeOK
<1>2. CASE UpdatePower(c)
  <2>1. /\ Event(c).who \in Accounts /\ Event(c).total \in Nat /\ Event(c).block \in Nat \ {0}
        /\ value[c] \in Nat
    BY <1>0, <1>2, EventType DEF UpdatePower, TypeInv, TypeOK
  <2>2. power[Event(c).who] \in Records
    BY <2>1 DEF TypeInv, TypeOK
  <2> DEFINE v == IF Event(c).kind = "VotesChanged" THEN Event(c).total ELSE value[c]
  <2>3. Stamped(power[Event(c).who], v, Event(c).block) \in Records
    BY <2>1, <2>2, StampedType
  <2>4. power' = [power EXCEPT ![Event(c).who] = Stamped(@, v, Event(c).block)]
    BY <1>2 DEF UpdatePower
  <2>5. power' \in [Accounts -> Records]
    BY <2>3, <2>4 DEF TypeInv, TypeOK
  <2>6. dirty' \in BOOLEAN
    BY <1>2, DirtyType DEF UpdatePower
  <2>7. Rest
    BY <1>2, <2>5, <2>6 DEF UpdatePower, Rest, TypeInv, TypeOK, ghosts
  <2>8. Moved(c) /\ Fits(c)
    BY <1>0, <1>2, GotoMoves DEF UpdatePower, Places, Fits
  <2> QED
    BY <1>0, <2>7, <2>8, RestTypeInv
<1>3. CASE BulkWrite(c)
  <2>0. Batched(c)
    BY <1>3 DEF BulkWrite, TypeInv, PlacesFit
  <2>1. PICK written \in SUBSET batch[c] :
          /\ \/ written = batch[c] /\ UNCHANGED <<failed, faults>>
             \/ /\ written # batch[c] /\ Fault("fail")
                /\ failed' = failed \union {history[n].who : n \in batch[c] \ written}
          /\ power' = [a \in Accounts |->
               IF \E n \in written : history[n].who = a
               THEN LET n == CHOOSE n \in written : history[n].who = a
                    IN [vp |-> history[n].total, block |-> history[n].block]
               ELSE power[a]]
    BY <1>3 DEF BulkWrite
  <2>2. \A n \in batch[c] : /\ history[n].total \in Nat /\ history[n].block \in Nat
                            /\ history[n].who \in Subjects
    BY <1>1, EventAt DEF Events
  <2>3. power' \in [Accounts -> Records]
    <3>1. ASSUME NEW a \in Accounts PROVE power'[a] \in Records
      <4>1. CASE \E n \in written : history[n].who = a
        <5>1. PICK n \in written : power'[a] = [vp |-> history[n].total, block |-> history[n].block]
          BY <2>1, <4>1
        <5> QED
          BY <2>2, <5>1 DEF Records
      <4>2. CASE ~ \E n \in written : history[n].who = a
        BY <2>1, <4>2 DEF TypeInv, TypeOK
      <4> QED
        BY <4>1, <4>2
    <3>2. power' = [a \in Accounts |-> power'[a]]
      BY <2>1
    <3> QED
      BY <3>1, <3>2
  <2>4. failed' \subseteq Subjects
    <3>1. {history[n].who : n \in batch[c] \ written} \subseteq Subjects
      BY <2>2
    <3>2. failed \subseteq Subjects
      BY DEF TypeInv, TypeOK
    <3> QED
      BY <2>1, <3>1, <3>2
  <2>5. faults' \in Nat
    BY <2>1 DEF Fault, TypeInv, TypeOK
  <2>6. dirty' \in BOOLEAN
    BY <1>3, DirtyType DEF BulkWrite
  <2>7. Rest
    BY <1>3, <2>3, <2>4, <2>5, <2>6 DEF BulkWrite, Rest, TypeInv, TypeOK
  <2>8. Moved(c) /\ Fits(c)
    BY <1>0, <1>3, <2>0, GotoMoves DEF BulkWrite, Places, Fits
  <2> QED
    BY <1>0, <2>7, <2>8, RestTypeInv
<1>4. CASE BulkMetrics(c)
  <2>0. Batched(c)
    BY <1>4 DEF BulkMetrics, TypeInv, PlacesFit
  <2>1. batch' \in [Crawlers -> SUBSET (1 .. head)] /\ faults' \in Nat
    BY <1>4 DEF BulkMetrics, Fault, TypeInv, TypeOK
  <2>2. Rest
    BY <1>4, <2>1 DEF BulkMetrics, Rest, TypeInv, TypeOK, ghosts, records
  <2>3. Moved(c) /\ Fits(c)
    BY <1>0, <1>4, <2>0, GotoMoves DEF BulkMetrics, Places, Fits
  <2> QED
    BY <1>0, <2>2, <2>3, RestTypeInv
<1>5. CASE Fallback(c)
  <2>0. Batched(c)
    BY <1>5 DEF Fallback, TypeInv, PlacesFit
  <2>1. CASE \E n \in batch[c] :
               /\ power' = [power EXCEPT ![history[n].who] =
                    Stamped(@, history[n].total, history[n].block)]
               /\ batch' = [batch EXCEPT ![c] = @ \ {n}]
               /\ dirty' = (dirty \/ power' # power)
               /\ Goto(c, "fallback") /\ UNCHANGED silent
    <3>1. PICK n \in batch[c] :
               /\ power' = [power EXCEPT ![history[n].who] =
                    Stamped(@, history[n].total, history[n].block)]
               /\ batch' = [batch EXCEPT ![c] = @ \ {n}]
               /\ dirty' = (dirty \/ power' # power)
               /\ Goto(c, "fallback") /\ UNCHANGED silent
      BY <2>1
    <3>2. history[n].total \in Nat /\ history[n].block \in Nat \ {0}
      BY <1>1, EventAt DEF Events
    <3>3. power' \in [Accounts -> Records]
      BY <3>1, <3>2, StampedType DEF TypeInv, TypeOK
    <3>4. batch' \in [Crawlers -> SUBSET (1 .. head)]
      BY <3>1 DEF TypeInv, TypeOK
    <3>5. dirty' \in BOOLEAN
      BY <3>1, DirtyType
    <3>6. Rest
      BY <1>5, <3>1, <3>3, <3>4, <3>5 DEF Fallback, Rest, TypeInv, TypeOK
    <3>7. Moved(c) /\ Fits(c)
      BY <1>0, <2>0, <3>1, GotoMoves DEF Places, Fits
    <3> QED
      BY <1>0, <3>6, <3>7, RestTypeInv
  <2>2. CASE batch[c] = {} /\ silent' = TRUE /\ Done(c) /\ UNCHANGED <<power, batch, dirty>>
    <3>1. Rest
      BY <1>5, <2>2 DEF Fallback, Rest, TypeInv, TypeOK
    <3>2. Moved(c) /\ Fits(c)
      BY <2>2, DoneMoves DEF Fits
    <3> QED
      BY <1>0, <3>1, <3>2, RestTypeInv
  <2> QED
    BY <1>5, <2>1, <2>2 DEF Fallback
<1> QED
  BY <1>2, <1>3, <1>4, <1>5

LEMMA AskTypeInv ==
  ASSUME TypeInv, NEW c \in Crawlers, AskMetrics(c)
  PROVE  TypeInv'
<1>1. UNCHANGED <<history, head>>
  BY DEF AskMetrics
<1>2. Rest
  BY DEF AskMetrics, Rest, TypeInv, TypeOK, records, ghosts
<1>3. Moved(c) /\ Fits(c)
  BY DoneMoves DEF AskMetrics, Fits
<1> QED
  BY <1>1, <1>2, <1>3, RestTypeInv

LEMMA LockStepTypeInv ==
  ASSUME TypeInv, NEW c \in Crawlers, LockStep(c)
  PROVE  TypeInv'
<1> DEFINE LockType == [here : BOOLEAN, exit : BOOLEAN, out : BOOLEAN, to : Accounts \union {Nobody}]
<1>0. pc[c] # "idle" /\ UNCHANGED <<history, head>> /\ Event(c).kind \in LockKinds
  BY DEF LockStep, CreateLock, DelegateLock, FindLock, WriteLock, LockKinds
<1>1. Event(c).who \in Tokens /\ Event(c).to \in Accounts \union {Nobody}
  BY <1>0, EventType
<1>2. locks \in [Tokens -> LockType] /\ locks[Event(c).who] \in LockType
  BY <1>1 DEF TypeInv, TypeOK
<1>3. locks' \in [Tokens -> LockType]
  <2>1. CASE CreateLock(c)
    <3>1. [NoLock EXCEPT !.here = TRUE] \in LockType
      BY DEF NoLock
    <3> QED
      BY <1>1, <1>2, <2>1, <3>1 DEF CreateLock
  <2>2. CASE DelegateLock(c)
    <3>1. [locks[Event(c).who] EXCEPT !.to = Event(c).to] \in LockType
      BY <1>1, <1>2
    <3> QED
      BY <1>1, <1>2, <2>2, <3>1 DEF DelegateLock
  <2>3. CASE FindLock(c)
    BY <1>2, <2>3 DEF FindLock, records
  <2>4. CASE WriteLock(c)
    <3>1. Marked(locks[Event(c).who], Event(c).kind) \in LockType
      BY <1>2 DEF Marked
    <3> QED
      BY <1>1, <1>2, <2>4, <3>1 DEF WriteLock
  <2> QED
    BY <2>1, <2>2, <2>3, <2>4 DEF LockStep
<1>4. dirty' \in BOOLEAN
  <2>1. CASE DelegateLock(c)
    BY <2>1, DirtyType DEF DelegateLock
  <2>2. CASE ~DelegateLock(c)
    BY <2>2 DEF LockStep, CreateLock, FindLock, WriteLock, TypeInv, TypeOK
  <2> QED
    BY <2>1, <2>2
<1>5. Rest
  BY <1>3, <1>4 DEF LockStep, CreateLock, DelegateLock, FindLock, WriteLock, Rest, TypeInv, TypeOK,
                    ghosts, records
<1>6. Moved(c) /\ pc'[c] \in {"idle", "message", "write"}
  BY <1>0, GotoMoves, DoneMoves DEF LockStep, CreateLock, DelegateLock, FindLock, WriteLock, Places
<1>7. Fits(c)
  BY <1>6 DEF Fits
<1> QED
  BY <1>0, <1>5, <1>6, <1>7, RestTypeInv

LEMMA ListStepTypeInv ==
  ASSUME TypeInv, NEW c \in Crawlers, ListStep(c)
  PROVE  TypeInv'
<1>0. pc[c] # "idle" /\ UNCHANGED <<history, head>> /\ Event(c).kind \in ListKinds
  BY DEF ListStep, FindMember, AddMember, RemoveMember, ListKinds
<1>1. Event(c).who \in Accounts
  BY <1>0, EventType
<1>2. list' \subseteq Accounts
  BY <1>1 DEF ListStep, FindMember, AddMember, RemoveMember, records, TypeInv, TypeOK
<1>3. dirty' \in BOOLEAN
  <2>1. CASE AddMember(c) \/ RemoveMember(c)
    BY <2>1, DirtyType DEF AddMember, RemoveMember
  <2>2. CASE FindMember(c)
    BY <2>2 DEF FindMember, TypeInv, TypeOK
  <2> QED
    BY <2>1, <2>2 DEF ListStep
<1>4. Rest
  BY <1>2, <1>3 DEF ListStep, FindMember, AddMember, RemoveMember, Rest, TypeInv, TypeOK, ghosts, records
<1>5. Moved(c) /\ pc'[c] \in {"message", "write"}
  BY <1>0, GotoMoves DEF ListStep, FindMember, AddMember, RemoveMember, Places
<1>6. Fits(c)
  BY <1>5 DEF Fits
<1> QED
  BY <1>0, <1>4, <1>5, <1>6, RestTypeInv

LEMMA FaultTypeInv ==
  ASSUME TypeInv, NEW c \in Crawlers, Crash(c) \/ HandlerFails(c) \/ Redeliver(c)
  PROVE  TypeInv'
<1>0. faults' \in Nat /\ UNCHANGED <<history, head>>
  BY DEF Crash, HandlerFails, Redeliver, Fault, TypeInv, TypeOK
<1>1. CASE Crash(c)
  <2>1. batch' \in [Crawlers -> SUBSET (1 .. head)]
    BY <1>1 DEF Crash, Cut, TypeInv, TypeOK
  <2>2. Rest
    BY <1>0, <1>1, <2>1 DEF Crash, Rest, TypeInv, TypeOK, records, ghosts
  <2>3. Moved(c) /\ Fits(c)
    BY <1>1, GotoMoves DEF Crash, Fits, Places
  <2> QED
    BY <1>0, <2>2, <2>3, RestTypeInv
<1>2. CASE HandlerFails(c)
  <2>1. Event(c).who \in Subjects /\ pc[c] # "idle"
    BY <1>2, EventType DEF HandlerFails
  <2>2. failed' \subseteq Subjects /\ silent' \in BOOLEAN
    BY <1>2, <2>1 DEF HandlerFails, TypeInv, TypeOK
  <2>3. Rest
    BY <1>0, <1>2, <2>2 DEF HandlerFails, Rest, TypeInv, TypeOK, records
  <2>4. Moved(c) /\ pc'[c] \in {"message", "idle"}
    BY <1>2, <2>1, GotoMoves, DoneMoves DEF HandlerFails, Places
  <2>5. Fits(c)
    BY <2>4 DEF Fits
  <2> QED
    BY <1>0, <2>3, <2>4, <2>5, RestTypeInv
<1>3. CASE Redeliver(c)
  <2>1. PICK n \in 1 .. (pos[c] - 1) : pos' = [pos EXCEPT ![c] = n]
    BY <1>3 DEF Redeliver
  <2>2. n \in 1 .. (head + 1)
    <3>1. pos[c] \in 1 .. (head + 1) /\ head \in Nat
      BY DEF TypeInv, TypeOK
    <3> QED
      BY <3>1
  <2>3. Rest
    BY <1>0, <1>3 DEF Redeliver, Rest, TypeInv, TypeOK, records, ghosts
  <2>4. Moved(c) /\ pc'[c] = "idle"
    BY <1>3, <2>1, <2>2 DEF Redeliver, Moved, TypeInv, TypeOK
  <2>5. Fits(c)
    BY <2>4 DEF Fits
  <2> QED
    BY <1>0, <2>3, <2>4, <2>5, RestTypeInv
<1> QED
  BY <1>1, <1>2, <1>3

LEMMA Wider ==
  ASSUME NEW m \in Nat, NEW n \in Nat, m < n
  PROVE  1 .. m \subseteq 1 .. n /\ 0 .. m \subseteq 0 .. n /\ 1 .. (m + 1) \subseteq 1 .. (n + 1)
<1>1. 1 .. m \subseteq 1 .. n
  OBVIOUS
<1>2. 0 .. m \subseteq 0 .. n
  OBVIOUS
<1>3. 1 .. (m + 1) \subseteq 1 .. (n + 1)
  OBVIOUS
<1> QED
  BY <1>1, <1>2, <1>3

LEMMA EmitTypeInv ==
  ASSUME TypeInv, Emit
  PROVE  TypeInv'
<1>1. head \in Nat /\ head' \in Nat /\ head < head' /\ head' \in 0 .. Len(history)
  BY DEF TypeInv, TypeOK, Emit
<1>2. UNCHANGED <<history, records, dirty, pos, upto, pc, value, batch, reached, begun, ghosts, faults>>
  BY DEF Emit
<1>3. 1 .. head \subseteq 1 .. head' /\ 0 .. head \subseteq 0 .. head'
      /\ 1 .. (head + 1) \subseteq 1 .. (head' + 1)
  BY <1>1, Wider
<1>4. pos' \in [Crawlers -> 1 .. (head' + 1)] /\ upto' \in [Crawlers -> 0 .. head']
      /\ reached' \in 0 .. head'
  BY <1>2, <1>3 DEF TypeInv, TypeOK
<1>5. batch' \in [Crawlers -> SUBSET (1 .. head')]
  BY <1>2, <1>3 DEF TypeInv, TypeOK
<1>6. TypeOK'
  BY <1>1, <1>2, <1>4, <1>5 DEF TypeInv, TypeOK, records, ghosts
<1>7. PlacesFit'
  BY <1>2 DEF TypeInv, PlacesFit, Event, Batched
<1> QED
  BY <1>2, <1>6, <1>7 DEF TypeInv

LEMMA StepTypeInv ==
  ASSUME TypeInv, [Next]_vars
  PROVE  TypeInv'
<1>1. CASE UNCHANGED vars
  BY <1>1 DEF vars, records, ghosts, TypeInv, TypeOK, PlacesFit, Event, Batched
<1> QED
  BY <1>1, EmitTypeInv, ReceiveTypeInv, AskTypeInv, BalanceStepTypeInv, PowerStepTypeInv,
     LockStepTypeInv, ListStepTypeInv, FaultTypeInv DEF Next, PowerStep

LEMMA AlwaysTypeInv == Spec => []TypeInv
BY InitTypeInv, StepTypeInv, PTL DEF Spec

\* Every record of a member is one the handlers write, and no handler works
\* beyond the events the chain holds.
THEOREM MembersTypeCorrect == Spec => []TypeOK
<1>1. TypeInv => TypeOK
  BY DEF TypeInv
<1> QED
  BY <1>1, AlwaysTypeInv, PTL

-----------------------------------------------------------------------------
(* Records of voting power *)

StepOf(c) ==
  \/ Receive(c) \/ ReceiveRange(c) \/ AskMetrics(c)
  \/ PowerStep(c) \/ LockStep(c) \/ ListStep(c)
  \/ Crash(c) \/ HandlerFails(c) \/ Redeliver(c)

\* Steps other than these leave the records of voting power alone.
WritesPower(c) == GuessBalance(c) \/ CreateMember(c) \/ UpdatePower(c) \/ BulkWrite(c) \/ Fallback(c)

LEMMA PowerStays ==
  ASSUME NEW c \in Crawlers, StepOf(c), ~WritesPower(c)
  PROVE  UNCHANGED power
BY DEF StepOf, WritesPower, PowerStep, LockStep, ListStep, Receive, ReceiveRange, Begin, AskMetrics,
       ReadBalance, BulkMetrics, CreateLock, DelegateLock, FindLock, WriteLock, FindMember, AddMember,
       RemoveMember, Crash, HandlerFails, Redeliver, records

\* A batch writes a record from one of its events about the account, or not at all.
LEMMA BatchWrites ==
  ASSUME NEW c, BulkWrite(c), NEW a \in Accounts
  PROVE  power'[a] = power[a] \/ \E n \in batch[c] : history[n].who = a /\
           power'[a] = [vp |-> history[n].total, block |-> history[n].block]
<1> DEFINE entry(n) == [vp |-> history[n].total, block |-> history[n].block]
<1>1. PICK written \in SUBSET batch[c] :
        power' = [b \in Accounts |->
          IF \E n \in written : history[n].who = b
          THEN entry(CHOOSE n \in written : history[n].who = b)
          ELSE power[b]]
  BY DEF BulkWrite
<1>2. CASE \E n \in written : history[n].who = a
  <2> DEFINE m == CHOOSE n \in written : history[n].who = a
  <2>1. m \in written /\ history[m].who = a
    BY <1>2
  <2>2. power'[a] = entry(m)
    BY <1>1, <1>2
  <2> HIDE DEF m
  <2> QED
    BY <2>1, <2>2
<1>3. CASE ~\E n \in written : history[n].who = a
  BY <1>1, <1>3
<1> QED
  BY <1>2, <1>3

\* Writes of one record go forward, and no step takes a record away.
LEMMA PowerForward ==
  ASSUME TypeInv, NEW c \in Crawlers, StepOf(c), NEW a \in Accounts
  PROVE  /\ power[a] # NoPower => power'[a] # NoPower
         /\ ~BulkWrite(c) => power'[a].block >= power[a].block
<1>0. power \in [Accounts -> Records] /\ power[a] \in Records
  BY DEF TypeInv, TypeOK
<1>1. power[a].block >= power[a].block
  BY <1>0 DEF Records, NoPower
<1>2. CASE ~WritesPower(c)
  BY <1>1, <1>2, PowerStays
<1>3. CASE GuessBalance(c) \/ CreateMember(c)
  <2>1. power' = power \/ power' = [power EXCEPT ![Event(c).who] = Known(Event(c).who)]
    BY <1>3 DEF GuessBalance, CreateMember
  <2>2. CASE power'[a] = power[a]
    BY <1>1, <2>2
  <2>3. CASE power'[a] = Known(a)
    BY <2>3, KnownType
  <2> QED
    BY <1>0, <2>1, <2>2, <2>3
<1>4. CASE UpdatePower(c)
  <2> DEFINE v == IF Event(c).kind = "VotesChanged" THEN Event(c).total ELSE value[c]
  <2>1. Event(c).total \in Nat /\ Event(c).block \in Nat \ {0} /\ value[c] \in Nat
    BY <1>4, EventType DEF UpdatePower, TypeInv, TypeOK
  <2>2. v \in Nat
    BY <2>1
  <2>3. power' = [power EXCEPT ![Event(c).who] = Stamped(@, v, Event(c).block)]
    BY <1>4 DEF UpdatePower
  <2>4. CASE power'[a] = power[a]
    BY ONLY <1>1, <2>4
  <2>5. CASE power'[a] = Stamped(power[a], v, Event(c).block)
    <3> HIDE DEF v
    <3> QED
      BY <1>0, <2>1, <2>2, <2>5, StampedType
  <2> QED
    BY <1>0, <2>3, <2>4, <2>5
<1>5. CASE BulkWrite(c)
  <2>1. \A n \in batch[c] : history[n].block \in Nat
    BY EventAt DEF Events, TypeInv, TypeOK
  <2>2. power'[a] = power[a] \/ \E n \in batch[c] :
          power'[a] = [vp |-> history[n].total, block |-> history[n].block]
    BY <1>5, BatchWrites
  <2>3. CASE power'[a] = power[a]
    BY <1>5, <2>3
  <2>4. CASE \E n \in batch[c] : power'[a] = [vp |-> history[n].total, block |-> history[n].block]
    <3>1. PICK n \in batch[c] : power'[a] = [vp |-> history[n].total, block |-> history[n].block]
      BY <2>4
    <3>2. power'[a].block \in Nat /\ NoPower.block \notin Nat
      BY <2>1, <3>1 DEF NoPower
    <3> QED
      BY <1>5, <3>2
  <2> QED
    BY <2>2, <2>3, <2>4
<1>6. CASE Fallback(c)
  <2>1. power' = power \/ \E n \in batch[c] :
          power' = [power EXCEPT ![history[n].who] = Stamped(@, history[n].total, history[n].block)]
    BY <1>6 DEF Fallback
  <2>2. CASE power'[a] = power[a]
    BY <1>1, <2>2
  <2>3. CASE \E n \in batch[c] : power'[a] = Stamped(power[a], history[n].total, history[n].block)
    <3>1. PICK n \in batch[c] : power'[a] = Stamped(power[a], history[n].total, history[n].block)
      BY <2>3
    <3>2. history[n].total \in Nat /\ history[n].block \in Nat \ {0}
      BY EventAt DEF Events, TypeInv, TypeOK
    <3> QED
      BY <1>0, <3>1, <3>2, StampedType
  <2> QED
    BY <1>0, <2>1, <2>2, <2>3
<1> QED
  BY <1>2, <1>3, <1>4, <1>5, <1>6 DEF WritesPower

\* The stored power of a member never goes back to an earlier block, whichever
\* crawlers handle which events again, except where a job writes a range.
THEOREM PowerNeverBack == Spec => NeverBack
<1> DEFINE Forward == \A a \in Accounts :
             \/ power'[a].block >= power[a].block
             \/ \E c \in Jobs : pc[c] = "bulk" /\ pc'[c] = "metrics"
<1>1. ASSUME TypeInv, [Next]_vars PROVE [Forward]_vars
  <2>1. CASE UNCHANGED vars
    BY <2>1
  <2>2. CASE Emit
    <3>1. \A a \in Accounts : power[a] \in Records /\ power'[a] = power[a]
      BY <1>1, <2>2 DEF Emit, records, TypeInv, TypeOK
    <3> QED
      BY <3>1 DEF Records, NoPower
  <2>3. ASSUME NEW c \in Crawlers, StepOf(c) PROVE Forward
    <3>1. CASE BulkWrite(c)
      <4>1. Batched(c) /\ pc[c] = "bulk"
        BY <1>1, <3>1 DEF BulkWrite, TypeInv, PlacesFit
      <4>2. pc'[c] = "metrics"
        BY <1>1, <3>1 DEF BulkWrite, Goto, TypeInv, TypeOK
      <4> QED
        BY <4>1, <4>2 DEF Batched
    <3>2. CASE ~BulkWrite(c)
      BY <1>1, <2>3, <3>2, PowerForward
    <3> QED
      BY <3>1, <3>2
  <2> QED
    BY <1>1, <2>1, <2>2, <2>3 DEF Next, StepOf
<1>2. TypeInv /\ [Next]_vars => [Forward]_vars
  BY <1>1
<1> QED
  BY <1>2, AlwaysTypeInv, PTL DEF Spec, NeverBack

-----------------------------------------------------------------------------
(* The message for the metrics *)

\* What is known of a handler at work.
AtWork(c) ==
  /\ c \in begun /\ upto[c] <= reached
  /\ Batched(c) => pc[c] \in {"bulk", "metrics", "fallback", "message"}
  /\ ~Batched(c) => upto[c] = pos[c]

WorkInv == \A c \in Crawlers : pc[c] # "idle" => AtWork(c)

\* A crawler has still to handle event m, which ends with the message: an
\* unlocking does where there is a record.
Asked(c, m) ==
  /\ c \in begun /\ m \in pos[c] .. reached /\ Asks(history[m].kind)
  /\ history[m].kind = "Unlocked" => power[history[m].who] # NoPower

WillAsk == dirty /\ ~silent => \E c \in Crawlers : \E m \in 1 .. head : Asked(c, m)

AskInv == TypeInv /\ WorkInv /\ WillAsk

LEMMA InitAskInv == Init => AskInv
<1> SUFFICES ASSUME Init PROVE AskInv
  OBVIOUS
<1>1. TypeInv
  BY InitTypeInv
<1>2. WorkInv
  BY DEF Init, WorkInv
<1>3. WillAsk
  BY DEF Init, WillAsk
<1> QED
  BY <1>1, <1>2, <1>3 DEF AskInv

\* What a step of one crawler leaves of the others, and of what was handled.
Apart(c) ==
  /\ \A d \in Crawlers : d # c => pc'[d] = pc[d] /\ pos'[d] = pos[d] /\ upto'[d] = upto[d]
  /\ reached' >= reached /\ reached' \in Nat /\ begun \subseteq begun'
  /\ UNCHANGED <<history, head>>

\* Steps other than these leave alone which events were given to a handler.
Starts(c) == Receive(c) \/ ReceiveRange(c)

LEMMA OthersStay ==
  ASSUME TypeInv, NEW c \in Crawlers, StepOf(c)
  PROVE  /\ UNCHANGED <<history, head>>
         /\ ~Starts(c) => UNCHANGED <<reached, begun>>
         /\ (\E place : Goto(c, place)) \/ Done(c) \/ Starts(c) \/ Redeliver(c)
<1>1. CASE Receive(c) \/ ReceiveRange(c) \/ AskMetrics(c)
  BY <1>1 DEF Receive, ReceiveRange, Begin, AskMetrics, Starts
<1>2. CASE PowerStep(c)
  BY <1>2 DEF PowerStep, ReadBalance, GuessBalance, CreateMember, UpdatePower, BulkWrite, BulkMetrics,
              Fallback
<1>3. CASE LockStep(c)
  BY <1>3 DEF LockStep, CreateLock, DelegateLock, FindLock, WriteLock
<1>4. CASE ListStep(c)
  BY <1>4 DEF ListStep, FindMember, AddMember, RemoveMember
<1>5. CASE Crash(c) \/ HandlerFails(c) \/ Redeliver(c)
  BY <1>5 DEF Crash, HandlerFails, Redeliver
<1> QED
  BY <1>1, <1>2, <1>3, <1>4, <1>5 DEF StepOf

LEMMA StepApart ==
  ASSUME TypeInv, NEW c \in Crawlers, StepOf(c)
  PROVE  Apart(c)
<1>0. UNCHANGED <<history, head>> /\ reached \in Nat
  BY OthersStay DEF TypeInv, TypeOK
<1>1. CASE Starts(c)
  <2>1. PICK last \in pos[c] .. head : \E place : Begin(c, last, place)
    <3>1. CASE Receive(c)
      <4>1. pos[c] \in pos[c] .. head
        BY <3>1, EventType DEF Receive
      <4> QED
        BY <3>1, <4>1 DEF Receive
    <3>2. CASE ReceiveRange(c)
      BY <3>2 DEF ReceiveRange
    <3> QED
      BY <1>1, <3>1, <3>2 DEF Starts
  <2>2. last \in Nat
    BY DEF TypeInv, TypeOK
  <2> QED
    BY <1>0, <2>1, <2>2 DEF Apart, Begin, TypeInv, TypeOK
<1>2. CASE ~Starts(c)
  <2>1. UNCHANGED <<reached, begun>>
    BY <1>2, OthersStay
  <2>2. (\E place : Goto(c, place)) \/ Done(c) \/ Redeliver(c)
    BY <1>2, OthersStay
  <2> QED
    BY <1>0, <2>1, <2>2 DEF Apart, Goto, Done, Redeliver, TypeInv, TypeOK
<1> QED
  BY <1>1, <1>2

\* The crawler's own part of WorkInv.
LEMMA GoesOn ==
  ASSUME TypeInv, WorkInv, NEW c \in Crawlers, Apart(c), pc[c] # "idle", NEW place, Goto(c, place),
         Batched(c) => place \in {"bulk", "metrics", "fallback", "message"}
  PROVE  pc'[c] # "idle" => AtWork(c)'
<1>1. AtWork(c) /\ pc'[c] = place /\ pos'[c] = pos[c] /\ upto'[c] = upto[c]
  BY DEF WorkInv, Goto, TypeInv, TypeOK
<1>2. Batched(c)' = Batched(c) /\ history' = history
  BY <1>1 DEF Batched, Event, Apart
<1>3. upto'[c] <= reached'
  BY <1>1 DEF AtWork, Apart, TypeInv, TypeOK
<1> QED
  BY <1>1, <1>2, <1>3 DEF AtWork, Apart

LEMMA Stops ==
  ASSUME TypeInv, NEW c \in Crawlers, Done(c) \/ Redeliver(c) \/ Crash(c)
  PROVE  pc'[c] = "idle"
BY DEF Done, Redeliver, Crash, Goto, TypeInv, TypeOK

LEMMA OwnWork ==
  ASSUME TypeInv, WorkInv, NEW c \in Crawlers, StepOf(c)
  PROVE  pc'[c] # "idle" => AtWork(c)'
<1>0. Apart(c)
  BY StepApart
<1>1. CASE Receive(c)
  <2>1. /\ pc'[c] # "idle" => upto'[c] = pos[c] /\ pos' = pos /\ ~Batched(c) /\ c \in begun'
        /\ reached' >= pos[c]
    BY <1>1, EventType DEF Receive, Begin, TypeInv, TypeOK
  <2> QED
    BY <1>0, <2>1 DEF AtWork, Apart, Batched, Event
<1>2. CASE ReceiveRange(c)
  <2>1. PICK to \in pos[c] .. head : Begin(c, to, "bulk")
    BY <1>2 DEF ReceiveRange
  <2>2. /\ upto'[c] = to /\ pos' = pos /\ Batched(c) /\ c \in begun' /\ reached' >= to
        /\ pc'[c] = "bulk"
    BY <1>2, <2>1 DEF ReceiveRange, Begin, TypeInv, TypeOK
  <2> QED
    BY <1>0, <2>2 DEF AtWork, Apart, Batched, Event, TypeInv, TypeOK
<1>3. CASE AskMetrics(c)
  BY <1>3, Stops DEF AskMetrics
<1>4. CASE PowerStep(c)
  <2>1. CASE ReadBalance(c) \/ GuessBalance(c) \/ CreateMember(c)
    <3>1. pc[c] # "idle" /\ ~Batched(c)
      BY <2>1 DEF ReadBalance, GuessBalance, CreateMember, Batched, TypeInv, PlacesFit
    <3>2. (\E place : Goto(c, place)) \/ Done(c)
      BY <2>1 DEF ReadBalance, GuessBalance, CreateMember
    <3> QED
      BY <1>0, <3>1, <3>2, GoesOn, Stops
  <2>2. CASE UpdatePower(c)
    BY <1>0, <2>2, GoesOn DEF UpdatePower
  <2>3. CASE BulkWrite(c) \/ BulkMetrics(c)
    <3>1. pc[c] # "idle" /\ \E place \in {"metrics", "message", "fallback"} : Goto(c, place)
      BY <2>3 DEF BulkWrite, BulkMetrics
    <3> QED
      BY <1>0, <3>1, GoesOn
  <2>4. CASE Fallback(c)
    <3>1. pc[c] # "idle" /\ (Goto(c, "fallback") \/ Done(c))
      BY <2>4 DEF Fallback
    <3> QED
      BY <1>0, <3>1, GoesOn, Stops
  <2> QED
    BY <1>4, <2>1, <2>2, <2>3, <2>4 DEF PowerStep
<1>5. CASE LockStep(c)
  <2>1. pc[c] # "idle" /\ ~Batched(c)
    BY <1>5 DEF LockStep, CreateLock, DelegateLock, FindLock, WriteLock, Batched
  <2>2. (\E place : Goto(c, place)) \/ Done(c)
    BY <1>5 DEF LockStep, CreateLock, DelegateLock, FindLock, WriteLock
  <2> QED
    BY <1>0, <2>1, <2>2, GoesOn, Stops
<1>6. CASE ListStep(c)
  <2>1. pc[c] # "idle" /\ ~Batched(c)
    BY <1>6 DEF ListStep, FindMember, AddMember, RemoveMember, Batched
  <2>2. \E place : Goto(c, place)
    BY <1>6 DEF ListStep, FindMember, AddMember, RemoveMember
  <2> QED
    BY <1>0, <2>1, <2>2, GoesOn
<1>7. CASE HandlerFails(c)
  BY <1>0, <1>7, GoesOn, Stops DEF HandlerFails
<1>8. CASE Crash(c) \/ Redeliver(c)
  BY <1>8, Stops
<1> QED
  BY <1>1, <1>2, <1>3, <1>4, <1>5, <1>6, <1>7, <1>8 DEF StepOf

LEMMA StepWork ==
  ASSUME TypeInv, WorkInv, NEW c \in Crawlers, StepOf(c)
  PROVE  WorkInv'
<1>1. Apart(c)
  BY StepApart
<1>2. ASSUME NEW d \in Crawlers, d # c, pc'[d] # "idle" PROVE AtWork(d)'
  <2>1. AtWork(d) /\ Batched(d)' = Batched(d)
    BY <1>1, <1>2 DEF WorkInv, Apart, Batched, Event
  <2>2. upto'[d] <= reached'
    BY <1>1, <1>2, <2>1 DEF Apart, AtWork, TypeInv, TypeOK
  <2> QED
    BY <1>1, <1>2, <2>1, <2>2 DEF Apart, AtWork
<1> QED
  BY <1>2, OwnWork DEF WorkInv

\* The handler of the event ends, or would end, with the message.
AsksNow(c) ==
  /\ Asks(Event(c).kind)
  /\ Event(c).kind = "Unlocked" => power[Event(c).who] # NoPower

\* A step that leaves no event that asks behind.
LEMMA StillAsked ==
  ASSUME TypeInv, NEW c \in Crawlers, StepOf(c), Apart(c), WillAsk, dirty, ~silent,
         \/ pos'[c] <= pos[c]
         \/ pos'[c] = pos[c] + 1 /\ ~AsksNow(c)
  PROVE  \E d \in Crawlers : \E m \in 1 .. head' : Asked(d, m)'
<1>1. PICK d \in Crawlers : \E m \in 1 .. head : Asked(d, m)
  BY DEF WillAsk
<1>2. PICK m \in 1 .. head : Asked(d, m)
  BY <1>1
<1>3. /\ m \in Nat /\ reached \in Nat /\ reached' \in Nat /\ reached <= reached'
      /\ pos[d] \in Nat /\ pos[c] \in Nat
  BY DEF Apart, TypeInv, TypeOK
<1>4. m <= reached' /\ pos[d] <= m
  BY <1>2, <1>3 DEF Asked
<1>5. history'[m].kind = "Unlocked" => power'[history'[m].who] # NoPower
  <2>1. history' = history /\ NoPower' = NoPower
    BY DEF Apart, NoPower
  <2>2. history[m].kind = "Unlocked" => history[m].who \in Accounts
    BY EventAt DEF PowerKinds
  <2> QED
    BY <1>2, <2>1, <2>2, PowerForward DEF Asked
<1>6. d \in begun' /\ Asks(history'[m].kind) /\ m \in 1 .. head'
  BY <1>2 DEF Asked, Apart
<1>7. pos'[d] \in Int /\ pos'[c] \in Int
  <2>1. TypeInv'
    BY StepTypeInv DEF Next, StepOf
  <2> QED
    BY <2>1 DEF TypeInv, TypeOK
<1>8. CASE pos'[d] <= m
  <2>1. m \in pos'[d] .. reached'
    BY <1>3, <1>4, <1>8, <1>7
  <2> QED
    BY <1>5, <1>6, <2>1 DEF Asked
<1>9. CASE ~(pos'[d] <= m)
  <2>1. d = c
    BY <1>3, <1>4, <1>9 DEF Apart
  <2>2. pos'[c] = pos[c] + 1 /\ ~AsksNow(c)
    <3>1. CASE pos'[c] <= pos[c]
      BY <1>3, <1>4, <1>9, <1>7, <2>1, <3>1
    <3> QED
      BY <3>1
  <2>3. m = pos[c]
    BY <1>3, <1>4, <1>9, <2>1, <2>2
  <2>4. AsksNow(c)
    BY <1>2, <2>1, <2>3 DEF Asked, AsksNow, Event
  <2> QED
    BY <2>2, <2>4
<1> QED
  BY <1>8, <1>9

\* After a write the event at work is one that asks.
LEMMA NowAsked ==
  ASSUME TypeInv, WorkInv, NEW c \in Crawlers, Apart(c), pc[c] # "idle", pos'[c] = pos[c],
         Asks(Event(c).kind),
         Event(c).kind = "Unlocked" => power'[Event(c).who] # NoPower
  PROVE  \E d \in Crawlers : \E m \in 1 .. head' : Asked(d, m)'
<1> DEFINE n == pos[c]
<1>1. n \in 1 .. head /\ history[n] = Event(c)
  BY EventType DEF Event
<1>2. c \in begun /\ n <= upto[c] /\ upto[c] <= reached
  BY DEF WorkInv, AtWork, TypeInv, TypeOK
<1>3. n \in pos'[c] .. reached'
  BY <1>1, <1>2 DEF Apart, TypeInv, TypeOK
<1>4. /\ history'[n].kind = Event(c).kind /\ history'[n].who = Event(c).who /\ NoPower' = NoPower
      /\ c \in begun' /\ n \in 1 .. head'
  BY <1>1, <1>2 DEF Apart, NoPower
<1> HIDE DEF n
<1>5. \E m \in 1 .. head' : Asked(c, m)'
  <2>1. PICK m \in 1 .. head' : m = n
    BY <1>4
  <2>2. Asked(c, m)'
    BY <1>3, <1>4, <2>1 DEF Asked
  <2> QED
    BY <2>2
<1> QED
  BY <1>5

LEMMA StepWillAsk ==
  ASSUME AskInv, NEW c \in Crawlers, StepOf(c)
  PROVE  WillAsk'
<1> SUFFICES ASSUME dirty', ~silent' PROVE \E d \in Crawlers : \E m \in 1 .. head' : Asked(d, m)'
  BY DEF WillAsk
<1>0. TypeInv /\ WorkInv /\ WillAsk /\ Apart(c)
  BY StepApart DEF AskInv
<1>1. \A k : k \in {"VotesChanged", "Locked", "Unlocked", "Added", "Removed", "Delegated", "Undelegated"}
              => Asks(k)
  BY DEF Asks, PowerKinds, ListKinds
<1>2. ASSUME pc[c] # "idle", NEW place, Goto(c, place) PROVE pos'[c] = pos[c] /\ pos'[c] <= pos[c]
  BY <1>0, <1>2 DEF Goto, TypeInv, TypeOK
<1>3. ASSUME pc[c] # "idle", ~Batched(c), Done(c) PROVE pos'[c] = pos[c] + 1
  BY <1>0, <1>3 DEF Done, WorkInv, AtWork, TypeInv, TypeOK
<1>4. CASE Starts(c)
  <2>1. UNCHANGED <<dirty, silent, pos>>
    BY <1>4 DEF Starts, Receive, ReceiveRange, Begin, ghosts
  <2>2. pos'[c] <= pos[c]
    BY <1>0, <2>1 DEF TypeInv, TypeOK
  <2> QED
    BY <1>0, <2>1, <2>2, StillAsked
<1>5. CASE AskMetrics(c)
  BY <1>5 DEF AskMetrics
<1>6. CASE ReadBalance(c) \/ CreateMember(c) \/ BulkMetrics(c) \/ FindMember(c) \/ Crash(c)
  <2>1. pc[c] # "idle" /\ UNCHANGED <<dirty, silent>> /\ \E place : Goto(c, place)
    BY <1>6 DEF ReadBalance, CreateMember, BulkMetrics, FindMember, Crash, ghosts
  <2> QED
    BY <1>0, <1>2, <2>1, StillAsked
<1>7. CASE GuessBalance(c)
  <2>1. pc[c] # "idle" /\ UNCHANGED <<dirty, silent>> /\ ~Batched(c)
    BY <1>0, <1>7 DEF GuessBalance, ghosts, Batched, TypeInv, PlacesFit
  <2>2. (\E place : Goto(c, place)) \/ (Done(c) /\ ~AsksNow(c))
    BY <1>7 DEF GuessBalance, AsksNow
  <2> QED
    BY <1>0, <1>2, <1>3, <2>1, <2>2, StillAsked
<1>8. CASE UpdatePower(c)
  <2>1. /\ pc[c] # "idle" /\ Goto(c, "message") /\ Event(c).kind \in PowerKinds
    BY <1>8 DEF UpdatePower
  <2>2. pos'[c] = pos[c] /\ Asks(Event(c).kind)
    BY <1>2, <2>1 DEF Asks
  <2>3. power'[Event(c).who] # NoPower
    <3> DEFINE v == IF Event(c).kind = "VotesChanged" THEN Event(c).total ELSE value[c]
    <3>1. /\ Event(c).who \in Accounts /\ Event(c).total \in Nat /\ Event(c).block \in Nat \ {0}
          /\ value[c] \in Nat /\ power[Event(c).who] \in Records
      BY <1>0, <2>1, EventType DEF TypeInv, TypeOK
    <3>2. v \in Nat
      BY <3>1
    <3>3. power'[Event(c).who] = Stamped(power[Event(c).who], v, Event(c).block)
      BY <1>0, <1>8, <3>1 DEF UpdatePower, TypeInv, TypeOK
    <3> HIDE DEF v
    <3> QED
      BY <3>1, <3>2, <3>3, StampedType
  <2> QED
    BY <1>0, <2>1, <2>2, <2>3, NowAsked
<1>9. CASE BulkWrite(c)
  <2>1. pc[c] # "idle" /\ Goto(c, "metrics") /\ Event(c).kind = "VotesChanged"
    BY <1>0, <1>9 DEF BulkWrite, TypeInv, PlacesFit, Batched
  <2> QED
    BY <1>0, <1>1, <1>2, <2>1, NowAsked
<1>10. CASE Fallback(c)
  <2>1. pc[c] # "idle" /\ Event(c).kind = "VotesChanged" /\ (Goto(c, "fallback") \/ silent')
    BY <1>0, <1>10 DEF Fallback, TypeInv, PlacesFit, Batched
  <2> QED
    BY <1>0, <1>1, <1>2, <2>1, NowAsked
<1>11. CASE CreateLock(c) \/ FindLock(c) \/ WriteLock(c)
  <2>1. /\ pc[c] # "idle" /\ UNCHANGED <<dirty, silent>>
        /\ Event(c).kind \in {"Deposit", "ExitQueued", "Withdraw"}
        /\ (\E place : Goto(c, place)) \/ Done(c)
    BY <1>11 DEF CreateLock, FindLock, WriteLock, ghosts
  <2>2. ~Batched(c) /\ ~AsksNow(c)
    BY <2>1 DEF Batched, AsksNow, Asks, PowerKinds, ListKinds
  <2> QED
    BY <1>0, <1>2, <1>3, <2>1, <2>2, StillAsked
<1>12. CASE DelegateLock(c) \/ AddMember(c) \/ RemoveMember(c)
  <2>1. /\ pc[c] # "idle" /\ Goto(c, "message")
        /\ Event(c).kind \in {"Delegated", "Undelegated", "Added", "Removed"}
    BY <1>12 DEF DelegateLock, AddMember, RemoveMember
  <2> QED
    BY <1>0, <1>1, <1>2, <2>1, NowAsked
<1>13. CASE HandlerFails(c)
  <2>1. pc[c] # "idle" /\ UNCHANGED dirty /\ Goto(c, "message") /\ UNCHANGED silent
    BY <1>13 DEF HandlerFails
  <2> QED
    BY <1>0, <1>2, <2>1, StillAsked
<1>14. CASE Redeliver(c)
  <2>1. UNCHANGED <<dirty, silent>>
    BY <1>14 DEF Redeliver, ghosts
  <2>2. pos'[c] <= pos[c]
    BY <1>0, <1>14 DEF Redeliver, TypeInv, TypeOK
  <2> QED
    BY <1>0, <2>1, <2>2, StillAsked
<1> QED
  BY <1>4, <1>5, <1>6, <1>7, <1>8, <1>9, <1>10, <1>11, <1>12, <1>13, <1>14
     DEF StepOf, Starts, PowerStep, LockStep, ListStep

LEMMA EmitAskInv ==
  ASSUME AskInv, Emit
  PROVE  AskInv'
<1>1. UNCHANGED <<history, power, dirty, pos, upto, pc, reached, begun, silent>>
  BY DEF Emit, records, ghosts
<1>2. TypeInv'
  BY EmitTypeInv DEF AskInv
<1>3. WorkInv'
  BY <1>1 DEF AskInv, WorkInv, AtWork, Batched, Event
<1>4. WillAsk'
  <2>1. head \in Nat /\ head' \in Nat /\ head < head'
    BY DEF AskInv, TypeInv, TypeOK, Emit
  <2>2. 1 .. head \subseteq 1 .. head'
    BY <2>1, Wider
  <2> QED
    BY <1>1, <2>2 DEF AskInv, WillAsk, Asked, NoPower
<1> QED
  BY <1>2, <1>3, <1>4 DEF AskInv

LEMMA StepAskInv ==
  ASSUME AskInv, [Next]_vars
  PROVE  AskInv'
<1>1. TypeInv'
  BY StepTypeInv DEF AskInv
<1>2. CASE UNCHANGED vars
  <2>1. WorkInv' /\ WillAsk'
    BY <1>2 DEF vars, records, ghosts, AskInv, WorkInv, AtWork, Batched, Event, WillAsk, Asked, NoPower
  <2> QED
    BY <1>1, <2>1 DEF AskInv
<1>3. CASE Emit
  BY <1>3, EmitAskInv
<1>4. ASSUME NEW c \in Crawlers, StepOf(c) PROVE AskInv'
  BY <1>1, <1>4, StepWork, StepWillAsk DEF AskInv
<1> QED
  BY <1>2, <1>3, <1>4 DEF Next, StepOf

LEMMA AskedAtTheEnd == AskInv => MetricsAsked
<1> SUFFICES ASSUME AskInv, AllThrough, ~silent, dirty PROVE FALSE
  BY DEF MetricsAsked
<1>1. PICK c \in Crawlers : \E m \in 1 .. head : Asked(c, m)
  BY DEF AskInv, WillAsk
<1>2. PICK m \in 1 .. head : Asked(c, m)
  BY <1>1
<1>3. c \in begun /\ m \in pos[c] .. reached
  BY <1>2 DEF Asked
<1>4. pos[c] > reached
  BY <1>3 DEF AllThrough, Through
<1> QED
  BY <1>3, <1>4 DEF AskInv, TypeInv, TypeOK

\* When the crawlers are through with the events, no change of the members is
\* without the message that makes the metrics be computed anew, whatever
\* crashes, faults and repetitions came between, unless a handler ended
\* without its message.
THEOREM MetricsAlwaysAsked == Spec => []MetricsAsked
BY InitAskInv, StepAskInv, AskedAtTheEnd, PTL DEF Spec

-----------------------------------------------------------------------------
(* What a crawler has still to write *)

\* No crawler is further than one event behind those that were given to handlers.
ReachInv ==
  \A c \in Crawlers : pos[c] <= reached + 1 /\ (pos[c] > 1 => c \in begun)

GivenInv == TypeInv /\ WorkInv /\ ReachInv

\* The handler at work has written what it has to of event m, or of the range
\* m is in.
Wrote(c, m) == pc[c] \in {"metrics", "fallback", "message"} /\ m <= upto[c]

\* Crawler c has still to write event m.
Owes(c, m) == c \in begun /\ m \in pos[c] .. reached /\ ~Wrote(c, m)

\* In this step it does, or leaves it.
Settles(c, m) ==
  pc[c] # "idle" /\ m \in pos[c] .. upto[c] /\ (pc'[c] \in {"metrics", "fallback", "message"} \/ Done(c))

LEMMA AtWorkUnless ==
  ASSUME TypeInv, NEW c \in Crawlers, StepOf(c)
  PROVE  \/ Starts(c) /\ pc[c] = "idle"
         \/ Redeliver(c) /\ pc[c] = "idle"
         \/ ~Starts(c) /\ pc[c] # "idle" /\ ((\E place : Goto(c, place)) \/ Done(c))
<1>1. CASE Receive(c) \/ ReceiveRange(c) \/ Redeliver(c)
  BY <1>1 DEF Receive, ReceiveRange, Begin, Starts, Redeliver
<1>2. CASE AskMetrics(c) \/ PowerStep(c) \/ LockStep(c) \/ ListStep(c) \/ Crash(c) \/ HandlerFails(c)
  <2>1. pc[c] # "idle"
    BY <1>2 DEF AskMetrics, PowerStep, LockStep, ListStep, Crash, HandlerFails, ReadBalance,
                GuessBalance, CreateMember, UpdatePower, BulkWrite, BulkMetrics, Fallback, CreateLock,
                DelegateLock, FindLock, WriteLock, FindMember, AddMember, RemoveMember
  <2>2. ~Starts(c) /\ ~Redeliver(c)
    BY <2>1 DEF Starts, Receive, ReceiveRange, Begin, Redeliver
  <2> QED
    BY <2>1, <2>2, OthersStay
<1> QED
  BY <1>1, <1>2 DEF StepOf

LEMMA Begins ==
  ASSUME TypeInv, NEW c \in Crawlers, Starts(c)
  PROVE  \E last \in pos[c] .. head : \E place \in {"read", "find", "update", "bulk"} :
           Begin(c, last, place)
<1>1. CASE Receive(c)
  <2>1. pos[c] \in pos[c] .. head
    BY <1>1, EventType DEF Receive
  <2> QED
    BY <1>1, <2>1 DEF Receive
<1>2. CASE ReceiveRange(c)
  BY <1>2 DEF ReceiveRange
<1> QED
  BY <1>1, <1>2 DEF Starts

\* Where a step that does not begin with an event leaves its crawler.
LEMMA Leaves ==
  ASSUME TypeInv, WorkInv, NEW c \in Crawlers, StepOf(c), pc[c] # "idle"
  PROVE  /\ UNCHANGED <<reached, begun>> /\ c \in begun /\ upto[c] <= reached /\ pos[c] <= upto[c]
         /\ \/ pos'[c] = pos[c] /\ upto'[c] = upto[c]
            \/ Done(c) /\ pos'[c] = upto[c] + 1 /\ pc'[c] = "idle"
<1>1. ~Starts(c) /\ ((\E place : Goto(c, place)) \/ Done(c))
  BY AtWorkUnless
<1>2. UNCHANGED <<reached, begun>>
  BY <1>1, OthersStay
<1>3. c \in begun /\ upto[c] <= reached /\ pos[c] <= upto[c]
  BY DEF WorkInv, AtWork, TypeInv, TypeOK
<1>4. CASE \E place : Goto(c, place)
  BY <1>2, <1>3, <1>4 DEF Goto
<1>5. CASE Done(c)
  BY <1>2, <1>3, <1>5, DoneMoves
<1> QED
  BY <1>1, <1>4, <1>5

LEMMA StepReach ==
  ASSUME GivenInv, NEW c \in Crawlers, StepOf(c)
  PROVE  ReachInv'
<1>0. Apart(c) /\ TypeInv /\ WorkInv /\ ReachInv
  BY StepApart DEF GivenInv
<1>1. \A d \in Crawlers : pos[d] \in Nat /\ upto[d] \in Nat /\ reached \in Nat /\ reached' \in Nat
  BY <1>0 DEF TypeInv, TypeOK, Apart
<1>2. ASSUME NEW d \in Crawlers, d # c PROVE pos'[d] <= reached' + 1 /\ (pos'[d] > 1 => d \in begun')
  BY <1>0, <1>1, <1>2 DEF Apart, ReachInv
<1>3. pos'[c] <= reached' + 1 /\ (pos'[c] > 1 => c \in begun')
  <2>1. CASE Starts(c)
    <3>1. pos' = pos
      BY <2>1 DEF Starts, Receive, ReceiveRange, Begin
    <3> QED
      BY <1>0, <1>1, <3>1 DEF Apart, ReachInv
  <2>2. CASE Redeliver(c)
    <3>1. PICK n \in 1 .. (pos[c] - 1) : pos'[c] = n
      BY <1>0, <2>2 DEF Redeliver, TypeInv, TypeOK
    <3>2. UNCHANGED <<reached, begun>>
      BY <2>2 DEF Redeliver
    <3> QED
      BY <1>0, <1>1, <3>1, <3>2 DEF ReachInv
  <2>3. CASE pc[c] # "idle"
    <3>1. UNCHANGED <<reached, begun>> /\ c \in begun /\ upto[c] <= reached
          /\ (pos'[c] = pos[c] \/ pos'[c] = upto[c] + 1)
      BY <1>0, <2>3, Leaves
    <3> QED
      BY <1>0, <1>1, <3>1 DEF ReachInv
  <2> QED
    BY <1>0, <2>1, <2>2, <2>3, AtWorkUnless
<1> QED
  BY <1>2, <1>3 DEF ReachInv

\* What is owed stays owed, unless it is settled.
LEMMA OwesStays ==
  ASSUME GivenInv, NEW c \in Crawlers, StepOf(c), NEW d \in Crawlers, NEW m \in Nat, Owes(d, m),
         ~(d = c /\ Settles(c, m))
  PROVE  Owes(d, m)'
<1>0. Apart(c) /\ TypeInv /\ WorkInv /\ ReachInv
  BY StepApart DEF GivenInv
<1>1. /\ pos[d] \in Nat /\ upto[d] \in Nat /\ reached \in Nat /\ reached' \in Nat /\ reached <= reached'
      /\ pos[d] <= m /\ m <= reached /\ d \in begun'
  BY <1>0 DEF TypeInv, TypeOK, Apart, Owes
<1>2. CASE d # c
  <2>1. pc'[d] = pc[d] /\ pos'[d] = pos[d] /\ upto'[d] = upto[d]
    BY <1>0, <1>2 DEF Apart
  <2>2. ~Wrote(d, m)'
    BY <2>1 DEF Owes, Wrote
  <2> QED
    BY <1>1, <2>1, <2>2 DEF Owes
<1>3. CASE d = c /\ Starts(c)
  <2>1. PICK last \in pos[c] .. head : \E place \in {"read", "find", "update", "bulk"} :
          Begin(c, last, place)
    BY <1>0, <1>3, Begins
  <2>2. pos'[c] = pos[c] /\ pc'[c] \in {"read", "find", "update", "bulk"}
    BY <1>0, <2>1 DEF Begin, TypeInv, TypeOK
  <2> QED
    BY <1>1, <1>3, <2>2 DEF Owes, Wrote
<1>4. CASE d = c /\ Redeliver(c)
  <2>1. PICK n \in 1 .. (pos[c] - 1) : pos'[c] = n
    BY <1>0, <1>4 DEF Redeliver, TypeInv, TypeOK
  <2>2. pc'[c] = "idle" /\ n \in Nat /\ n <= m
    BY <1>0, <1>1, <1>4, <2>1 DEF Redeliver, TypeInv, TypeOK
  <2> QED
    BY <1>1, <1>4, <2>1, <2>2 DEF Owes, Wrote
<1>5. CASE d = c /\ pc[c] # "idle"
  <2>1. \/ pos'[c] = pos[c] /\ upto'[c] = upto[c]
        \/ Done(c) /\ pos'[c] = upto[c] + 1 /\ pc'[c] = "idle"
    BY <1>0, <1>5, Leaves
  <2>2. CASE pos'[c] = pos[c] /\ upto'[c] = upto[c]
    <3>1. ~Wrote(c, m)'
      BY <1>1, <1>5, <2>2 DEF Wrote, Settles
    <3> QED
      BY <1>1, <1>5, <2>2, <3>1 DEF Owes
  <2>3. CASE Done(c) /\ pos'[c] = upto[c] + 1 /\ pc'[c] = "idle"
    <3>1. ~(m <= upto[c])
      BY <1>1, <1>5, <2>3 DEF Settles
    <3> QED
      BY <1>1, <1>5, <2>3, <3>1 DEF Owes, Wrote
  <2> QED
    BY <2>1, <2>2, <2>3
<1> QED
  BY <1>0, <1>2, <1>3, <1>4, <1>5, AtWorkUnless

\* An event that no handler was given before is owed by the crawler that begins.
LEMMA OwesNew ==
  ASSUME GivenInv, NEW c \in Crawlers, StepOf(c), NEW m \in 1 .. reached', m > reached
  PROVE  Owes(c, m)'
<1>0. Apart(c) /\ TypeInv /\ WorkInv /\ ReachInv
  BY StepApart DEF GivenInv
<1>1. pos[c] \in Nat /\ reached \in Nat /\ reached' \in Nat /\ m \in Nat
  BY <1>0 DEF TypeInv, TypeOK, Apart
<1>2. Starts(c)
  BY <1>0, <1>1, OthersStay
<1>3. PICK last \in pos[c] .. head : \E place \in {"read", "find", "update", "bulk"} :
        Begin(c, last, place)
  BY <1>0, <1>2, Begins
<1>4. pos'[c] = pos[c] /\ pc'[c] \in {"read", "find", "update", "bulk"} /\ c \in begun'
  BY <1>0, <1>3 DEF Begin, TypeInv, TypeOK
<1>5. pos[c] <= m
  BY <1>0, <1>1 DEF ReachInv
<1> QED
  BY <1>1, <1>4, <1>5 DEF Owes, Wrote

\* When a crawler is through it owes nothing.
LEMMA ThroughOwesNothing ==
  ASSUME TypeInv, NEW c \in Crawlers, Through(c), NEW m \in Nat
  PROVE  ~Owes(c, m)
BY DEF TypeInv, TypeOK, Through, Owes

\* Nothing that a step does takes an account or token out of failed.
LEMMA FailedStays ==
  ASSUME NEW c \in Crawlers, StepOf(c)
  PROVE  /\ failed \subseteq failed'
         /\ ~BulkWrite(c) /\ ~HandlerFails(c) => UNCHANGED failed
BY DEF StepOf, PowerStep, LockStep, ListStep, Receive, ReceiveRange, Begin, AskMetrics, ReadBalance,
       GuessBalance, CreateMember, UpdatePower, BulkWrite, BulkMetrics, Fallback, CreateLock,
       DelegateLock, FindLock, WriteLock, FindMember, AddMember, RemoveMember, Crash, HandlerFails,
       Redeliver, ghosts

\* The events of a history are of one family.
LEMMA KindsDoNotMix ==
  ASSUME TypeInv, NEW F \in Families, NEW m \in 1 .. head, NEW n \in 1 .. head, history[m].kind \in F
  PROVE  history[n].kind \in F
<1>1. m \in DOMAIN history /\ n \in DOMAIN history
  BY EventAt
<1>2. PICK G \in Families : \A i \in DOMAIN history : history[i].kind \in G
  BY MembersConstants DEF TypeInv, Legal
<1>3. F = G
  <2>1. history[m].kind \in F \intersect G
    BY <1>1, <1>2
  <2> QED
    BY <2>1 DEF Families, LockKinds, ListKinds
<1> QED
  BY <1>1, <1>2, <1>3

\* An event at work that is not of a batch is the only one its handler was given.
LEMMA OnlyEvent ==
  ASSUME TypeInv, WorkInv, NEW c \in Crawlers, pc[c] # "idle", NEW m \in pos[c] .. upto[c],
         history[m].kind \notin PowerKinds
  PROVE  /\ m \in 1 .. head /\ m \in 1 .. reached /\ ~Batched(c) /\ upto[c] = pos[c] /\ m = pos[c]
         /\ Event(c) = history[m]
<1>1. pos[c] \in 1 .. head /\ upto[c] \in 0 .. head /\ head \in Nat /\ reached \in Nat /\ upto[c] <= reached
  BY EventType DEF TypeInv, TypeOK, WorkInv, AtWork
<1>2. m \in 1 .. head /\ m \in 1 .. reached
  BY <1>1
<1>3. ~Batched(c)
  <2>1. SUFFICES ASSUME Batched(c) PROVE FALSE
    OBVIOUS
  <2>2. Event(c).kind \in {"VotesChanged"} /\ {"VotesChanged"} \in Families
    BY <2>1 DEF Batched, Families
  <2>3. history[m].kind \in {"VotesChanged"}
    BY <1>1, <1>2, <2>2, KindsDoNotMix DEF Event
  <2> QED
    BY <2>3 DEF PowerKinds
<1>4. upto[c] = pos[c]
  BY <1>3 DEF WorkInv, AtWork
<1> QED
  BY <1>1, <1>2, <1>3, <1>4 DEF Event

\* What ends a handler of one event about a lock or a member.
LEMMA Settling ==
  ASSUME TypeInv, WorkInv, NEW c \in Crawlers, StepOf(c), NEW m \in Nat, Owes(c, m), Settles(c, m),
         history[m].kind \notin PowerKinds
  PROVE  /\ m = pos[c] /\ upto[c] = pos[c] /\ Event(c) = history[m] /\ m \in 1 .. head
         /\ LockStep(c) \/ ListStep(c) \/ history[m].who \in failed'
<1>1. /\ m = pos[c] /\ upto[c] = pos[c] /\ Event(c) = history[m] /\ m \in 1 .. head /\ ~Batched(c)
      /\ pc[c] # "idle"
  BY OnlyEvent DEF Settles
<1>2. pc[c] # "message"
  BY <1>1 DEF Owes, Wrote
<1>3. ~Starts(c) /\ ~Redeliver(c)
  BY <1>1 DEF Starts, Receive, ReceiveRange, Begin, Redeliver
<1>4. ~AskMetrics(c)
  BY <1>2 DEF AskMetrics
<1>5. ~PowerStep(c)
  BY <1>1 DEF PowerStep, ReadBalance, GuessBalance, CreateMember, UpdatePower, BulkWrite, BulkMetrics,
              Fallback, TypeInv, PlacesFit, PowerKinds
<1>6. ~Crash(c)
  <2>1. SUFFICES ASSUME Crash(c) PROVE FALSE
    OBVIOUS
  <2>2. pc'[c] = "idle" /\ pos' = pos
    BY <2>1 DEF Crash, Goto, TypeInv, TypeOK
  <2>3. Done(c)
    BY <2>2 DEF Settles
  <2>4. pos'[c] = upto[c] + 1
    BY <2>3, DoneMoves
  <2> QED
    BY <1>1, <2>2, <2>4
<1>7. HandlerFails(c) => history[m].who \in failed'
  BY <1>1 DEF HandlerFails
<1> QED
  BY <1>1, <1>3, <1>4, <1>5, <1>6, <1>7 DEF StepOf, Starts

-----------------------------------------------------------------------------
(* The last event *)

About(x, kinds, m) == history[m].who = x /\ history[m].kind \in kinds

\* Of the events that handlers were given, the last about x of one of the kinds.
LastGiven(x, kinds, m) ==
  m \in 1 .. reached /\ About(x, kinds, m) /\ \A i \in 1 .. reached : About(x, kinds, i) => i <= m

LEMMA LastOfKindIs ==
  ASSUME TypeInv, NEW x, NEW kinds
  PROVE  LET m == LastOfKind(x, kinds, reached)
         IN \/ m > 0 /\ LastGiven(x, kinds, m)
            \/ m = 0 /\ \A i \in 1 .. reached : ~About(x, kinds, i)
<1> DEFINE about == {i \in 1 .. reached : history[i].who = x /\ history[i].kind \in kinds}
           m == LastOfKind(x, kinds, reached)
<1>1. reached \in Nat
  BY DEF TypeInv, TypeOK
<1>2. CASE about = {}
  <2>1. m = 0
    BY <1>2 DEF LastOfKind
  <2> QED
    BY <1>2, <2>1 DEF About
<1>3. CASE about # {}
  <2>1. \E i \in about : \A j \in about : j <= i
    BY <1>1, <1>3, Greatest
  <2>2. m = CHOOSE i \in about : \A j \in about : j <= i
    BY <1>3 DEF LastOfKind
  <2>3. m \in about /\ \A j \in about : j <= m
    BY <2>1, <2>2
  <2>4. m > 0
    BY <2>3
  <2> QED
    BY <2>3, <2>4 DEF LastGiven, About
<1> QED
  BY <1>2, <1>3

\* An event that is the last after a step was the last before, or is new.
LEMMA LastBefore ==
  ASSUME GivenInv, NEW c \in Crawlers, StepOf(c), NEW x, NEW kinds, NEW m, LastGiven(x, kinds, m)'
  PROVE  /\ m \in Nat
         /\ \/ LastGiven(x, kinds, m)
            \/ Owes(c, m)'
<1>0. Apart(c) /\ TypeInv
  BY StepApart DEF GivenInv
<1>1. reached \in Nat /\ reached' \in Nat /\ reached <= reached' /\ UNCHANGED history
  BY <1>0 DEF Apart, TypeInv, TypeOK
<1>2. m \in 1 .. reached'
  BY DEF LastGiven
<1>3. CASE m <= reached
  BY <1>1, <1>2, <1>3 DEF LastGiven, About
<1>4. CASE m > reached
  BY <1>2, <1>4, OwesNew
<1> QED
  BY <1>1, <1>2, <1>3, <1>4

-----------------------------------------------------------------------------
(* Members of a multisig *)

\* A member was added, and of each account the list has what the last event that
\* was given to a handler says, or a crawler has still to write it.
ListInv ==
  /\ \A a \in list : \E m \in 1 .. reached : About(a, {"Added"}, m)
  /\ \A a \in Accounts \ failed : \A m \in Nat : LastGiven(a, ListKinds, m) =>
       (a \in list <=> history[m].kind = "Added") \/ \E c \in Crawlers : Owes(c, m)

LEMMA ListStays ==
  ASSUME NEW c \in Crawlers, StepOf(c), ~AddMember(c), ~RemoveMember(c)
  PROVE  UNCHANGED list
BY DEF StepOf, PowerStep, LockStep, ListStep, Receive, ReceiveRange, Begin, AskMetrics, ReadBalance,
       GuessBalance, CreateMember, UpdatePower, BulkWrite, BulkMetrics, Fallback, CreateLock,
       DelegateLock, FindLock, WriteLock, FindMember, Crash, HandlerFails, Redeliver, records

\* A handler that changes the list does so as its event says, and goes on with
\* its message.
LEMMA ListChanges ==
  ASSUME GivenInv, NEW c \in Crawlers, AddMember(c) \/ RemoveMember(c)
  PROVE  /\ pc[c] # "idle" /\ pos[c] \in 1 .. reached /\ upto[c] = pos[c] /\ c \in begun
         /\ About(Event(c).who, ListKinds, pos[c]) /\ Event(c) = history[pos[c]]
         /\ list' = IF Event(c).kind = "Added" THEN list \union {Event(c).who}
                    ELSE list \ {Event(c).who}
         /\ Event(c).who \in list' <=> Event(c).kind = "Added"
         /\ UNCHANGED <<history, pos, upto, reached, begun>>
<1>1. pc[c] # "idle" /\ Event(c).kind \in {"Added", "Removed"} /\ Goto(c, "message")
      /\ UNCHANGED <<history, reached, begun>>
  BY DEF AddMember, RemoveMember
<1>2. pos[c] \in 1 .. head /\ upto[c] <= reached /\ c \in begun /\ reached \in Nat /\ pos[c] <= upto[c]
      /\ upto[c] \in Nat
  BY <1>1, EventType DEF GivenInv, TypeInv, TypeOK, WorkInv, AtWork
<1>3. ~Batched(c)
  BY <1>1 DEF Batched
<1>4. upto[c] = pos[c]
  BY <1>1, <1>3 DEF GivenInv, WorkInv, AtWork
<1>5. list' = IF Event(c).kind = "Added" THEN list \union {Event(c).who} ELSE list \ {Event(c).who}
  BY DEF AddMember, RemoveMember
<1> QED
  BY <1>1, <1>2, <1>4, <1>5 DEF Event, About, ListKinds, Goto

LEMMA StepListInv ==
  ASSUME GivenInv, ListInv, NEW c \in Crawlers, StepOf(c)
  PROVE  ListInv'
<1>0. Apart(c) /\ TypeInv /\ WorkInv
  BY StepApart DEF GivenInv
<1>1. reached \in Nat /\ reached' \in Nat /\ reached <= reached' /\ UNCHANGED <<history, head>>
  BY <1>0 DEF Apart, TypeInv, TypeOK
<1>2. ASSUME NEW a \in list' PROVE \E m \in 1 .. reached' : About(a, {"Added"}, m)'
  <2>1. CASE a \in list
    BY <1>1, <2>1 DEF ListInv, About
  <2>2. CASE a \notin list
    <3>1. AddMember(c) \/ RemoveMember(c)
      BY <1>2, <2>2, ListStays
    <3>2. a = Event(c).who /\ Event(c).kind = "Added" /\ pos[c] \in 1 .. reached
          /\ Event(c) = history[pos[c]]
      BY <1>2, <2>2, <3>1, ListChanges
    <3>3. pos[c] \in 1 .. reached'
      BY <1>1, <3>2
    <3> QED
      BY <1>1, <3>2, <3>3 DEF About
  <2> QED
    BY <2>1, <2>2
<1>3. ASSUME NEW a \in Accounts \ failed', NEW m \in Nat, LastGiven(a, ListKinds, m)'
      PROVE  (a \in list' <=> history'[m].kind = "Added") \/ \E d \in Crawlers : Owes(d, m)'
  <2>1. SUFFICES ASSUME LastGiven(a, ListKinds, m)
                 PROVE  (a \in list' <=> history'[m].kind = "Added") \/ \E d \in Crawlers : Owes(d, m)'
    BY <1>3, LastBefore
  <2>2. a \in Accounts \ failed /\ history[m].kind \in ListKinds /\ m \in 1 .. reached /\ history[m].who = a
    BY <1>3, <2>1, FailedStays DEF LastGiven, About
  <2>3. CASE (AddMember(c) \/ RemoveMember(c)) /\ Event(c).who = a
    <3>1. pos[c] \in 1 .. reached /\ pos[c] <= m
      BY <2>1, <2>3, ListChanges DEF LastGiven
    <3>2. CASE pos[c] = m
      BY <1>1, <2>3, <3>2, ListChanges
    <3>3. CASE pos[c] < m
      <4>1. pos'[c] <= m /\ m <= reached' /\ c \in begun' /\ ~(m <= upto'[c]) /\ pos'[c] \in Nat
        BY <1>1, <2>2, <2>3, <3>1, <3>3, ListChanges
      <4> QED
        BY <1>1, <4>1 DEF Owes, Wrote
    <3> QED
      BY <3>1, <3>2, <3>3
  <2>4. CASE ~((AddMember(c) \/ RemoveMember(c)) /\ Event(c).who = a)
    <3>1. a \in list' <=> a \in list
      <4>1. CASE AddMember(c) \/ RemoveMember(c)
        BY <2>4, <4>1, ListChanges
      <4>2. CASE ~AddMember(c) /\ ~RemoveMember(c)
        BY <4>2, ListStays
      <4> QED
        BY <4>1, <4>2
    <3>2. CASE a \in list <=> history[m].kind = "Added"
      BY <1>1, <3>1, <3>2
    <3>3. CASE \E d \in Crawlers : Owes(d, m)
      <4>1. PICK d \in Crawlers : Owes(d, m)
        BY <3>3
      <4>2. CASE ~(d = c /\ Settles(c, m))
        BY <4>1, <4>2, OwesStays
      <4>3. CASE d = c /\ Settles(c, m)
        <5>1. Event(c) = history[m] /\ (LockStep(c) \/ ListStep(c))
          BY <1>0, <1>3, <2>2, <4>1, <4>3, Settling DEF ListKinds, PowerKinds
        <5>2. ~LockStep(c)
          BY <2>2, <5>1 DEF LockStep, CreateLock, DelegateLock, FindLock, WriteLock, ListKinds
        <5>3. FindMember(c)
          BY <2>2, <2>4, <5>1, <5>2 DEF ListStep
        <5>4. history[m].kind = "Added" /\ a \in list
          <6>1. pc'[c] = "message" \/ pc'[c] = "write"
            BY <1>0, <5>3 DEF FindMember, Goto, TypeInv, TypeOK
          <6>2. ~Done(c)
            BY <1>0, <6>1, DoneMoves
          <6>3. pc'[c] = "message"
            BY <4>3, <6>1, <6>2 DEF Settles
          <6> QED
            BY <1>0, <2>2, <5>1, <5>3, <6>3 DEF FindMember, Goto, TypeInv, TypeOK
        <5> QED
          BY <1>1, <3>1, <5>4
      <4> QED
        BY <4>2, <4>3
    <3> QED
      BY <2>1, <2>2, <3>2, <3>3 DEF ListInv
  <2> QED
    BY <2>3, <2>4
<1> QED
  BY <1>2, <1>3 DEF ListInv

LEMMA StepReachAll ==
  ASSUME GivenInv, [Next]_vars
  PROVE  GivenInv'
<1>1. TypeInv'
  BY StepTypeInv DEF GivenInv
<1>2. CASE UNCHANGED vars
  <2>1. WorkInv' /\ ReachInv'
    BY <1>2 DEF vars, records, ghosts, GivenInv, WorkInv, AtWork, Batched, Event, ReachInv
  <2> QED
    BY <1>1, <2>1 DEF GivenInv
<1>3. CASE Emit
  <2>1. WorkInv' /\ ReachInv'
    BY <1>3 DEF Emit, records, ghosts, GivenInv, WorkInv, AtWork, Batched, Event, ReachInv
  <2> QED
    BY <1>1, <2>1 DEF GivenInv
<1>4. ASSUME NEW c \in Crawlers, StepOf(c) PROVE GivenInv'
  BY <1>1, <1>4, StepWork, StepReach DEF GivenInv
<1> QED
  BY <1>2, <1>3, <1>4 DEF Next, StepOf

LEMMA AlwaysGivenInv == Spec => []GivenInv
<1>1. Init => GivenInv
  <2>1. Init => WorkInv /\ ReachInv
    BY DEF Init, WorkInv, ReachInv
  <2> QED
    BY <2>1, InitTypeInv DEF GivenInv
<1> QED
  BY <1>1, StepReachAll, PTL DEF Spec

LEMMA ListAtTheEnd == TypeInv /\ ListInv => MembershipFollows
<1> SUFFICES ASSUME TypeInv, ListInv, AllThrough, NEW a \in Accounts \ failed
             PROVE  LET last == LastOfKind(a, ListKinds, reached)
                    IN a \in list <=> last > 0 /\ history[last].kind = "Added"
  BY DEF MembershipFollows
<1> DEFINE m == LastOfKind(a, ListKinds, reached)
<1>1. CASE m = 0 /\ \A i \in 1 .. reached : ~About(a, ListKinds, i)
  <2>1. \A i \in 1 .. reached : ~About(a, {"Added"}, i)
    BY <1>1 DEF About, ListKinds
  <2> QED
    BY <1>1, <2>1 DEF ListInv
<1>2. CASE m > 0 /\ LastGiven(a, ListKinds, m)
  <2> HIDE DEF m
  <2>1. m \in Nat
    BY <1>2 DEF LastGiven
  <2>2. \A c \in Crawlers : ~Owes(c, m)
    BY <2>1, ThroughOwesNothing DEF AllThrough, Owes
  <2>3. a \in list <=> history[m].kind = "Added"
    BY <1>2, <2>1, <2>2 DEF ListInv
  <2> QED
    BY <1>2, <2>3 DEF m
<1> QED
  BY <1>1, <1>2, LastOfKindIs

\* When the crawlers are through with the events, the members of a multisig are
\* those the chain has, of accounts no write of which failed, whichever of them
\* found a member and added it while another removed it.
THEOREM MembershipAlwaysFollows == Spec => []MembershipFollows
<1>1. Init => ListInv
  BY DEF Init, ListInv, LastGiven
<1>2. ASSUME GivenInv, ListInv, [Next]_vars PROVE ListInv'
  <2>1. CASE Emit \/ UNCHANGED vars
    BY <1>2, <2>1 DEF Emit, vars, records, ghosts, ListInv, LastGiven, About, Owes, Wrote
  <2> QED
    BY <1>2, <2>1, StepListInv DEF Next, StepOf
<1>3. GivenInv /\ ListInv => MembershipFollows
  BY ListAtTheEnd DEF GivenInv
<1> QED
  BY <1>1, <1>2, <1>3, AlwaysGivenInv, PTL DEF Spec

-----------------------------------------------------------------------------
(* Locks of a voting escrow *)

\* What no crawler was given before, or a crawler that is new to its events was
\* not, it owes.
LEMMA OwesAll ==
  ASSUME GivenInv, NEW c \in Crawlers, StepOf(c), NEW d \in Crawlers, d \in begun', NEW m \in 1 .. reached',
         m > reached \/ d \notin begun
  PROVE  Owes(d, m)'
<1>0. Apart(c) /\ TypeInv /\ WorkInv /\ ReachInv
  BY StepApart DEF GivenInv
<1>1. pos[d] \in Nat /\ upto[d] \in Nat /\ reached \in Nat /\ reached' \in Nat /\ m \in Nat
  BY <1>0 DEF TypeInv, TypeOK, Apart
<1>2. CASE d = c /\ m > reached
  BY <1>2, OwesNew
<1>3. CASE d # c
  <2>1. d \in begun
    <3>1. CASE Starts(c)
      BY <1>3, <3>1 DEF Starts, Receive, ReceiveRange, Begin
    <3>2. CASE ~Starts(c)
      BY <1>0, <3>2, OthersStay
    <3> QED
      BY <3>1, <3>2
  <2>2. pc'[d] = pc[d] /\ pos'[d] = pos[d] /\ upto'[d] = upto[d]
    BY <1>0, <1>3 DEF Apart
  <2>3. pos[d] <= m
    BY <1>0, <1>1, <2>1 DEF ReachInv
  <2>4. pc[d] # "idle" => upto[d] <= reached
    BY <1>0 DEF WorkInv, AtWork
  <2> QED
    BY <1>1, <2>1, <2>2, <2>3, <2>4 DEF Owes, Wrote
<1>4. CASE d = c /\ d \notin begun
  <2>1. Starts(c)
    BY <1>0, <1>4, OthersStay
  <2>2. PICK last \in pos[c] .. head : \E place \in {"read", "find", "update", "bulk"} :
          Begin(c, last, place)
    BY <1>0, <2>1, Begins
  <2>3. pos'[c] = pos[c] /\ pc'[c] \in {"read", "find", "update", "bulk"}
    BY <1>0, <2>2 DEF Begin, TypeInv, TypeOK
  <2>4. pos[c] <= m
    BY <1>0, <1>1, <1>4 DEF ReachInv, TypeInv, TypeOK
  <2> QED
    BY <1>1, <1>4, <2>3, <2>4 DEF Owes, Wrote
<1> QED
  BY <1>2, <1>3, <1>4

Marks == {"Deposit", "ExitQueued", "Withdraw"}
Delegations == {"Delegated", "Undelegated"}

\* The mark that an event of kind k sets.
Mark(t, k) == IF k = "Deposit" THEN locks[t].here ELSE IF k = "ExitQueued" THEN locks[t].exit ELSE locks[t].out

\* A lock that is to be marked is there.
WriteInv ==
  \A c \in Crawlers :
    pc[c] = "write" /\ Event(c).kind \in {"ExitQueued", "Withdraw"} => locks[Event(c).who].here

\* No mark is without its event, and none on a lock that is not there.
MarkInv(t) ==
  /\ ~locks[t].here => locks[t] = NoLock
  /\ \A k \in Marks : Mark(t, k) => \E m \in 1 .. reached : About(t, {k}, m)

\* Whoever is past the deposit has seen the lock made; a mark is there or owed,
\* and so is the receiver, until the lock is withdrawn.
WrittenInv(t) ==
  /\ \A c \in begun : \A m \in 1 .. reached : About(t, {"Deposit"}, m) => locks[t].here \/ Owes(c, m)
  /\ \A k \in Marks : \A m \in 1 .. reached :
       About(t, {k}, m) => Mark(t, k) \/ \E c \in Crawlers : Owes(c, m)
  /\ ~locks[t].out =>
       /\ (\A m \in 1 .. reached : ~About(t, Delegations, m)) => locks[t].to = Nobody
       /\ \A m \in Nat : LastGiven(t, Delegations, m) =>
            locks[t].to = history[m].to \/ \E c \in Crawlers : Owes(c, m)

LocksInv ==
  /\ WriteInv
  /\ \A t \in Tokens : MarkInv(t)
  /\ \A t \in Tokens \ failed : WrittenInv(t)

LEMMA LocksStay ==
  ASSUME NEW c \in Crawlers, StepOf(c), ~CreateLock(c), ~DelegateLock(c), ~WriteLock(c)
  PROVE  UNCHANGED locks
BY DEF StepOf, PowerStep, LockStep, ListStep, Receive, ReceiveRange, Begin, AskMetrics, ReadBalance,
       GuessBalance, CreateMember, UpdatePower, BulkWrite, BulkMetrics, Fallback, FindLock, FindMember,
       AddMember, RemoveMember, Crash, HandlerFails, Redeliver, records

\* Where a lock is written: how, and by which handler.
WritesLock(c, t) ==
  \/ locks'[t] = locks[t]
  \/ /\ CreateLock(c) /\ Event(c).who = t /\ Event(c).kind = "Deposit"
     /\ locks[t] = NoLock /\ locks'[t] = [NoLock EXCEPT !.here = TRUE]
  \/ /\ DelegateLock(c) /\ Event(c).who = t /\ Event(c).kind \in Delegations
     /\ locks[t].here /\ locks'[t] = [locks[t] EXCEPT !.to = Event(c).to]
  \/ /\ WriteLock(c) /\ Event(c).who = t /\ Event(c).kind = "ExitQueued"
     /\ locks[t].here /\ locks'[t] = [locks[t] EXCEPT !.exit = TRUE]
  \/ /\ WriteLock(c) /\ Event(c).who = t /\ Event(c).kind = "Withdraw"
     /\ locks[t].here /\ locks'[t] = [locks[t] EXCEPT !.out = TRUE, !.to = Nobody]

LEMMA LockWrite ==
  ASSUME GivenInv, LocksInv, NEW c \in Crawlers, CreateLock(c) \/ DelegateLock(c) \/ WriteLock(c),
         NEW t \in Tokens
  PROVE  /\ pos[c] \in 1 .. reached /\ upto[c] = pos[c] /\ c \in begun /\ Event(c) = history[pos[c]]
         /\ Event(c).kind \in LockKinds /\ Event(c).who \in Tokens /\ pc[c] # "idle"
         /\ UNCHANGED <<history, upto, reached, begun>>
         /\ WritesLock(c, t)
<1>1. pc[c] # "idle" /\ Event(c).kind \in LockKinds /\ UNCHANGED <<history, reached, begun>>
      /\ ((\E place : Goto(c, place)) \/ Done(c))
  BY DEF CreateLock, DelegateLock, WriteLock, LockKinds
<1>2. UNCHANGED upto
  BY <1>1 DEF Goto, Done
<1>3. /\ pos[c] \in 1 .. head /\ upto[c] <= reached /\ c \in begun /\ reached \in Nat /\ pos[c] <= upto[c]
      /\ upto[c] \in Nat /\ Event(c).who \in Tokens
  BY <1>1, EventType DEF GivenInv, TypeInv, TypeOK, WorkInv, AtWork
<1>4. ~Batched(c)
  BY <1>1 DEF Batched, LockKinds
<1>5. upto[c] = pos[c]
  BY <1>1, <1>4 DEF GivenInv, WorkInv, AtWork
<1>6. /\ locks \in [Tokens -> [here : BOOLEAN, exit : BOOLEAN, out : BOOLEAN, to : Accounts \union {Nobody}]]
      /\ MarkInv(t)
  BY DEF GivenInv, TypeInv, TypeOK, LocksInv
<1>7. CASE Event(c).who # t
  <2>1. locks'[t] = locks[t]
    BY <1>3, <1>6, <1>7 DEF CreateLock, DelegateLock, WriteLock
  <2> QED
    BY <1>1, <1>2, <1>3, <1>5, <2>1 DEF Event, WritesLock
<1>8. CASE Event(c).who = t
  <2>1. CASE CreateLock(c)
    <3>1. /\ Event(c).kind = "Deposit"
          /\ locks'[t] = IF locks[t].here THEN locks[t] ELSE [NoLock EXCEPT !.here = TRUE]
      BY <1>3, <1>6, <1>8, <2>1 DEF CreateLock
    <3>2. ~locks[t].here => locks[t] = NoLock
      BY <1>6 DEF MarkInv
    <3> QED
      BY <1>1, <1>2, <1>3, <1>5, <1>8, <2>1, <3>1, <3>2 DEF Event, WritesLock, NoLock
  <2>2. CASE DelegateLock(c)
    <3>1. /\ Event(c).kind \in Delegations
          /\ locks'[t] = IF locks[t].here THEN [locks[t] EXCEPT !.to = Event(c).to] ELSE locks[t]
      BY <1>3, <1>6, <1>8, <2>2 DEF DelegateLock, Delegations
    <3> QED
      BY <1>1, <1>2, <1>3, <1>5, <1>8, <2>2, <3>1 DEF Event, WritesLock
  <2>3. CASE WriteLock(c)
    <3>1. /\ Event(c).kind \in {"ExitQueued", "Withdraw"} /\ pc[c] = "write"
          /\ locks'[t] = Marked(locks[t], Event(c).kind)
      BY <1>3, <1>6, <1>8, <2>3 DEF WriteLock
    <3>2. locks[t].here
      BY <1>8, <3>1 DEF LocksInv, WriteInv
    <3>3. \/ Event(c).kind = "ExitQueued" /\ locks'[t] = [locks[t] EXCEPT !.exit = TRUE]
          \/ Event(c).kind = "Withdraw" /\ locks'[t] = [locks[t] EXCEPT !.out = TRUE, !.to = Nobody]
      BY <3>1 DEF Marked
    <3> QED
      BY <1>1, <1>2, <1>3, <1>5, <1>8, <2>3, <3>2, <3>3 DEF Event, WritesLock
  <2> QED
    BY <2>1, <2>2, <2>3
<1> QED
  BY <1>7, <1>8

\* No mark is lost, whichever handlers meet.
LEMMA MarksStay ==
  ASSUME GivenInv, LocksInv, NEW c \in Crawlers, StepOf(c), NEW t \in Tokens
  PROVE  /\ locks[t].here => locks'[t].here
         /\ locks[t].exit => locks'[t].exit
         /\ locks[t].out => locks'[t].out
<1>1. locks[t] \in [here : BOOLEAN, exit : BOOLEAN, out : BOOLEAN, to : Accounts \union {Nobody}]
  BY DEF GivenInv, TypeInv, TypeOK
<1>2. CASE ~CreateLock(c) /\ ~DelegateLock(c) /\ ~WriteLock(c)
  BY <1>2, LocksStay
<1>3. CASE CreateLock(c) \/ DelegateLock(c) \/ WriteLock(c)
  <2>1. WritesLock(c, t)
    BY <1>3, LockWrite
  <2> QED
    <3>1. CASE locks'[t] = locks[t]
      BY ONLY <3>1
    <3>2. CASE locks[t] = NoLock
      BY ONLY <3>2 DEF NoLock
    <3>3. CASE locks'[t] = [locks[t] EXCEPT !.to = Event(c).to]
      BY ONLY <1>1, <3>3
    <3>4. CASE locks'[t] = [locks[t] EXCEPT !.exit = TRUE]
      BY ONLY <1>1, <3>4
    <3>5. CASE locks'[t] = [locks[t] EXCEPT !.out = TRUE, !.to = Nobody]
      BY ONLY <1>1, <3>5
    <3> QED
      BY <2>1, <3>1, <3>2, <3>3, <3>4, <3>5 DEF WritesLock
<1> QED
  BY <1>2, <1>3

LEMMA StepWriteInv ==
  ASSUME GivenInv, LocksInv, NEW c \in Crawlers, StepOf(c)
  PROVE  WriteInv'
<1> SUFFICES ASSUME NEW d \in Crawlers, pc'[d] = "write", Event(d)'.kind \in {"ExitQueued", "Withdraw"}
             PROVE  locks'[Event(d)'.who].here
  BY DEF WriteInv
<1>0. Apart(c) /\ TypeInv /\ UNCHANGED <<history, head>>
  BY StepApart DEF GivenInv, Apart
<1>1. ASSUME pos'[d] = pos[d], pc[d] # "idle", locks[Event(d).who].here PROVE locks'[Event(d)'.who].here
  <2>1. Event(d)' = Event(d) /\ Event(d).who \in Tokens
    BY <1>0, <1>1, EventType DEF Event, LockKinds
  <2> QED
    BY <1>1, <2>1, MarksStay
<1>2. CASE d # c
  <2>1. pc[d] = "write" /\ pos'[d] = pos[d]
    BY <1>0, <1>2 DEF Apart
  <2>2. Event(d)' = Event(d)
    BY <1>0, <2>1 DEF Event
  <2> QED
    BY <1>1, <2>1, <2>2 DEF LocksInv, WriteInv
<1>3. CASE d = c
  <2>1. ~Starts(c)
    <3>1. SUFFICES ASSUME Starts(c) PROVE FALSE
      OBVIOUS
    <3>2. \E last \in pos[c] .. head : \E place \in {"read", "find", "update", "bulk"} :
            Begin(c, last, place)
      BY <1>0, <3>1, Begins
    <3> QED
      BY <1>0, <1>3, <3>2 DEF Begin, TypeInv, TypeOK
  <2>2. ~Redeliver(c) /\ ~Done(c) /\ pc[c] # "idle"
    BY <1>0, <1>3, <2>1, AtWorkUnless, Stops
  <2>3. Goto(c, "write") /\ pos'[c] = pos[c]
    <3>1. PICK place : Goto(c, place)
      BY <1>0, <2>1, <2>2, AtWorkUnless
    <3> QED
      BY <1>0, <1>3, <3>1 DEF Goto, TypeInv, TypeOK
  <2>4. Event(c)' = Event(c)
    BY <1>0, <2>3 DEF Event
  <2>5. pc'[c] = "write"
    BY <1>3
  <2>6. FindLock(c)
    <3>1. ~PowerStep(c)
      BY <1>0, <2>2, <2>5 DEF PowerStep, ReadBalance, GuessBalance, CreateMember, UpdatePower, BulkWrite,
            BulkMetrics, Fallback, Goto, TypeInv, TypeOK
    <3>2. ~AskMetrics(c) /\ ~Crash(c) /\ ~HandlerFails(c)
      BY <1>0, <2>2, <2>5 DEF AskMetrics, Crash, HandlerFails, Goto, TypeInv, TypeOK
    <3>3. ~ListStep(c)
      BY <1>3, <2>4 DEF ListStep, FindMember, AddMember, RemoveMember
    <3>4. ~CreateLock(c) /\ ~DelegateLock(c) /\ ~WriteLock(c)
      BY <1>0, <2>2, <2>5 DEF CreateLock, DelegateLock, WriteLock, Goto, TypeInv, TypeOK
    <3> QED
      BY <2>1, <2>2, <3>1, <3>2, <3>3, <3>4 DEF StepOf, Starts, LockStep
  <2>7. locks[Event(c).who].here
    BY <2>2, <2>6 DEF FindLock
  <2> QED
    BY <1>1, <1>3, <2>2, <2>3, <2>7
<1> QED
  BY <1>2, <1>3

LEMMA StepMarkInv ==
  ASSUME GivenInv, LocksInv, NEW c \in Crawlers, StepOf(c), NEW t \in Tokens
  PROVE  MarkInv(t)'
<1>0. Apart(c) /\ MarkInv(t)
  BY StepApart DEF GivenInv, LocksInv
<1>1. reached \in Nat /\ reached' \in Nat /\ reached <= reached' /\ UNCHANGED history /\ NoLock' = NoLock
  BY <1>0 DEF Apart, GivenInv, TypeInv, TypeOK, NoLock
<1>2. locks[t] \in [here : BOOLEAN, exit : BOOLEAN, out : BOOLEAN, to : Accounts \union {Nobody}]
  BY DEF GivenInv, TypeInv, TypeOK
<1>3. ASSUME NEW k \in Marks, Mark(t, k) PROVE \E m \in 1 .. reached' : About(t, {k}, m)'
  <2>1. PICK m \in 1 .. reached : About(t, {k}, m)
    BY <1>0, <1>3 DEF MarkInv
  <2>2. m \in 1 .. reached' /\ About(t, {k}, m)'
    BY <1>1, <2>1 DEF About
  <2> QED
    BY <2>2
<1>4. CASE locks'[t] = locks[t]
  <2>1. ~locks'[t].here => locks'[t] = NoLock
    BY <1>0, <1>4 DEF MarkInv
  <2>2. \A k \in Marks : Mark(t, k)' = Mark(t, k)
    BY <1>4 DEF Mark
  <2> QED
    BY <1>1, <1>3, <2>1, <2>2 DEF MarkInv
<1>5. CASE locks'[t] # locks[t]
  <2>1. CreateLock(c) \/ DelegateLock(c) \/ WriteLock(c)
    BY <1>5, LocksStay
  <2>2. WritesLock(c, t) /\ pos[c] \in 1 .. reached /\ Event(c) = history[pos[c]]
    BY <2>1, LockWrite
  <2>3. locks'[t].here /\ Event(c).who = t
    BY <1>2, <1>5, <2>2 DEF WritesLock, NoLock
  <2>4. ASSUME NEW k \in Marks, Mark(t, k)' PROVE Mark(t, k) \/ Event(c).kind = k
    BY <1>2, <1>5, <2>2, <2>4 DEF WritesLock, NoLock, Mark, Marks
  <2>5. ASSUME NEW k \in Marks, Mark(t, k)' PROVE \E m \in 1 .. reached' : About(t, {k}, m)'
    <3>1. CASE Mark(t, k)
      BY <1>3, <3>1
    <3>2. CASE Event(c).kind = k
      <4>1. pos[c] \in 1 .. reached'
        BY <1>1, <2>2
      <4>2. About(t, {k}, pos[c])
        BY <2>2, <2>3, <3>2 DEF About
      <4>3. ASSUME NEW m, About(t, {k}, m) PROVE About(t, {k}, m)'
        BY <1>1, <4>3 DEF About
      <4>4. PICK m \in 1 .. reached' : m = pos[c]
        BY <4>1
      <4> QED
        BY <4>2, <4>3, <4>4
    <3> QED
      BY <2>4, <2>5, <3>1, <3>2
  <2> QED
    BY <2>3, <2>5 DEF MarkInv
<1> QED
  BY <1>4, <1>5

LEMMA StepWrittenInv ==
  ASSUME GivenInv, LocksInv, NEW c \in Crawlers, StepOf(c), NEW t \in Tokens \ failed'
  PROVE  WrittenInv(t)'
<1>0. Apart(c) /\ TypeInv /\ WorkInv /\ WrittenInv(t) /\ MarkInv(t) /\ t \in Tokens
  BY StepApart, FailedStays DEF GivenInv, LocksInv
<1>1. reached \in Nat /\ reached' \in Nat /\ reached <= reached' /\ UNCHANGED <<history, head>>
      /\ reached <= head /\ head \in Nat
  BY <1>0 DEF Apart, TypeInv, TypeOK
<1>2. /\ locks[t] \in [here : BOOLEAN, exit : BOOLEAN, out : BOOLEAN, to : Accounts \union {Nobody}]
      /\ ~locks[t].here => locks[t] = NoLock
  BY <1>0 DEF TypeInv, TypeOK, MarkInv
<1>3. \A k : \A m : About(t, k, m)' = About(t, k, m)
  BY <1>1 DEF About
\* A handler of an event about the lock that ends has it there.
<1>4. ASSUME NEW m \in 1 .. reached, NEW k \in LockKinds, About(t, {k}, m), Owes(c, m), Settles(c, m)
      PROVE  /\ LockStep(c) /\ Event(c) = history[m] /\ Event(c).kind = k /\ Event(c).who = t
             /\ pos[c] = m /\ m \in Nat
             /\ k # "Deposit" => locks[t].here
  <2>1. /\ LockStep(c) \/ ListStep(c) \/ t \in failed'
        /\ Event(c) = history[m] /\ pos[c] = m /\ Event(c).kind = k /\ Event(c).who = t
    <3>1. history[m].kind = k /\ history[m].who = t /\ k \notin PowerKinds
      BY <1>4 DEF About, LockKinds, PowerKinds
    <3> QED
      BY <1>0, <1>1, <1>4, <3>1, Settling
  <2>2. ~ListStep(c)
    BY <2>1 DEF ListStep, FindMember, AddMember, RemoveMember, LockKinds
  <2>3. ASSUME k # "Deposit" PROVE locks[t].here
    <3>1. Legal(history) /\ m \in DOMAIN history /\ history[m].kind \in LockKinds
      BY <1>0, <1>1, <1>4, <2>1, EventAt, MembersConstants DEF TypeInv
    <3>2. PICK j \in 1 .. m : history[j].kind = "Deposit" /\ history[j].who = t
      BY <1>4, <3>1 DEF Legal, About
    <3>3. j < m /\ j \in 1 .. reached
      BY <1>1, <1>4, <2>1, <2>3, <3>2
    <3>4. About(t, {"Deposit"}, j) /\ c \in begun
      BY <1>4, <3>2 DEF About, Owes
    <3>5. ~Owes(c, j)
      BY <2>1, <3>3 DEF Owes
    <3> QED
      BY <1>0, <3>3, <3>4, <3>5 DEF WrittenInv
  <2> QED
    BY <2>1, <2>2, <2>3
<1>5. ASSUME NEW d \in begun', NEW m \in 1 .. reached', About(t, {"Deposit"}, m)
      PROVE  locks'[t].here \/ Owes(d, m)'
  <2>1. d \in Crawlers
    <3>1. TypeInv'
      BY <1>0, StepTypeInv DEF Next, StepOf
    <3> QED
      BY <3>1 DEF TypeInv, TypeOK
  <2>2. CASE m > reached \/ d \notin begun
    BY <2>1, <2>2, OwesAll
  <2>3. CASE m <= reached /\ d \in begun
    <3>1. m \in 1 .. reached
      BY <1>1, <2>3
    <3>2. locks[t].here \/ Owes(d, m)
      BY <1>0, <1>5, <2>3, <3>1 DEF WrittenInv
    <3>3. CASE locks[t].here
      BY <1>0, <3>3, MarksStay
    <3>4. CASE Owes(d, m) /\ ~(d = c /\ Settles(c, m))
      BY <2>1, <3>4, OwesStays
    <3>5. CASE Owes(c, m) /\ Settles(c, m)
      <4>1. LockStep(c) /\ Event(c).kind = "Deposit" /\ Event(c).who = t
        BY <1>4, <1>5, <3>1, <3>5 DEF LockKinds
      <4>2. CreateLock(c)
        BY <4>1 DEF LockStep, DelegateLock, FindLock, WriteLock
      <4> QED
        BY <1>0, <1>2, <4>1, <4>2 DEF CreateLock, NoLock, TypeInv, TypeOK
    <3> QED
      BY <3>2, <3>3, <3>4, <3>5
  <2> QED
    BY <1>1, <2>2, <2>3
<1>6. ASSUME NEW k \in Marks, NEW m \in 1 .. reached', About(t, {k}, m)
      PROVE  Mark(t, k)' \/ \E d \in Crawlers : Owes(d, m)'
  <2>1. CASE m > reached
    BY <2>1, OwesNew
  <2>2. CASE m <= reached
    <3>1. m \in 1 .. reached
      BY <1>1, <2>2
    <3>2. CASE Mark(t, k)
      BY <1>0, <3>2, MarksStay DEF Mark
    <3>3. CASE ~Mark(t, k)
      <4>1. PICK d \in Crawlers : Owes(d, m)
        BY <1>0, <1>6, <3>1, <3>3 DEF WrittenInv
      <4>2. CASE ~(d = c /\ Settles(c, m))
        BY <4>1, <4>2, OwesStays
      <4>3. CASE d = c /\ Settles(c, m)
        <5>1. /\ LockStep(c) /\ Event(c).kind = k /\ Event(c).who = t
              /\ k # "Deposit" => locks[t].here
          BY <1>4, <1>6, <3>1, <4>1, <4>3 DEF LockKinds, Marks
        <5>2. CASE CreateLock(c)
          BY <1>0, <1>2, <5>1, <5>2 DEF CreateLock, NoLock, TypeInv, TypeOK, Mark
        <5>3. CASE FindLock(c)
          <6>1. ~Mark(t, k) => Goto(c, "write")
            BY <5>1, <5>3 DEF FindLock, Mark
          <6>2. pc'[c] = "write" => ~Settles(c, m)
            BY <1>0, Stops DEF Settles
          <6> QED
            BY <1>0, <3>3, <4>3, <6>1, <6>2 DEF Goto, TypeInv, TypeOK
        <5>4. CASE WriteLock(c)
          BY <1>0, <1>2, <5>1, <5>4 DEF WriteLock, Marked, TypeInv, TypeOK, Mark
        <5>5. ~DelegateLock(c)
          BY <5>1 DEF DelegateLock, Marks
        <5> QED
          BY <5>1, <5>2, <5>3, <5>4, <5>5 DEF LockStep
      <4> QED
        BY <4>2, <4>3
    <3> QED
      BY <3>2, <3>3
  <2> QED
    BY <1>1, <2>1, <2>2
<1>7. ASSUME ~locks'[t].out PROVE ~locks[t].out
  BY <1>0, <1>7, MarksStay
\* Where the receiver is written, it is Nobody, or by the handler of a delegation.
<1>8. ASSUME ~locks'[t].out
      PROVE  \/ locks'[t].to = locks[t].to
             \/ DelegateLock(c) /\ Event(c).who = t
  <2>1. CASE ~CreateLock(c) /\ ~DelegateLock(c) /\ ~WriteLock(c)
    BY <2>1, LocksStay
  <2>2. CASE CreateLock(c) \/ DelegateLock(c) \/ WriteLock(c)
    <3>1. WritesLock(c, t)
      BY <1>0, <2>2, LockWrite
    <3> QED
      BY <1>2, <1>8, <3>1 DEF WritesLock, NoLock
  <2> QED
    BY <2>1, <2>2
<1>9. ASSUME DelegateLock(c), Event(c).who = t
      PROVE  /\ pos[c] \in 1 .. reached /\ upto[c] = pos[c] /\ c \in begun /\ Event(c) = history[pos[c]]
             /\ About(t, Delegations, pos[c])
             /\ locks'[t].to = Event(c).to \/ ~locks[t].here
             /\ UNCHANGED <<pos, upto, begun, reached>>
  <2>1. /\ pos[c] \in 1 .. reached /\ upto[c] = pos[c] /\ c \in begun /\ Event(c) = history[pos[c]]
        /\ UNCHANGED <<upto, begun, reached>>
    BY <1>0, <1>9, LockWrite
  <2>2. Event(c).kind \in Delegations /\ pos' = pos
    BY <1>9 DEF DelegateLock, Delegations, Goto
  <2>3. locks'[t].to = Event(c).to \/ ~locks[t].here
    BY <1>0, <1>2, <1>9 DEF DelegateLock, TypeInv, TypeOK
  <2> QED
    BY <1>9, <2>1, <2>2, <2>3 DEF About
<1>10. ASSUME ~locks'[t].out, \A m \in 1 .. reached' : ~About(t, Delegations, m)
       PROVE  locks'[t].to = Nobody
  <2>1. \A m \in 1 .. reached : ~About(t, Delegations, m)
    BY <1>1, <1>10
  <2>2. locks[t].to = Nobody
    BY <1>0, <1>7, <1>10, <2>1 DEF WrittenInv
  <2>3. ~(DelegateLock(c) /\ Event(c).who = t)
    BY <1>9, <2>1
  <2> QED
    BY <1>8, <1>10, <2>2, <2>3
<1>11. ASSUME ~locks'[t].out, NEW m \in Nat, LastGiven(t, Delegations, m)'
       PROVE  locks'[t].to = history'[m].to \/ \E d \in Crawlers : Owes(d, m)'
  <2>1. SUFFICES ASSUME LastGiven(t, Delegations, m)
                 PROVE  locks'[t].to = history[m].to \/ \E d \in Crawlers : Owes(d, m)'
    BY <1>1, <1>11, LastBefore
  <2>2. m \in 1 .. reached /\ history[m].kind \in Delegations /\ history[m].who = t
    BY <2>1 DEF LastGiven, About
  <2>3. CASE DelegateLock(c) /\ Event(c).who = t
    <3>1. pos[c] <= m
      BY <1>9, <2>1, <2>3 DEF LastGiven
    <3>2. CASE pos[c] < m
      <4>1. pos'[c] <= m /\ m <= reached' /\ c \in begun' /\ ~(m <= upto'[c]) /\ pos'[c] \in Nat
        BY <1>1, <1>9, <2>2, <2>3, <3>2
      <4> QED
        BY <1>1, <4>1 DEF Owes, Wrote
    <3>3. CASE pos[c] = m
      <4>1. locks[t].here
        <5>1. Legal(history) /\ m \in DOMAIN history
          BY <1>0, <1>1, <2>2, EventAt, MembersConstants DEF TypeInv
        <5>2. PICK j \in 1 .. m : history[j].kind = "Deposit" /\ history[j].who = t
          BY <2>2, <5>1 DEF Legal, Delegations, LockKinds
        <5>3. j < m /\ j \in 1 .. reached
          BY <1>1, <2>2, <5>2 DEF Delegations
        <5>4. c \in begun /\ ~Owes(c, j) /\ About(t, {"Deposit"}, j)
          BY <1>9, <2>3, <3>3, <5>2, <5>3 DEF Owes, About
        <5> QED
          BY <1>0, <5>3, <5>4 DEF WrittenInv
      <4> QED
        BY <1>9, <2>3, <3>3, <4>1
    <3> QED
      BY <1>1, <1>9, <2>2, <2>3, <3>1, <3>2, <3>3
  <2>4. CASE ~(DelegateLock(c) /\ Event(c).who = t)
    <3>1. locks'[t].to = locks[t].to
      BY <1>8, <1>11, <2>4
    <3>2. CASE locks[t].to = history[m].to
      BY <3>1, <3>2
    <3>3. CASE locks[t].to # history[m].to
      <4>1. PICK d \in Crawlers : Owes(d, m)
        BY <1>0, <1>7, <1>11, <2>1, <3>3 DEF WrittenInv
      <4>2. CASE ~(d = c /\ Settles(c, m))
        BY <4>1, <4>2, OwesStays
      <4>3. CASE d = c /\ Settles(c, m)
        <5>1. About(t, {history[m].kind}, m) /\ history[m].kind \in LockKinds
          BY <2>2 DEF About, Delegations, LockKinds
        <5>2. LockStep(c) /\ Event(c).kind \in Delegations /\ Event(c).who = t
          BY <1>4, <2>2, <4>1, <4>3, <5>1
        <5>3. DelegateLock(c)
          BY <5>2 DEF LockStep, CreateLock, FindLock, WriteLock, Delegations
        <5> QED
          BY <2>4, <5>2, <5>3
      <4> QED
        BY <4>2, <4>3
    <3> QED
      BY <3>2, <3>3
  <2> QED
    BY <2>3, <2>4
<1> QED
  BY <1>3, <1>5, <1>6, <1>10, <1>11 DEF WrittenInv

LEMMA LocksAtTheEnd == TypeInv /\ LocksInv => LocksFollow
<1> SUFFICES ASSUME TypeInv, LocksInv, AllThrough, NEW t \in Tokens \ failed
             PROVE  LET happened(k) == LastOfKind(t, {k}, reached) > 0
                        delegation == LastOfKind(t, Delegations, reached)
                    IN /\ locks[t].here = happened("Deposit")
                       /\ locks[t].exit = happened("ExitQueued")
                       /\ locks[t].out = happened("Withdraw")
                       /\ ~locks[t].out =>
                            locks[t].to = IF delegation = 0 THEN Nobody ELSE history[delegation].to
  BY DEF LocksFollow, Delegations
<1>0. MarkInv(t) /\ WrittenInv(t)
      /\ locks[t] \in [here : BOOLEAN, exit : BOOLEAN, out : BOOLEAN, to : Accounts \union {Nobody}]
  BY DEF LocksInv, TypeInv, TypeOK
<1>1. \A m \in Nat : \A c \in Crawlers : ~Owes(c, m)
  BY ThroughOwesNothing DEF AllThrough, Owes
<1>2. ASSUME NEW k \in Marks PROVE Mark(t, k) <=> LastOfKind(t, {k}, reached) > 0
  <2>1. CASE \A i \in 1 .. reached : ~About(t, {k}, i)
    <3>1. ~LastGiven(t, {k}, LastOfKind(t, {k}, reached))
      BY <2>1 DEF LastGiven
    <3>2. LastOfKind(t, {k}, reached) = 0
      BY <3>1, LastOfKindIs
    <3>3. ~Mark(t, k)
      BY <1>0, <2>1 DEF MarkInv
    <3> QED
      BY <3>2, <3>3
  <2>2. CASE ~(\A i \in 1 .. reached : ~About(t, {k}, i))
    <3>1. PICK i \in 1 .. reached : About(t, {k}, i)
      BY <2>2
    <3>2. Mark(t, k)
      BY <1>0, <1>1, <3>1 DEF WrittenInv
    <3>3. LastOfKind(t, {k}, reached) > 0
      BY <2>2, LastOfKindIs
    <3> QED
      BY <3>2, <3>3
  <2> QED
    BY <2>1, <2>2
<1>3. /\ locks[t].here = (LastOfKind(t, {"Deposit"}, reached) > 0)
      /\ locks[t].exit = (LastOfKind(t, {"ExitQueued"}, reached) > 0)
      /\ locks[t].out = (LastOfKind(t, {"Withdraw"}, reached) > 0)
  BY <1>0, <1>2 DEF Mark, Marks
<1>4. ASSUME ~locks[t].out
      PROVE  LET delegation == LastOfKind(t, Delegations, reached)
             IN locks[t].to = IF delegation = 0 THEN Nobody ELSE history[delegation].to
  <2> DEFINE m == LastOfKind(t, Delegations, reached)
  <2>1. CASE m = 0 /\ \A i \in 1 .. reached : ~About(t, Delegations, i)
    BY <1>0, <1>4, <2>1 DEF WrittenInv
  <2>2. CASE m > 0 /\ LastGiven(t, Delegations, m)
    <3> HIDE DEF m
    <3>1. m \in Nat
      BY <2>2 DEF LastGiven
    <3>2. locks[t].to = history[m].to
      BY <1>0, <1>1, <1>4, <2>2, <3>1 DEF WrittenInv
    <3> QED
      BY <2>2, <3>1, <3>2 DEF m
  <2> QED
    BY <2>1, <2>2, LastOfKindIs
<1> QED
  BY <1>3, <1>4

\* When the crawlers are through with the events, the lock of every token no write
\* of which failed is marked as the chain has it and delegated to whom the chain
\* says, whichever handlers found it unmarked and wrote it after one another.
THEOREM LocksAlwaysFollow == Spec => []LocksFollow
<1>1. ASSUME Init PROVE LocksInv
  <2>1. \A t \in Tokens : MarkInv(t)
    BY <1>1 DEF Init, MarkInv, Mark, NoLock
  <2>2. \A t \in Tokens : WrittenInv(t)
    BY <1>1 DEF Init, WrittenInv, NoLock, LastGiven
  <2> QED
    BY <1>1, <2>1, <2>2 DEF Init, LocksInv, WriteInv
<1>2. ASSUME GivenInv, LocksInv, [Next]_vars PROVE LocksInv'
  <2>1. CASE Emit \/ UNCHANGED vars
    <3>1. UNCHANGED <<history, locks, pos, upto, pc, reached, begun, failed>>
      BY <2>1 DEF Emit, vars, records, ghosts
    <3>2. WriteInv'
      BY <1>2, <3>1 DEF LocksInv, WriteInv, Event
    <3>3. ASSUME NEW t \in Tokens PROVE MarkInv(t)'
      BY <1>2, <3>1 DEF LocksInv, MarkInv, Mark, NoLock, About
    <3>4. ASSUME NEW t \in Tokens \ failed PROVE WrittenInv(t)'
      <4>1. WrittenInv(t)
        BY <1>2, <3>4 DEF LocksInv
      <4> QED
        BY <3>1, <4>1 DEF WrittenInv, Mark, LastGiven, About, Owes, Wrote
    <3> QED
      BY <3>1, <3>2, <3>3, <3>4 DEF LocksInv
  <2>2. ASSUME NEW c \in Crawlers, StepOf(c) PROVE LocksInv'
    BY <1>2, <2>2, StepWriteInv, StepMarkInv, StepWrittenInv DEF LocksInv
  <2> QED
    BY <1>2, <2>1, <2>2 DEF Next, StepOf
<1>3. GivenInv /\ LocksInv => LocksFollow
  BY LocksAtTheEnd DEF GivenInv
<1> QED
  BY <1>1, <1>2, <1>3, AlwaysGivenInv, PTL DEF Spec

-----------------------------------------------------------------------------
(* Voting power follows the chain *)

\* The chain is cut between blocks only.
HeadInv == head = 0 \/ ClosesBlock(head)

\* A batch holds the events of its range to be written, fewer once some are.
BatchInv ==
  \A c \in Crawlers :
    /\ pc[c] = "bulk" => batch[c] = Latest(pos[c], upto[c])
    /\ pc[c] \in {"metrics", "fallback"} => batch[c] \subseteq Latest(pos[c], upto[c])

\* v is a power that a handler of event n may store.
ValueOf(a, n, v) ==
  IF history[n].kind = "VotesChanged"
  THEN v = history[n].total
  ELSE \E i \in n .. head : ClosesBlock(i) /\ v = Balance(a, i)

\* A record comes from an event that a handler was given.
Source(a, r) ==
  \E n \in 1 .. reached : About(a, PowerKinds, n) /\ r.block = history[n].block /\ ValueOf(a, n, r.vp)

\* What a handler is about to store is a power, unless it was guessed.
ValueFits(c) ==
  /\ pc[c] = "guess" => Event(c).who \in guessed
  /\ pc[c] \in {"member", "update"} /\ Event(c).kind \in {"Locked", "Unlocked"} =>
       Event(c).who \in guessed \/ ValueOf(Event(c).who, pos[c], value[c])

ValueInv == \A c \in Crawlers : ValueFits(c)

SourceInv ==
  \A a \in Accounts \ guessed : power[a].block <= 0 \/ Source(a, power[a])

\* Whoever does not owe the last event about an account has seen its record reach
\* the event's block; only a job that owes the event can have put it back.
BlockInv ==
  \A a \in Accounts \ (failed \union guessed) : \A m \in Nat : LastGiven(a, PowerKinds, m) =>
    \A c \in begun :
      \/ Owes(c, m)
      \/ power[a].block >= history[m].block
      \/ \E j \in Jobs : Owes(j, m)

PowerInv == HeadInv /\ BatchInv /\ ValueInv /\ SourceInv /\ BlockInv

LEMMA BatchApart ==
  ASSUME TypeInv, NEW c \in Crawlers, StepOf(c), NEW d \in Crawlers, d # c
  PROVE  batch'[d] = batch[d]
<1>1. CASE ReceiveRange(c) \/ BulkMetrics(c) \/ Fallback(c) \/ Crash(c)
  BY <1>1 DEF ReceiveRange, BulkMetrics, Fallback, Crash, Cut, TypeInv, TypeOK
<1>2. CASE ~(ReceiveRange(c) \/ BulkMetrics(c) \/ Fallback(c) \/ Crash(c))
  BY <1>2 DEF StepOf, PowerStep, LockStep, ListStep, Receive, AskMetrics, ReadBalance, GuessBalance,
              CreateMember, UpdatePower, BulkWrite, CreateLock, DelegateLock, FindLock, WriteLock,
              FindMember, AddMember, RemoveMember, HandlerFails, Redeliver
<1> QED
  BY <1>1, <1>2

LEMMA StepBatchInv ==
  ASSUME TypeInv, BatchInv, NEW c \in Crawlers, StepOf(c)
  PROVE  BatchInv'
<1>0. Apart(c) /\ history' = history /\ pc \in [Crawlers -> Places] /\ batch \in [Crawlers -> SUBSET (1 .. head)]
  BY StepApart DEF Apart, TypeInv, TypeOK
<1>1. \A a, b : Latest(a, b)' = Latest(a, b)
  BY <1>0 DEF Latest
<1>2. ASSUME NEW d \in Crawlers, d # c
      PROVE  /\ pc'[d] = "bulk" => batch'[d] = Latest(pos'[d], upto'[d])
             /\ pc'[d] \in {"metrics", "fallback"} => batch'[d] \subseteq Latest(pos'[d], upto'[d])
  BY <1>0, <1>2, BatchApart DEF Apart, BatchInv
<1>3. /\ pc'[c] = "bulk" => batch'[c] = Latest(pos'[c], upto'[c])
      /\ pc'[c] \in {"metrics", "fallback"} => batch'[c] \subseteq Latest(pos'[c], upto'[c])
  <2>1. CASE Receive(c)
    <3>1. Begin(c, pos[c], "read") \/ Begin(c, pos[c], "find") \/ Begin(c, pos[c], "update")
      BY <2>1 DEF Receive
    <3> QED
      BY <1>0, <3>1 DEF Begin
  <2>2. CASE ReceiveRange(c)
    <3>1. PICK to \in pos[c] .. head :
            Begin(c, to, "bulk") /\ batch' = [batch EXCEPT ![c] = Latest(pos[c], to)]
      BY <2>2 DEF ReceiveRange
    <3> QED
      BY <1>0, <3>1 DEF Begin, TypeInv, TypeOK
  <2>3. CASE BulkWrite(c) \/ BulkMetrics(c) \/ Fallback(c)
    <3>1. CASE BulkWrite(c)
      BY <1>0, <3>1 DEF BulkWrite, Goto, BatchInv
    <3>2. CASE BulkMetrics(c)
      BY <1>0, <3>2 DEF BulkMetrics, Goto, BatchInv
    <3>3. CASE Fallback(c)
      BY <1>0, <3>3 DEF Fallback, Goto, Done, BatchInv
    <3> QED
      BY <2>3, <3>1, <3>2, <3>3
  <2>4. CASE ReadBalance(c) \/ GuessBalance(c) \/ CreateMember(c) \/ UpdatePower(c) \/ LockStep(c) \/ ListStep(c)
             \/ AskMetrics(c) \/ Crash(c) \/ HandlerFails(c) \/ Redeliver(c)
    <3>1. pc'[c] \in {"member", "guess", "update", "message", "idle", "write"}
      BY <1>0, <2>4 DEF ReadBalance, GuessBalance, CreateMember, UpdatePower, LockStep, ListStep, CreateLock,
           DelegateLock, FindLock, WriteLock, FindMember, AddMember, RemoveMember, AskMetrics, Crash,
           HandlerFails, Redeliver, Goto, Done
    <3> QED
      BY <3>1
  <2> QED
    BY <2>1, <2>2, <2>3, <2>4 DEF StepOf, PowerStep
<1> QED
  BY <1>1, <1>2, <1>3 DEF BatchInv

\* More of the chain leaves what was a power of an event one.
LEMMA ValueStays ==
  ASSUME UNCHANGED history, head \in Nat, head' \in Nat, head <= head', NEW a, NEW n \in Nat, NEW v,
         ValueOf(a, n, v)
  PROVE  ValueOf(a, n, v)'
<1>1. \A i : Balance(a, i)' = Balance(a, i) /\ ClosesBlock(i)' = ClosesBlock(i)
  BY DEF Balance, LastOf, ClosesBlock
<1>2. n .. head \subseteq n .. head'
  OBVIOUS
<1> QED
  BY <1>1, <1>2 DEF ValueOf

LEMMA ValueApart ==
  ASSUME TypeInv, NEW c \in Crawlers, StepOf(c)
  PROVE  /\ \A d \in Crawlers : d # c => value'[d] = value[d]
         /\ guessed \subseteq guessed'
         /\ ~ReadBalance(c) => UNCHANGED guessed
         /\ ~ReadBalance(c) /\ ~GuessBalance(c) => UNCHANGED value
<1>1. CASE ReadBalance(c) \/ GuessBalance(c)
  BY <1>1 DEF ReadBalance, GuessBalance, ghosts, TypeInv, TypeOK
<1>2. CASE ~ReadBalance(c) /\ ~GuessBalance(c)
  BY <1>2 DEF StepOf, PowerStep, LockStep, ListStep, Receive, ReceiveRange, Begin, AskMetrics, CreateMember,
              UpdatePower, BulkWrite, BulkMetrics, Fallback, CreateLock, DelegateLock, FindLock, WriteLock,
              FindMember, AddMember, RemoveMember, Crash, HandlerFails, Redeliver, ghosts
<1> QED
  BY <1>1, <1>2

LEMMA ValueKept ==
  ASSUME UNCHANGED history, head \in Nat, head' \in Nat, head <= head', NEW d \in Crawlers,
         pos[d] \in Nat, pos'[d] = pos[d], value'[d] = value[d], guessed \subseteq guessed',
         pc'[d] # "guess" \/ pc[d] = "guess",
         pc'[d] \in {"member", "update"} => pc[d] \in {"member", "update"},
         ValueFits(d)
  PROVE  ValueFits(d)'
<1>1. Event(d)' = Event(d)
  BY DEF Event
<1>2. \A i : Balance(Event(d).who, i)' = Balance(Event(d).who, i) /\ ClosesBlock(i)' = ClosesBlock(i)
  BY <1>1 DEF Balance, LastOf, ClosesBlock
<1>3. pos[d] .. head \subseteq pos'[d] .. head'
  OBVIOUS
<1>4. ValueOf(Event(d).who, pos[d], value[d]) => ValueOf(Event(d).who, pos[d], value[d])'
  BY <1>1, <1>2, <1>3 DEF ValueOf
<1> QED
  BY <1>1, <1>4 DEF ValueFits

LEMMA OwnValue ==
  ASSUME TypeInv, HeadInv, ValueInv, NEW c \in Crawlers, StepOf(c)
  PROVE  ValueFits(c)'
<1>0. /\ Apart(c) /\ history' = history /\ head' = head /\ head \in Nat /\ pc \in [Crawlers -> Places]
      /\ pos \in [Crawlers -> 1 .. (head + 1)] /\ value \in [Crawlers -> Nat]
  BY StepApart DEF Apart, TypeInv, TypeOK
<1>1. \A d \in Crawlers : pos[d] \in Nat /\ ValueFits(d)
  BY <1>0 DEF ValueInv
<1>3. ASSUME pc'[c] \notin {"guess", "member", "update"} PROVE ValueFits(c)'
  BY <1>3 DEF ValueFits
<1>4. CASE Starts(c)
  <2>1. CASE Receive(c)
    <3>1. /\ pos' = pos /\ pc'[c] \in {"read", "find", "update"}
          /\ Event(c).kind \in {"Locked", "Unlocked"} => pc'[c] = "read"
      BY <1>0, <2>1 DEF Receive, Begin
    <3>2. Event(c)' = Event(c)
      BY <1>0, <3>1 DEF Event
    <3> QED
      BY <3>1, <3>2 DEF ValueFits
  <2>2. CASE ReceiveRange(c)
    <3>1. pc'[c] = "bulk"
      BY <1>0, <2>2 DEF ReceiveRange, Begin
    <3> QED
      BY <1>3, <3>1
  <2> QED
    BY <1>4, <2>1, <2>2 DEF Starts
<1>5. CASE ReadBalance(c)
  <2>1. /\ pc[c] = "read" /\ Event(c).kind \in {"Locked", "Unlocked"} /\ pos[c] \in 1 .. head
        /\ pos'[c] = pos[c] /\ Event(c)' = Event(c)
    BY <1>0, <1>5, EventType DEF ReadBalance, Goto, TypeInv, PlacesFit, Event
  <2>2. CASE pc'[c] = "guess"
    <3>1. Event(c).who \in guessed'
      BY <1>0, <1>5, <2>2 DEF ReadBalance, Goto
    <3> QED
      BY <2>1, <2>2, <3>1 DEF ValueFits
  <2>3. CASE pc'[c] # "guess"
    <3>1. pc'[c] = "member" /\ value'[c] = Balance(Event(c).who, head)
      BY <1>0, <1>5, <2>3 DEF ReadBalance, Goto
    <3>2. head \in pos[c] .. head /\ ClosesBlock(head)
      BY <1>0, <2>1 DEF HeadInv
    <3>3. /\ \A i : Balance(Event(c).who, i)' = Balance(Event(c).who, i)
          /\ \A i : ClosesBlock(i)' = ClosesBlock(i)
      BY <1>0, <2>1 DEF Balance, LastOf, ClosesBlock
    <3>4. history[pos[c]].kind # "VotesChanged"
      BY <2>1 DEF Event
    <3>5. ValueOf(Event(c).who, pos[c], value[c])'
      BY <1>0, <2>1, <3>1, <3>2, <3>3, <3>4 DEF ValueOf
    <3> QED
      BY <3>1, <3>5 DEF ValueFits
  <2> QED
    BY <2>2, <2>3
<1>6. CASE GuessBalance(c)
  <2>1. Event(c).who \in guessed /\ guessed' = guessed
    BY <1>1, <1>6, ValueApart DEF GuessBalance, ValueFits, ghosts
  <2>2. CASE \E place : Goto(c, place)
    <3>1. Event(c)' = Event(c)
      BY <1>0, <2>2 DEF Goto, Event
    <3> QED
      BY <2>1, <3>1 DEF ValueFits
  <2>3. CASE Done(c)
    BY <1>3, <2>3, Stops
  <2> QED
    BY <1>6, <2>2, <2>3 DEF GuessBalance
<1>7. CASE CreateMember(c)
  <2>1. pc[c] = "member" /\ pc'[c] = "update" /\ pos'[c] = pos[c] /\ value' = value
    BY <1>0, <1>7 DEF CreateMember, Goto
  <2> QED
    BY <1>0, <1>1, <2>1, ValueApart, ValueKept
<1>8. CASE UpdatePower(c) \/ BulkWrite(c) \/ BulkMetrics(c) \/ Fallback(c) \/ LockStep(c) \/ ListStep(c)
           \/ AskMetrics(c) \/ Crash(c) \/ HandlerFails(c)
  <2>1. pc'[c] \in {"metrics", "fallback", "message", "idle", "write"}
    BY <1>0, <1>8 DEF UpdatePower, BulkWrite, BulkMetrics, Fallback, LockStep, ListStep, CreateLock,
         DelegateLock, FindLock, WriteLock, FindMember, AddMember, RemoveMember, AskMetrics, Crash,
         HandlerFails, Goto, Done
  <2> QED
    BY <1>3, <2>1
<1>9. CASE Redeliver(c)
  BY <1>3, <1>9, Stops
<1> QED
  BY <1>4, <1>5, <1>6, <1>7, <1>8, <1>9 DEF StepOf, PowerStep, Starts

LEMMA StepValueInv ==
  ASSUME TypeInv, HeadInv, ValueInv, NEW c \in Crawlers, StepOf(c)
  PROVE  ValueInv'
<1>0. /\ Apart(c) /\ history' = history /\ head' = head /\ head \in Nat /\ pc \in [Crawlers -> Places]
      /\ pos \in [Crawlers -> 1 .. (head + 1)] /\ value \in [Crawlers -> Nat]
  BY StepApart DEF Apart, TypeInv, TypeOK
<1>1. \A d \in Crawlers : pos[d] \in Nat /\ ValueFits(d)
  BY <1>0 DEF ValueInv
<1>2. ASSUME NEW d \in Crawlers, d # c PROVE ValueFits(d)'
  <2>1. pc'[d] = pc[d] /\ pos'[d] = pos[d] /\ value'[d] = value[d]
    BY <1>0, <1>2, ValueApart DEF Apart
  <2> QED
    BY <1>0, <1>1, <2>1, ValueApart, ValueKept
<1> QED
  BY <1>2, OwnValue DEF ValueInv

\* Where a step writes the record of an account whose balance was never guessed.
WritesRecord(c, a) ==
  \/ power'[a] = power[a]
  \/ power'[a].block <= 0
  \/ /\ UpdatePower(c) /\ Event(c).who = a
     /\ power'[a].block = Event(c).block /\ ValueOf(a, pos[c], power'[a].vp)
  \/ /\ BulkWrite(c) \/ Fallback(c)
     /\ \E n \in batch[c] : /\ history[n].who = a /\ n \in Latest(pos[c], upto[c])
                            /\ power'[a] = [vp |-> history[n].total, block |-> history[n].block]

LEMMA RecordWrite ==
  ASSUME TypeInv, BatchInv, ValueInv, NEW c \in Crawlers, StepOf(c), NEW a \in Accounts \ guessed
  PROVE  WritesRecord(c, a)
<1>0. /\ power \in [Accounts -> Records] /\ power[a] \in Records /\ batch[c] \subseteq 1 .. head
      /\ ValueFits(c)
  BY DEF TypeInv, TypeOK, ValueInv
<1>1. CASE ~WritesPower(c)
  BY <1>1, PowerStays DEF WritesRecord
<1>2. CASE GuessBalance(c)
  <2>1. Event(c).who # a
    BY <1>0, <1>2 DEF GuessBalance, ValueFits
  <2>2. power'[a] = power[a]
    BY <1>0, <1>2, <2>1 DEF GuessBalance
  <2> QED
    BY <2>2 DEF WritesRecord
<1>3. CASE CreateMember(c)
  <2>1. power'[a] = power[a] \/ power'[a] = Known(a)
    BY <1>0, <1>3 DEF CreateMember
  <2> QED
    BY <2>1 DEF WritesRecord, Known
<1>4. CASE UpdatePower(c)
  <2> DEFINE v == IF Event(c).kind = "VotesChanged" THEN Event(c).total ELSE value[c]
  <2>1. CASE Event(c).who # a
    <3>1. power' = [power EXCEPT ![Event(c).who] = Stamped(@, v, Event(c).block)]
      BY <1>4 DEF UpdatePower
    <3> HIDE DEF v
    <3>2. power'[a] = power[a]
      BY ONLY <1>0, <2>1, <3>1, a \in Accounts \ guessed
    <3> QED
      BY ONLY <3>2 DEF WritesRecord
  <2>2. CASE Event(c).who = a
    <3>1. power'[a] = Stamped(power[a], v, Event(c).block) /\ pc[c] = "update" /\ Event(c).kind \in PowerKinds
      BY <1>0, <1>4, <2>2 DEF UpdatePower
    <3>2. ValueOf(a, pos[c], v)
      BY <1>0, <2>2, <3>1 DEF ValueFits, ValueOf, Event, PowerKinds
    <3> HIDE DEF v
    <3> QED
      BY <1>4, <2>2, <3>1, <3>2 DEF WritesRecord, Stamped
  <2> QED
    BY <2>1, <2>2
<1>5. CASE BulkWrite(c)
  <2>1. power'[a] = power[a] \/ \E n \in batch[c] : history[n].who = a /\
          power'[a] = [vp |-> history[n].total, block |-> history[n].block]
    BY <1>5, BatchWrites
  <2>2. batch[c] = Latest(pos[c], upto[c])
    BY <1>5 DEF BulkWrite, BatchInv
  <2> QED
    BY <1>5, <2>1, <2>2 DEF WritesRecord
<1>6. CASE Fallback(c)
  <2>1. power'[a] = power[a] \/ \E n \in batch[c] : history[n].who = a /\
          power'[a] = Stamped(power[a], history[n].total, history[n].block)
    BY <1>0, <1>6 DEF Fallback
  <2>2. batch[c] \subseteq Latest(pos[c], upto[c])
    BY <1>6 DEF Fallback, BatchInv
  <2> QED
    BY <1>6, <2>1, <2>2 DEF WritesRecord, Stamped
<1> QED
  BY <1>1, <1>2, <1>3, <1>4, <1>5, <1>6 DEF WritesPower

\* Events of the range that a job writes.
LEMMA InBatch ==
  ASSUME TypeInv, WorkInv, NEW c \in Crawlers, pc[c] # "idle", Batched(c), NEW n \in pos[c] .. upto[c]
  PROVE  n \in 1 .. reached /\ n \in 1 .. head /\ history[n].kind = "VotesChanged"
<1>1. /\ pos[c] \in 1 .. head /\ upto[c] \in 0 .. head /\ upto[c] <= reached /\ head \in Nat
      /\ reached \in Nat
  BY EventType DEF TypeInv, TypeOK, WorkInv, AtWork
<1>2. n \in 1 .. reached /\ n \in 1 .. head
  BY <1>1
<1>3. history[pos[c]].kind \in {"VotesChanged"} /\ {"VotesChanged"} \in Families
  BY DEF Batched, Event, Families
<1>4. history[n].kind \in {"VotesChanged"}
  BY <1>1, <1>2, <1>3, KindsDoNotMix
<1> QED
  BY <1>2, <1>4

LEMMA StepSourceInv ==
  ASSUME GivenInv, PowerInv, NEW c \in Crawlers, StepOf(c)
  PROVE  SourceInv'
<1> SUFFICES ASSUME NEW a \in Accounts \ guessed' PROVE power'[a].block <= 0 \/ Source(a, power[a])'
  BY DEF SourceInv
<1>0. /\ TypeInv /\ WorkInv /\ Apart(c) /\ UNCHANGED history /\ head' = head /\ head \in Nat
      /\ reached \in Nat /\ reached' \in Nat /\ reached <= reached'
  BY StepApart DEF GivenInv, Apart, TypeInv, TypeOK
<1>1. a \in Accounts \ guessed
  BY <1>0, ValueApart
<1>2. WritesRecord(c, a)
  BY <1>0, <1>1, RecordWrite DEF PowerInv
<1>3. ASSUME NEW n \in 1 .. reached, About(a, PowerKinds, n), power'[a].block = history[n].block,
             NEW v, v = power'[a].vp, ValueOf(a, n, v)
      PROVE  Source(a, power[a])'
  <2>1. n \in 1 .. reached' /\ About(a, PowerKinds, n)' /\ n \in Nat
    BY <1>0, <1>3 DEF About
  <2>2. ValueOf(a, n, v)'
    BY <1>0, <1>3, <2>1, ValueStays
  <2> QED
    BY <1>0, <1>3, <2>1, <2>2 DEF Source
<1>4. CASE power'[a] = power[a]
  <2>1. CASE power[a].block <= 0
    BY <1>4, <2>1
  <2>2. CASE Source(a, power[a])
    <3>1. PICK n \in 1 .. reached : /\ About(a, PowerKinds, n) /\ power[a].block = history[n].block
                                    /\ ValueOf(a, n, power[a].vp)
      BY <2>2 DEF Source
    <3> QED
      BY <1>3, <1>4, <3>1
  <2> QED
    BY <1>1, <2>1, <2>2 DEF PowerInv, SourceInv
<1>5. CASE /\ UpdatePower(c) /\ Event(c).who = a
           /\ power'[a].block = Event(c).block /\ ValueOf(a, pos[c], power'[a].vp)
  <2>1. pc[c] # "idle" /\ Event(c).kind \in PowerKinds
    BY <1>5 DEF UpdatePower
  <2>2. pos[c] \in 1 .. reached
    BY <1>0, <2>1, EventType DEF WorkInv, AtWork, TypeInv, TypeOK
  <2>3. About(a, PowerKinds, pos[c]) /\ power'[a].block = history[pos[c]].block
    BY <1>5, <2>1 DEF About, Event
  <2> QED
    BY <1>3, <1>5, <2>2, <2>3
<1>6. CASE /\ BulkWrite(c) \/ Fallback(c)
           /\ \E n \in batch[c] : /\ history[n].who = a /\ n \in Latest(pos[c], upto[c])
                                  /\ power'[a] = [vp |-> history[n].total, block |-> history[n].block]
  <2>1. PICK n \in batch[c] : /\ history[n].who = a /\ n \in Latest(pos[c], upto[c])
                              /\ power'[a] = [vp |-> history[n].total, block |-> history[n].block]
    BY <1>6
  <2>2. pc[c] # "idle" /\ Batched(c)
    BY <1>0, <1>6 DEF BulkWrite, Fallback, TypeInv, PlacesFit
  <2>3. n \in 1 .. reached /\ history[n].kind = "VotesChanged"
    BY <1>0, <2>1, <2>2, InBatch DEF Latest
  <2>4. About(a, PowerKinds, n) /\ ValueOf(a, n, power'[a].vp)
    BY <2>1, <2>3 DEF About, PowerKinds, ValueOf
  <2> QED
    BY <1>3, <2>1, <2>3, <2>4
<1> QED
  BY <1>2, <1>4, <1>5, <1>6 DEF WritesRecord

\* The first event of the last block of a range is taken for each account.
LEMMA LatestHas ==
  ASSUME TypeInv, NEW from \in Nat, NEW to \in 0 .. head, NEW m \in from .. to, from >= 1,
         \A i \in from .. to : history[i].who = history[m].who => i <= m
  PROVE  \E n \in Latest(from, to) : history[n].who = history[m].who
<1> DEFINE S == {i \in from .. to : history[i].who = history[m].who /\ history[i].block = history[m].block}
           T == {(to + 1) - i : i \in S}
<1>1. /\ head \in Nat /\ to \in Nat /\ m \in Nat /\ head \in 0 .. Len(history) /\ Len(history) \in Nat
      /\ DOMAIN history = 1 .. Len(history) /\ Legal(history)
  BY MembersConstants DEF TypeInv, TypeOK
<1>2. m \in S /\ S \subseteq 1 .. head
  BY <1>1
<1>3. T \subseteq 1 .. to /\ (to + 1) - m \in T
  BY <1>1, <1>2
<1>4. PICK x \in T : \A y \in T : y <= x
  <2> HIDE DEF T, S
  <2> QED
    BY <1>1, <1>3, Greatest
<1>5. PICK n \in S : x = (to + 1) - n
  BY <1>4
<1>6. \A i \in S : n <= i
  <2> SUFFICES ASSUME NEW i \in S PROVE n <= i
    OBVIOUS
  <2>1. (to + 1) - i \in T
    OBVIOUS
  <2>2. (to + 1) - i <= (to + 1) - n
    <3> HIDE DEF T
    <3> QED
      BY <1>4, <1>5, <2>1
  <2>3. i \in Nat /\ n \in Nat
    <3>1. i \in 1 .. head /\ n \in 1 .. head
      BY <1>2
    <3> QED
      BY <3>1
  <2> QED
    BY <1>1, <2>2, <2>3
<1>7. ASSUME NEW i \in from .. to, history[i].who = history[n].who
      PROVE  history[i].block < history[n].block \/ (history[i].block = history[n].block /\ i >= n)
  <2>1. i <= m /\ i \in 1 .. head /\ m \in 1 .. head
    BY <1>1, <1>7
  <2>2. history[i].block \in Nat /\ history[m].block \in Nat
    BY <2>1, EventAt DEF Events
  <2>3. history[i].block <= history[m].block
    <3>1. CASE i = m
      BY <2>2, <3>1
    <3>2. CASE i < m
      BY <1>1, <2>1, <3>2 DEF Legal
    <3> QED
      BY <1>1, <2>1, <3>1, <3>2
  <2>4. CASE history[i].block = history[m].block
    <3>1. i \in S
      BY <1>7, <2>4
    <3> QED
      BY <1>1, <1>2, <1>6, <2>4, <3>1
  <2> QED
    BY <1>7, <2>2, <2>3, <2>4
<1>8. n \in Latest(from, to)
  BY <1>7 DEF Latest
<1> QED
  BY <1>8

\* A handler that settles the last event about an account has written it.
LEMMA SettlesPower ==
  ASSUME GivenInv, PowerInv, NEW c \in Crawlers, StepOf(c), NEW a \in Accounts \ (failed' \union guessed'),
         NEW m \in Nat, LastGiven(a, PowerKinds, m), Owes(c, m), Settles(c, m)
  PROVE  power'[a].block >= history[m].block
<1>0. TypeInv /\ WorkInv /\ Apart(c)
  BY StepApart DEF GivenInv
<1>1. /\ pc[c] # "idle" /\ m \in pos[c] .. upto[c] /\ m \in 1 .. reached
      /\ pc[c] \notin {"metrics", "fallback", "message"}
      /\ history[m].who = a /\ history[m].kind \in PowerKinds
  BY DEF Settles, Owes, Wrote, LastGiven, About
<1>2. /\ pos[c] \in 1 .. head /\ head \in Nat /\ upto[c] \in 0 .. head /\ reached \in 0 .. head
      /\ upto[c] <= reached /\ power \in [Accounts -> Records] /\ pc \in [Crawlers -> Places]
  BY <1>0, <1>1, EventType DEF TypeInv, TypeOK, WorkInv, AtWork
<1>3. a \in Accounts /\ a \notin failed /\ a \notin guessed
  BY <1>0, FailedStays, ValueApart
<1>4. m \in 1 .. head /\ history[m].block \in Nat \ {0} /\ history[m].total \in Nat
  <2>1. m \in 1 .. head
    BY <1>1, <1>2
  <2> QED
    BY <1>0, <2>1, EventAt DEF Events
<1>5. CASE ~Batched(c)
  <2>1. upto[c] = pos[c] /\ m = pos[c] /\ Event(c) = history[m]
    BY <1>0, <1>1, <1>2, <1>5 DEF WorkInv, AtWork, Event
  <2>2. CASE UpdatePower(c)
    <3> DEFINE v == IF Event(c).kind = "VotesChanged" THEN Event(c).total ELSE value[c]
    <3>1. power'[a] = Stamped(power[a], v, history[m].block)
      BY <1>1, <1>2, <1>3, <2>1, <2>2 DEF UpdatePower
    <3> HIDE DEF v
    <3> QED
      BY <1>4, <3>1 DEF Stamped
  <2>3. ~HandlerFails(c)
    BY <1>1, <2>1 DEF HandlerFails
  <2>4. ~LockStep(c) /\ ~ListStep(c)
    BY <1>1, <2>1 DEF LockStep, CreateLock, DelegateLock, FindLock, WriteLock, ListStep, FindMember,
          AddMember, RemoveMember, PowerKinds
  <2>5. ~GuessBalance(c)
    BY <1>1, <1>3, <2>1 DEF GuessBalance, PowerInv, ValueInv, ValueFits
  <2>6. ~ReadBalance(c) /\ ~CreateMember(c) /\ ~Crash(c)
    <3>1. ASSUME ReadBalance(c) \/ CreateMember(c) \/ Crash(c) PROVE FALSE
      <4>1. pos'[c] = pos[c] /\ pc'[c] \in {"member", "guess", "update", "idle"}
        BY <1>2, <3>1 DEF ReadBalance, CreateMember, Crash, Goto
      <4>2. ~Done(c)
        BY <1>0, <1>2, <2>1, <4>1, DoneMoves
      <4> QED
        BY <4>1, <4>2 DEF Settles
    <3> QED
      BY <3>1
  <2>7. ~BulkWrite(c) /\ ~BulkMetrics(c) /\ ~Fallback(c)
    BY <1>0, <1>5 DEF BulkWrite, BulkMetrics, Fallback, TypeInv, PlacesFit
  <2>8. ~Receive(c) /\ ~ReceiveRange(c) /\ ~Redeliver(c) /\ ~AskMetrics(c)
    BY <1>1 DEF Receive, ReceiveRange, Begin, Redeliver, AskMetrics
  <2> QED
    BY <2>2, <2>3, <2>4, <2>5, <2>6, <2>7, <2>8 DEF StepOf, PowerStep
<1>6. CASE Batched(c)
  <2>1. pc[c] = "bulk"
    BY <1>0, <1>1, <1>6 DEF WorkInv, AtWork
  <2>2. BulkWrite(c)
    <3>1. ~Crash(c)
      <4>1. SUFFICES ASSUME Crash(c) PROVE FALSE
        OBVIOUS
      <4>2. pos'[c] = pos[c] /\ pc'[c] = "idle"
        BY <1>2, <4>1 DEF Crash, Goto
      <4>3. ~Done(c)
        BY <1>0, <1>1, <1>2, <4>2, DoneMoves
      <4> QED
        BY <4>2, <4>3 DEF Settles
    <3>2. ~HandlerFails(c)
      BY <2>1 DEF HandlerFails
    <3> QED
      BY <2>1, <3>1, <3>2 DEF StepOf, PowerStep, LockStep, ListStep, Receive, ReceiveRange, Begin, AskMetrics,
           ReadBalance, GuessBalance, CreateMember, UpdatePower, BulkMetrics, Fallback, CreateLock,
           DelegateLock, FindLock, WriteLock, FindMember, AddMember, RemoveMember, Redeliver
  <2>3. batch[c] = Latest(pos[c], upto[c])
    BY <2>1 DEF PowerInv, BatchInv
  <2>4. \A i \in pos[c] .. upto[c] : history[i].who = a => i <= m
    <3> SUFFICES ASSUME NEW i \in pos[c] .. upto[c], history[i].who = a PROVE i <= m
      OBVIOUS
    <3>1. i \in 1 .. reached /\ history[i].kind \in PowerKinds
      BY <1>0, <1>1, <1>6, InBatch DEF PowerKinds
    <3> QED
      BY <3>1 DEF LastGiven, About
  <2>5. PICK n \in batch[c] : history[n].who = a
    <3>1. pos[c] \in Nat /\ pos[c] >= 1
      BY <1>2
    <3>2. \A i \in pos[c] .. upto[c] : history[i].who = history[m].who => i <= m
      BY <1>1, <2>4
    <3>3. TypeInv /\ upto[c] \in 0 .. head /\ m \in pos[c] .. upto[c]
      BY <1>0, <1>1, <1>2
    <3>4. \E n \in Latest(pos[c], upto[c]) : history[n].who = history[m].who
      BY <3>1, <3>2, <3>3, LatestHas
    <3> QED
      BY <1>1, <2>3, <3>4
  <2>6. PICK written \in SUBSET batch[c] :
          /\ \/ written = batch[c] /\ UNCHANGED <<failed, faults>>
             \/ /\ written # batch[c] /\ Fault("fail")
                /\ failed' = failed \union {history[k].who : k \in batch[c] \ written}
          /\ power' = [b \in Accounts |->
               IF \E k \in written : history[k].who = b
               THEN LET k == CHOOSE k \in written : history[k].who = b
                    IN [vp |-> history[k].total, block |-> history[k].block]
               ELSE power[b]]
    BY <2>2 DEF BulkWrite
  <2>7. n \in written
    BY <2>5, <2>6
  <2>8. PICK k \in written : history[k].who = a /\ power'[a].block = history[k].block
    BY <1>3, <2>5, <2>6, <2>7
  <2>9. history[m].block < history[k].block \/ history[m].block = history[k].block
    BY <1>1, <2>3, <2>8 DEF Latest
  <2>10. k \in 1 .. head /\ history[k].block \in Nat
    <3>1. k \in 1 .. head
      BY <1>0, <2>3, <2>8, <1>1, <1>6, InBatch DEF Latest
    <3> QED
      BY <1>0, <3>1, EventAt DEF Events
  <2> QED
    BY <1>4, <2>8, <2>9, <2>10
<1> QED
  BY <1>5, <1>6

\* A job that puts a record back has still to write the last event.
LEMMA PutBack ==
  ASSUME GivenInv, PowerInv, NEW c \in Crawlers, StepOf(c), NEW a \in Accounts \ (failed' \union guessed'),
         NEW m \in Nat, LastGiven(a, PowerKinds, m), power[a].block >= history[m].block,
         ~(power'[a].block >= history[m].block)
  PROVE  c \in Jobs /\ Owes(c, m)'
<1>0. TypeInv /\ WorkInv /\ Apart(c)
  BY StepApart DEF GivenInv
<1>1. a \in Accounts \ guessed /\ m \in 1 .. reached /\ history[m].who = a /\ reached \in 0 .. head /\ head \in Nat
  BY <1>0, ValueApart DEF LastGiven, About, TypeInv, TypeOK
<1>2. m \in 1 .. head /\ history[m].block \in Nat \ {0} /\ power[a] \in Records
  <2>1. m \in 1 .. head
    BY <1>1
  <2> QED
    BY <1>0, <1>1, <2>1, EventAt DEF Events, TypeInv, TypeOK
<1>3. BulkWrite(c)
  <2>1. SUFFICES ASSUME ~BulkWrite(c) PROVE FALSE
    OBVIOUS
  <2>2. power'[a].block >= power[a].block
    BY <1>0, <1>1, <2>1, PowerForward
  <2>3. power'[a] \in Records
    BY <1>0, <1>1, StepTypeInv DEF Next, StepOf, TypeInv, TypeOK
  <2> QED
    BY <1>2, <2>2, <2>3 DEF Records, NoPower
<1>4. pc[c] = "bulk" /\ Batched(c) /\ Goto(c, "metrics")
  BY <1>0, <1>3 DEF BulkWrite, TypeInv, PlacesFit
<1>5. /\ pos[c] \in 1 .. head /\ upto[c] \in 0 .. head /\ upto[c] <= reached /\ pos[c] <= upto[c]
      /\ c \in begun
  BY <1>0, <1>4, EventType DEF TypeInv, TypeOK, WorkInv, AtWork
<1>6. batch[c] = Latest(pos[c], upto[c])
  BY <1>4 DEF PowerInv, BatchInv
<1>7. PICK n \in batch[c] : history[n].who = a /\ power'[a].block = history[n].block
  <2>1. power'[a] = power[a] \/ \E n \in batch[c] : history[n].who = a /\
          power'[a] = [vp |-> history[n].total, block |-> history[n].block]
    <3>1. a \in Accounts
      BY <1>1
    <3>2. \A b \in Accounts : power'[b] = power[b] \/ \E n \in batch[c] : history[n].who = b /\
            power'[b] = [vp |-> history[n].total, block |-> history[n].block]
      BY <1>3 DEF BulkWrite
    <3> QED
      BY <3>1, <3>2
  <2>2. power'[a] # power[a]
    OBVIOUS
  <2>3. PICK n \in batch[c] : history[n].who = a /\
          power'[a] = [vp |-> history[n].total, block |-> history[n].block]
    BY <2>1, <2>2
  <2>4. power'[a].block = history[n].block
    BY <2>3
  <2> QED
    BY <2>3, <2>4
<1>8. n \in pos[c] .. upto[c] /\ n \in 1 .. reached /\ n \in 1 .. head /\ history[n].kind \in PowerKinds
  BY <1>0, <1>4, <1>6, <1>7, InBatch DEF Latest, PowerKinds
<1>9. n <= m
  BY <1>7, <1>8 DEF LastGiven, About
<1>10. history[n].block \in Nat /\ history[n].block < history[m].block
  BY <1>0, <1>2, <1>7, <1>8, EventAt DEF Events
<1>11. ~(m \in pos[c] .. upto[c])
  <2>1. SUFFICES ASSUME m \in pos[c] .. upto[c] PROVE FALSE
    OBVIOUS
  <2>2. history[m].block < history[n].block \/ history[m].block = history[n].block
    BY <1>1, <1>6, <1>7, <2>1 DEF Latest
  <2> QED
    BY <1>2, <1>10, <2>2
<1>12. m > upto[c] /\ pos[c] <= m
  BY <1>1, <1>5, <1>8, <1>9, <1>11
<1>13. /\ pos'[c] = pos[c] /\ upto'[c] = upto[c] /\ c \in begun' /\ m <= reached' /\ reached' \in Nat
  BY <1>0, <1>1, <1>4, <1>5 DEF Goto, Apart, TypeInv, TypeOK
<1> QED
  BY <1>4, <1>5, <1>12, <1>13 DEF Owes, Wrote, Batched

LEMMA StepBlockInv ==
  ASSUME GivenInv, PowerInv, NEW c \in Crawlers, StepOf(c)
  PROVE  BlockInv'
<1> SUFFICES ASSUME NEW a \in Accounts \ (failed' \union guessed'), NEW m \in Nat,
                    LastGiven(a, PowerKinds, m)', NEW d \in begun'
             PROVE  \/ Owes(d, m)'
                    \/ power'[a].block >= history[m].block
                    \/ \E j \in Jobs : Owes(j, m)'
  <2>1. history' = history
    BY StepApart DEF GivenInv, Apart
  <2> QED
    BY <2>1 DEF BlockInv
<1>0. /\ TypeInv /\ WorkInv /\ Apart(c) /\ reached \in Nat /\ reached' \in Nat /\ reached <= reached'
      /\ UNCHANGED history
  <2>1. TypeInv /\ WorkInv
    BY DEF GivenInv
  <2>2. Apart(c)
    BY <2>1, StepApart
  <2>3. reached \in Nat
    BY ONLY <2>1 DEF TypeInv, TypeOK
  <2>4. reached' \in Nat /\ reached <= reached' /\ UNCHANGED history
    BY ONLY <2>2, <2>3 DEF Apart
  <2> QED
    BY ONLY <2>1, <2>2, <2>3, <2>4
<1>1. d \in Crawlers /\ m \in 1 .. reached' /\ a \in Accounts \ (failed \union guessed)
  <2>1. d \in Crawlers
    BY <1>0, StepTypeInv DEF Next, StepOf, TypeInv, TypeOK
  <2> QED
    BY <1>0, <2>1, FailedStays, ValueApart DEF LastGiven
<1>2. CASE m > reached \/ d \notin begun
  BY <1>1, <1>2, OwesAll
<1>3. CASE ~(m > reached) /\ d \in begun
  <2>1. LastGiven(a, PowerKinds, m)
    BY <1>0, <1>1, <1>3 DEF LastGiven, About
  <2>2. ASSUME NEW e \in Crawlers, Owes(e, m), ~Owes(e, m)' PROVE power'[a].block >= history[m].block
    <3>1. e = c /\ Settles(c, m)
      BY <2>2, OwesStays
    <3> QED
      BY <2>1, <2>2, <3>1, SettlesPower
  <2>3. CASE Owes(d, m)
    BY <1>1, <2>2, <2>3
  <2>4. CASE \E j \in Jobs : Owes(j, m)
    BY <2>2, <2>4, MembersConstants
  <2>5. CASE power[a].block >= history[m].block
    BY <2>1, <2>5, PutBack
  <2> QED
    BY <1>1, <1>3, <2>1, <2>3, <2>4, <2>5 DEF PowerInv, BlockInv
<1> QED
  BY <1>2, <1>3

LEMMA EmitPowerInv ==
  ASSUME GivenInv, PowerInv, Emit
  PROVE  PowerInv'
<1>0. TypeInv
  BY DEF GivenInv
<1>1. UNCHANGED <<history, power, pos, upto, pc, value, batch, reached, begun, failed, guessed>>
  BY DEF Emit, records, ghosts
<1>2. head \in Nat /\ head' \in Nat /\ head <= head'
  BY <1>0 DEF TypeInv, TypeOK, Emit
<1>3. HeadInv'
  BY <1>1 DEF Emit, HeadInv, ClosesBlock
<1>4. BatchInv'
  BY <1>1 DEF PowerInv, BatchInv, Latest
<1>5. ASSUME NEW c \in Crawlers PROVE ValueFits(c)'
  BY <1>0, <1>1, <1>2, ValueKept DEF PowerInv, ValueInv, TypeInv, TypeOK
<1>6. ASSUME NEW a \in Accounts \ guessed PROVE power[a].block <= 0 \/ Source(a, power[a])'
  <2>1. CASE power[a].block <= 0
    BY <2>1
  <2>2. CASE Source(a, power[a])
    <3>1. PICK n \in 1 .. reached : /\ About(a, PowerKinds, n) /\ power[a].block = history[n].block
                                    /\ ValueOf(a, n, power[a].vp)
      BY <2>2 DEF Source
    <3>2. ASSUME NEW v, v = power[a].vp PROVE ValueOf(a, n, v)'
      BY <1>1, <1>2, <3>1, <3>2, ValueStays
    <3> QED
      BY <1>1, <3>1, <3>2 DEF Source, About
  <2> QED
    BY <1>6, <2>1, <2>2 DEF PowerInv, SourceInv
<1>7. BlockInv'
  BY <1>1 DEF PowerInv, BlockInv, LastGiven, About, Owes, Wrote
<1> QED
  BY <1>1, <1>3, <1>4, <1>5, <1>6, <1>7 DEF PowerInv, ValueInv, SourceInv

\* The record that has reached the last event's block is one of its powers.
LEMMA PowerAtTheEnd == GivenInv /\ PowerInv => PowerFollows
<1> SUFFICES ASSUME GivenInv, PowerInv, \E c \in begun : Through(c), \A c \in Jobs \intersect begun : Through(c),
                    NEW a \in Accounts \ (failed \union guessed), LastOf(a, reached) > 0,
                    history[LastOf(a, reached)].kind \in PowerKinds
             PROVE  power[a] \in Admitted(a)
  BY DEF PowerFollows
<1> DEFINE m == LastOf(a, reached)
           b == history[m].block
<1>0. /\ TypeInv /\ reached \in 0 .. head /\ head \in Nat /\ power[a] \in Records /\ begun \subseteq Crawlers
      /\ Legal(history) /\ DOMAIN history = 1 .. Len(history) /\ head \in 0 .. Len(history)
      /\ Len(history) \in Nat
  BY MembersConstants DEF GivenInv, TypeInv, TypeOK
<1>1. /\ m \in 1 .. reached /\ history[m].who = a
      /\ \A i \in 1 .. reached : history[i].who = a => i <= m
  <2> DEFINE about == {i \in 1 .. reached : history[i].who = a}
  <2>1. about # {} /\ m = CHOOSE i \in about : \A j \in about : j <= i
    BY DEF LastOf
  <2>2. \E i \in about : \A j \in about : j <= i
    <3>1. reached \in Nat /\ about \in SUBSET (1 .. reached)
      BY <1>0
    <3> HIDE DEF about
    <3> QED
      BY <2>1, <3>1, Greatest
  <2> QED
    BY <2>1, <2>2
<1>2. LastGiven(a, PowerKinds, m) /\ m \in Nat /\ m \in 1 .. head
  BY <1>0, <1>1 DEF LastGiven, About
<1>3. b \in Nat \ {0}
  BY <1>0, <1>2, EventAt DEF Events
<1> HIDE DEF m, b
<1>4. power[a].block >= b
  <2>1. PICK c \in begun : Through(c)
    OBVIOUS
  <2>2. \A d \in Crawlers : Through(d) => ~Owes(d, m)
    BY <1>0, <1>2, ThroughOwesNothing
  <2>3. \A j \in Jobs : ~Owes(j, m)
    BY <2>2, MembersConstants DEF Owes
  <2>4. Owes(c, m) \/ power[a].block >= history[m].block \/ \E j \in Jobs : Owes(j, m)
    BY <1>2, <2>1 DEF PowerInv, BlockInv
  <2> QED
    BY <1>0, <2>1, <2>2, <2>3, <2>4 DEF b
<1>5. power[a] \in [vp : Nat, block : Nat] /\ ~(power[a].block <= 0)
  BY <1>0, <1>3, <1>4 DEF Records, NoPower
<1>6. PICK n \in 1 .. reached : /\ About(a, PowerKinds, n) /\ power[a].block = history[n].block
                                /\ ValueOf(a, n, power[a].vp)
  BY <1>5 DEF PowerInv, SourceInv, Source
<1>7. n <= m /\ n \in 1 .. head /\ history[n].who = a /\ history[n].kind \in PowerKinds
  BY <1>0, <1>1, <1>6 DEF About
<1>8. power[a].block = b
  <2>1. history[n].block <= history[m].block
    <3>1. CASE n = m
      BY <1>3, <3>1 DEF b
    <3>2. CASE n < m
      BY <1>0, <1>2, <1>7, <3>2 DEF Legal
    <3> QED
      BY <1>2, <1>7, <3>1, <3>2
  <2> QED
    BY <1>3, <1>4, <1>5, <1>6, <2>1 DEF b
<1>9. power[a] = [vp |-> power[a].vp, block |-> b]
  BY <1>5, <1>8
<1>10. CASE history[m].kind = "VotesChanged"
  <2>1. history[m].kind \in {"VotesChanged"} /\ {"VotesChanged"} \in Families
    BY <1>10 DEF Families
  <2>2. history[n].kind \in {"VotesChanged"}
    BY <1>0, <1>2, <1>7, <2>1, KindsDoNotMix
  <2>3. power[a].vp = history[n].total
    BY <1>6, <2>2 DEF ValueOf
  <2>4. history[n].block = b
    BY <1>6, <1>8
  <2>5. m # 0
    BY <1>2
  <2> QED
    BY <1>7, <1>9, <1>10, <2>3, <2>4, <2>5 DEF Admitted, m, b
<1>11. CASE history[m].kind # "VotesChanged"
  <2>1. history[n].kind # "VotesChanged"
    <3>1. SUFFICES ASSUME history[n].kind \in {"VotesChanged"} PROVE FALSE
      OBVIOUS
    <3>2. {"VotesChanged"} \in Families
      BY DEF Families
    <3>3. history[m].kind \in {"VotesChanged"}
      BY <1>0, <1>2, <1>7, <3>1, <3>2, KindsDoNotMix
    <3> QED
      BY <1>11, <3>3
  <2>2. PICK i \in n .. head : ClosesBlock(i) /\ power[a].vp = Balance(a, i)
    BY <1>6, <2>1 DEF ValueOf
  <2>3. i >= m
    <3>1. SUFFICES ASSUME i < m PROVE FALSE
      BY <1>0, <1>2, <1>7
    <3>2. i \in 1 .. head /\ i + 1 \in 1 .. head /\ i + 1 <= m
      BY <1>0, <1>2, <1>7, <3>1
    <3>3. history[i + 1].block > history[i].block
      BY <1>0, <2>2, <3>2 DEF ClosesBlock
    <3>4. \A j, k \in 1 .. head : j <= k => history[j].block <= history[k].block
      <4> SUFFICES ASSUME NEW j \in 1 .. head, NEW k \in 1 .. head, j <= k
                   PROVE  history[j].block <= history[k].block
        OBVIOUS
      <4>1. CASE j = k
        BY <1>0, <4>1, EventAt DEF Events
      <4>2. CASE j # k
        BY <1>0, <4>2 DEF Legal
      <4> QED
        BY <4>1, <4>2
    <3>5. history[n].block <= history[i].block /\ history[i + 1].block <= history[m].block
      BY <1>0, <1>2, <1>7, <3>2, <3>4
    <3>6. history[n].block = b /\ history[m].block = b
      BY <1>6, <1>8 DEF b
    <3>7. history[i].block \in Nat /\ history[i + 1].block \in Nat
      BY <1>0, <3>2, EventAt DEF Events
    <3> QED
      BY <1>3, <3>3, <3>5, <3>6, <3>7
  <2>4. i \in m .. head /\ m # 0
    BY <1>0, <1>2, <1>7, <2>3
  <2> QED
    BY <1>9, <1>11, <2>2, <2>4 DEF Admitted, m, b
<1> QED
  BY <1>10, <1>11

\* Once one crawler is through with the events and no job has any left, every
\* account has the power of the last event about it, or a balance the chain had
\* since, where no call failed: the others may go over events again as they like.
THEOREM PowerAlwaysFollows == Spec => []PowerFollows
<1>1. Init => PowerInv
  BY DEF Init, PowerInv, HeadInv, BatchInv, ValueInv, ValueFits, SourceInv, BlockInv, NoPower
<1>2. ASSUME GivenInv, PowerInv, [Next]_vars PROVE PowerInv'
  <2>1. CASE UNCHANGED vars
    <3>1. /\ UNCHANGED <<history, head, power, pos, upto, pc, value, batch, reached, begun, failed>>
          /\ UNCHANGED guessed
      BY <2>1 DEF vars, records, ghosts
    <3>2. HeadInv' /\ BatchInv'
      BY <1>2, <3>1 DEF PowerInv, HeadInv, ClosesBlock, BatchInv, Latest
    <3>3. ASSUME NEW c \in Crawlers PROVE ValueFits(c)'
      BY <1>2, <3>1, ValueKept DEF GivenInv, PowerInv, ValueInv, TypeInv, TypeOK
    <3>4. SourceInv'
      <4>1. \A a, n, v : ValueOf(a, n, v)' = ValueOf(a, n, v)
        BY <3>1 DEF ValueOf, Balance, LastOf, ClosesBlock
      <4> QED
        BY <1>2, <3>1, <4>1 DEF PowerInv, SourceInv, Source, About
    <3>5. BlockInv'
      BY <1>2, <3>1 DEF PowerInv, BlockInv, LastGiven, About, Owes, Wrote
    <3> QED
      BY <3>2, <3>3, <3>4, <3>5 DEF PowerInv, ValueInv
  <2>2. ASSUME NEW c \in Crawlers, StepOf(c) PROVE PowerInv'
    <3>1. HeadInv'
      BY <1>2, <2>2, StepApart DEF GivenInv, Apart, PowerInv, HeadInv, ClosesBlock
    <3> QED
      BY <1>2, <2>2, <3>1, StepBatchInv, StepValueInv, StepSourceInv, StepBlockInv DEF GivenInv, PowerInv
  <2> QED
    BY <1>2, <2>1, <2>2, EmitPowerInv DEF Next, StepOf
<1>3. GivenInv /\ PowerInv => PowerFollows
  BY PowerAtTheEnd
<1> QED
  BY <1>1, <1>2, <1>3, AlwaysGivenInv, PTL DEF Spec

=============================================================================
