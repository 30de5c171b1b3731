---------------------------- MODULE ProposalsProofs ----------------------------
(***************************************************************************)
(* Proofs about Proposals, for every set of legal histories, any number of  *)
(* crawlers, whatever plugins they are started for, and any faults: its type *)
(* invariant, that no two proposals of a plugin have the same incremental id *)
(* and that they have them in order, that the last edit wins, that results   *)
(* and stages follow the chain, sub-proposals too where whoever crawls their *)
(* proposal crawls them, and that an execution is never replaced.            *)
(***************************************************************************)
EXTENDS Proposals, FiniteSetTheorems, WellFoundedInduction, TLAPS

DocType ==
  [saved : BOOLEAN, num : Nat, content : Places0, stage : Nat, subs : SUBSET (Ids \X Nat),
   advances : Seq(DOMAIN history),
   results : Seq([event : DOMAIN history, result : DOMAIN history]),
   executed : Places0, canceled : Places0, parent : Places0, closed : BOOLEAN]

MemType == [num : Nat, doc : DocType, chain : Nat, open : SUBSET Ids]

\* Which events a place of a handler is for; a result to push is one the chain has.
FitsEvent(place, kind) ==
  /\ place \in {"number", "taken"} => kind = "Created"
  /\ place \in {"save", "pair", "paired"} => kind \in Creations
  /\ place = "push" => kind = "Reported"
  /\ place \in {"subs", "execute", "stage"} => kind = "Advanced"

TypeInv ==
  /\ history \in Histories /\ first \in {0, 1} /\ head \in 0 .. Len(history)
  /\ address \in [Crawlers -> SUBSET Ids] /\ Covered(history, address)
  /\ pos \in [Crawlers -> 1 .. (Len(history) + 1)] /\ pc \in [Crawlers -> Places]
  /\ \A c \in Crawlers : pos[c] <= head + 1 /\ (pc[c] # "idle" => pos[c] <= head)
  /\ mem \in [Crawlers -> MemType] /\ docs \in [Ids -> DocType]
  /\ failed \subseteq DOMAIN history /\ spoiled \subseteq Ids /\ raced \in BOOLEAN /\ faults \in Nat
  /\ givenUp \subseteq Ids
  /\ \A c \in Crawlers : FitsEvent(pc[c], Event(c).kind)
  /\ \A c \in Crawlers : pc[c] # "idle" => Event(c).id \in address[c]
  /\ \A c \in Crawlers : pc[c] = "push" => mem[c].chain \in DOMAIN history

LEMMA NoDocType ==
  ASSUME NEW n \in Nat, history \in Seq(Events)
  PROVE  Fresh(n) \in DocType /\ NoDoc \in DocType /\ Blank \in MemType
<1>1. 0 \in Places0
  BY DEF Places0
<1>2. Fresh(n) \in DocType /\ Fresh(0) \in DocType
  BY <1>1 DEF Fresh, DocType
<1>3. NoDoc \in DocType
  BY <1>2 DEF NoDoc, DocType
<1> QED
  BY <1>2, <1>3 DEF Blank, MemType

LEMMA InitTypeInv == Init => TypeInv
<1> SUFFICES ASSUME Init PROVE TypeInv
  OBVIOUS
<1>1. /\ history \in Seq(Events) /\ history \in Histories /\ Len(history) \in Nat
      /\ head \in 0 .. Len(history) /\ faults \in Nat
  BY ProposalConstants DEF Init
<1>2. docs \in [Ids -> DocType] /\ mem \in [Crawlers -> MemType]
  BY <1>1, NoDocType DEF Init
<1>3. pos \in [Crawlers -> 1 .. (Len(history) + 1)]
  BY <1>1 DEF Init
<1>4. pc \in [Crawlers -> Places] /\ \A c \in Crawlers : pc[c] = "idle" /\ pos[c] = 1
  BY DEF Init, Places
<1>5. first \in {0, 1}
  BY DEF Init
<1>6. head = 0
  BY DEF Init
<1>7. failed \subseteq DOMAIN history /\ spoiled \subseteq Ids /\ raced \in BOOLEAN /\ givenUp \subseteq Ids
  BY Zenon DEF Init
<1>8. \A c \in Crawlers : FitsEvent(pc[c], Event(c).kind)
  BY <1>4 DEF FitsEvent
<1>9. address \in [Crawlers -> SUBSET Ids] /\ Covered(history, address)
  <2>1. address \in Addresses /\ Covered(history, address)
    BY Zenon DEF Init
  <2> QED
    BY <2>1, ProposalConstants
<1> QED
  BY <1>1, <1>2, <1>3, <1>4, <1>5, <1>6, <1>7, <1>8, <1>9 DEF TypeInv

-----------------------------------------------------------------------------
(* The chain *)

\* Of a set of positions one has the highest value of f.
LEMMA Highest ==
  ASSUME NEW n \in Nat, NEW S \in SUBSET (1 .. n), S # {}, NEW f \in [S -> Nat]
  PROVE  \E x \in S : \A y \in S : f[y] <= f[x]
<1> DEFINE R == {ss \in Nat \X Nat : ss[1] < ss[2]}
           Below(m) == {y \in S : y <= m}
           Max(m) == \E x \in Below(m) : \A y \in Below(m) : f[y] <= f[x]
           Bad == {m \in Nat : Below(m) # {} /\ ~Max(m)}
<1>1. IsWellFoundedOn(R, Nat)
  BY NatLessThanWellFounded DEF OpToRel
<1>2. CASE Bad # {}
  <2>1. PICK m \in Bad : \A k \in Bad : ~(<<k, m>> \in R)
    <3> HIDE DEF R, Bad
    <3>1. Bad \subseteq Nat
      BY DEF Bad
    <3> QED
      BY <1>1, <1>2, <3>1, WFMin
  <2>2. m \in Nat /\ Below(m) # {} /\ ~Max(m)
    OBVIOUS
  <2>3. m - 1 \in Nat
    <3>1. PICK y \in S : y <= m
      BY <2>2
    <3>2. y \in Nat /\ 1 <= y
      OBVIOUS
    <3> QED
      BY <2>2, <3>1, <3>2
  <2>4. m - 1 \notin Bad
    <3>1. <<m - 1, m>> \in R
      BY <2>2, <2>3
    <3> HIDE DEF R, Bad
    <3> QED
      BY <2>1, <3>1
  <2>5. \A y \in S : y \in Nat
    OBVIOUS
  <2>6. \A y \in Below(m) : y \in Below(m - 1) \/ y = m
    BY <2>2, <2>5
  <2>7. Below(m - 1) \subseteq Below(m)
    <3> SUFFICES ASSUME NEW y \in S, y <= m - 1 PROVE y <= m
      OBVIOUS
    <3> QED
      BY <2>2, <2>5
  <2>8. CASE Below(m - 1) = {}
    <3>1. m \in Below(m) /\ \A y \in Below(m) : y = m
      BY <2>2, <2>6, <2>8
    <3>2. \A y \in Below(m) : f[y] <= f[m]
      BY <3>1
    <3> QED
      BY <2>2, <3>1, <3>2
  <2>9. CASE Below(m - 1) # {}
    <3>1. Max(m - 1)
      BY <2>3, <2>4, <2>9
    <3>2. PICK x \in Below(m - 1) : \A y \in Below(m - 1) : f[y] <= f[x]
      BY <3>1
    <3>3. CASE m \in S /\ f[m] > f[x]
      <4>1. m \in Below(m) /\ f[m] \in Nat /\ f[x] \in Nat
        BY <2>2, <3>3
      <4>2. \A y \in Below(m) : f[y] <= f[m]
        <5> SUFFICES ASSUME NEW y \in Below(m) PROVE f[y] <= f[m]
          OBVIOUS
        <5>1. f[y] \in Nat /\ (y = m \/ f[y] <= f[x])
          BY <2>6, <3>2
        <5> QED
          BY <3>3, <4>1, <5>1
      <4> QED
        BY <2>2, <4>1, <4>2
    <3>4. CASE ~(m \in S /\ f[m] > f[x])
      <4>1. \A y \in Below(m) : f[y] <= f[x]
        <5> SUFFICES ASSUME NEW y \in Below(m) PROVE f[y] <= f[x]
          OBVIOUS
        <5>1. f[y] \in Nat /\ f[x] \in Nat /\ y \in S
          OBVIOUS
        <5> QED
          BY <2>6, <3>2, <3>4, <5>1
      <4> QED
        BY <2>2, <2>7, <4>1
    <3> QED
      BY <3>3, <3>4
  <2> QED
    BY <2>8, <2>9
<1>3. CASE Bad = {}
  <2>1. Below(n) = S
    <3>1. \A y \in S : y <= n
      OBVIOUS
    <3> QED
      BY <3>1
  <2>2. Max(n)
    BY <1>3, <2>1
  <2> QED
    BY <2>1, <2>2
<1> QED
  BY <1>2, <1>3

\* A set of positions has a last one.
LEMMA Greatest ==
  ASSUME NEW n \in Nat, NEW S \in SUBSET (1 .. n), S # {}
  PROVE  \E m \in S : \A i \in S : i <= m
<1> DEFINE f == [i \in S |-> i]
<1>1. f \in [S -> Nat]
  OBVIOUS
<1>2. PICK x \in S : \A y \in S : f[y] <= f[x]
  <2> HIDE DEF f
  <2> QED
    BY <1>1, Highest
<1> QED
  BY <1>2

LEMMA LatestIn ==
  ASSUME NEW n \in Nat, NEW S \in SUBSET (1 .. n)
  PROVE  Latest(S) \in S \union {0} /\ (S # {} => Latest(S) \in S)
<1>1. \E m \in S \union {0} : \A i \in S : i <= m
  <2>1. CASE S = {}
    BY <2>1
  <2>2. CASE S # {}
    BY <2>2, Greatest
  <2> QED
    BY <2>1, <2>2
<1>2. Latest(S) \in S \union {0} /\ \A i \in S : i <= Latest(S)
  BY <1>1 DEF Latest
<1>3. ASSUME NEW i \in S PROVE Latest(S) # 0
  BY <1>2, <1>3
<1> QED
  BY <1>2, <1>3

LEMMA HistoryType ==
  ASSUME TypeInv
  PROVE  /\ history \in Seq(Events) /\ Len(history) \in Nat /\ DOMAIN history = 1 .. Len(history)
         /\ head \in Nat /\ head <= Len(history)
         /\ \A n \in 1 .. head : n \in DOMAIN history /\ n \in Nat
         /\ \A n \in DOMAIN history : history[n] \in Events /\ history[n].id \in Ids
                                      /\ history[n].of \in Ids /\ history[n].stage \in Nat
                                      /\ history[n].block \in Nat
<1>1. history \in Seq(Events)
  BY ProposalConstants DEF TypeInv
<1>2. Len(history) \in Nat /\ DOMAIN history = 1 .. Len(history) /\ head \in 0 .. Len(history)
  BY <1>1 DEF TypeInv
<1>3. \A n \in DOMAIN history : history[n] \in Events
  BY <1>1, <1>2
<1>4. head \in Nat /\ head <= Len(history) /\ \A n \in 1 .. head : n \in DOMAIN history /\ n \in Nat
  BY <1>2
<1> QED
  BY <1>1, <1>2, <1>3, <1>4 DEF Events

\* A proposal is created before all else that is about it.
LEMMA AfterCreation ==
  ASSUME TypeInv, NEW e \in DOMAIN history, history[e].kind \notin Creations
  PROVE  \E n \in DOMAIN history : n < e /\ history[n].kind \in Creations /\ history[n].id = history[e].id
<1>1. Legal(history)
  BY ProposalConstants DEF TypeInv
<1> QED
  BY <1>1 DEF Legal

LEMMA EventType ==
  ASSUME TypeInv, NEW c \in Crawlers, pc[c] # "idle" \/ pos[c] <= head
  PROVE  /\ pos[c] \in 1 .. head /\ pos[c] \in DOMAIN history /\ pos[c] \in Places0
         /\ Event(c) = history[pos[c]] /\ Event(c).id \in Ids /\ Event(c).of \in Ids
         /\ Event(c).stage \in Nat /\ Doc(c) \in DocType
<1>1. pos[c] \in 1 .. head /\ pos[c] \in DOMAIN history
  BY HistoryType DEF TypeInv
<1> QED
  BY <1>1, HistoryType DEF Event, Doc, Places0, TypeInv

LEMMA ChainType ==
  ASSUME TypeInv, NEW p \in Ids, NEW s
  PROVE  /\ StageNow(p) \in Nat /\ SubNow(p, s) \subseteq Ids
         /\ ResultNow(p, s) \in Nat
         /\ (\E n \in Mined("Reported", p) : history[n].stage = s) => ResultNow(p, s) \in DOMAIN history
<1>1. Mined("Advanced", p) \subseteq 1 .. head /\ Mined("Reported", p) \subseteq 1 .. head
  BY DEF Mined
<1>2. Latest(Mined("Advanced", p)) \in Mined("Advanced", p) \union {0}
  BY <1>1, LatestIn, HistoryType
<1>3. CurrentStage(p) \in Nat
  <2>1. first \in {0, 1}
    BY DEF TypeInv
  <2>2. Latest(Mined("Advanced", p)) # 0 => history[Latest(Mined("Advanced", p))].stage \in Nat
    BY <1>1, <1>2, HistoryType
  <2> QED
    BY <2>1, <2>2 DEF CurrentStage
<1>4. StageNow(p) \in Nat
  BY <1>3 DEF StageNow
<1>5. SubNow(p, s) \subseteq Ids
  BY HistoryType DEF SubNow
<1> DEFINE S == {n \in Mined("Reported", p) : history[n].stage = s}
<1>6. S \subseteq 1 .. head
  BY <1>1
<1>7. ResultNow(p, s) \in S \union {0} /\ (S # {} => ResultNow(p, s) \in S)
  <2> HIDE DEF S
  <2>1. Latest(S) \in S \union {0} /\ (S # {} => Latest(S) \in S)
    BY <1>6, LatestIn, HistoryType
  <2> QED
    BY <2>1 DEF ResultNow, S
<1> QED
  BY <1>4, <1>5, <1>6, <1>7, HistoryType

LEMMA BeforeFinite ==
  ASSUME TypeInv, NEW x, NEW n
  PROVE  IsFiniteSet(Before(x, n)) /\ Cardinality(Before(x, n)) \in Nat
<1>1. Before(x, n) \subseteq 1 .. head
  BY DEF Before, Siblings
<1>2. IsFiniteSet(1 .. head)
  BY FS_Interval, HistoryType
<1> QED
  BY <1>1, <1>2, FS_Subset, FS_CardinalityType

-----------------------------------------------------------------------------
(* A step of one crawler *)

\* What a step leaves of where the crawlers are.
Moved(c) ==
  /\ pc' \in [Crawlers -> Places] /\ pos' \in [Crawlers -> 1 .. (Len(history) + 1)]
  /\ mem' \in [Crawlers -> MemType] /\ failed' \subseteq DOMAIN history
  /\ \A d \in Crawlers : d # c => pc'[d] = pc[d] /\ pos'[d] = pos[d] /\ mem'[d] = mem[d]
  /\ pos'[c] <= head + 1
  /\ pc'[c] # "idle" => pos'[c] = pos[c] /\ pos[c] <= head /\ Event(c).id \in address[c]

\* The crawler's next place is one for its event.
Fits(c) ==
  /\ FitsEvent(pc'[c], Event(c).kind)
  /\ pc'[c] = "push" => mem'[c].chain \in DOMAIN history

Rest ==
  /\ docs' \in [Ids -> DocType] /\ spoiled' \subseteq Ids /\ raced' \in BOOLEAN /\ faults' \in Nat
  /\ givenUp' \subseteq Ids

LEMMA RestTypeInv ==
  ASSUME TypeInv, NEW c \in Crawlers, Moved(c), Rest, Fits(c), UNCHANGED <<given, head>>
  PROVE  TypeInv'
<1>1. UNCHANGED <<history, first, address, head>>
  BY DEF given
<1>2. DocType' = DocType /\ MemType' = MemType
  BY <1>1 DEF DocType, MemType, Places0
<1>3. \A d \in Crawlers : pos'[d] <= head' + 1 /\ (pc'[d] # "idle" => pos'[d] <= head')
  BY <1>1 DEF TypeInv, Moved
<1>4. ASSUME NEW d \in Crawlers PROVE FitsEvent(pc'[d], Event(d)'.kind)
  <2>1. CASE d = c /\ pc'[c] # "idle"
    BY <1>1, <2>1 DEF Fits, Event, Moved
  <2>2. CASE d # c
    BY <1>1, <2>2 DEF TypeInv, Event, Moved
  <2>3. CASE pc'[d] = "idle"
    BY <2>3 DEF FitsEvent
  <2> QED
    BY <2>1, <2>2, <2>3
<1>5. \A d \in Crawlers : pc'[d] = "push" => mem'[d].chain \in DOMAIN history'
  BY <1>1 DEF TypeInv, Moved, Fits
<1>6. \A d \in Crawlers : pc'[d] # "idle" => Event(d)'.id \in address'[d]
  BY <1>1 DEF TypeInv, Moved, Event
<1>7. address' \in [Crawlers -> SUBSET Ids] /\ Covered(history, address)'
  BY <1>1 DEF TypeInv, Covered
<1> QED
  BY <1>1, <1>2, <1>3, <1>4, <1>5, <1>6, <1>7 DEF TypeInv, Moved, Rest

LEMMA GotoMoves ==
  ASSUME TypeInv, NEW c \in Crawlers, pos[c] <= head, NEW place \in Places, NEW m \in MemType,
         pc[c] # "idle" \/ Event(c).id \in address[c], Goto(c, place, m)
  PROVE  Moved(c) /\ pc'[c] = place /\ mem'[c] = m /\ pos' = pos
BY DEF TypeInv, Moved, Goto

LEMMA ReturnMoves ==
  ASSUME TypeInv, NEW c \in Crawlers, pos[c] <= head, NEW dropped, Return(c, dropped)
  PROVE  Moved(c) /\ Fits(c) /\ pc'[c] = "idle"
<1>1. pos[c] \in DOMAIN history /\ pos[c] \in 1 .. head
  BY EventType
<1>2. pos[c] + 1 \in 1 .. (Len(history) + 1) /\ pos[c] + 1 <= head + 1
  BY <1>1, HistoryType
<1>3. pos' \in [Crawlers -> 1 .. (Len(history) + 1)] /\ pos'[c] <= head + 1
  BY <1>2 DEF TypeInv, Return
<1>4. pc' \in [Crawlers -> Places] /\ pc'[c] = "idle"
  BY DEF TypeInv, Return, Places
<1>5. mem' \in [Crawlers -> MemType]
  BY NoDocType, HistoryType DEF TypeInv, Return
<1>6. failed' \subseteq DOMAIN history
  BY <1>1 DEF TypeInv, Return
<1>7. \A d \in Crawlers : d # c => pc'[d] = pc[d] /\ pos'[d] = pos[d] /\ mem'[d] = mem[d]
  BY DEF TypeInv, Return
<1> QED
  BY <1>3, <1>4, <1>5, <1>6, <1>7 DEF Moved, Fits, FitsEvent

LEMMA GroupType ==
  ASSUME TypeInv, NEW c \in Crawlers, pos[c] <= head
  PROVE  Group(pos[c]) \subseteq Ids
<1>1. history[pos[c]].id \in Ids
  BY EventType
<1> QED
  BY <1>1 DEF Group

LEMMA BeginTypeInv ==
  ASSUME TypeInv, NEW c \in Crawlers, NEW kind, NEW place \in Places, NEW m \in MemType,
         Begin(c, kind, place, m), FitsEvent(place, kind), place # "push"
  PROVE  TypeInv'
<1>1. /\ pos[c] <= head /\ Event(c).kind = kind /\ UNCHANGED <<given, head, docs, faults, givenUp>>
      /\ pc[c] = "idle" /\ Event(c).id \in address[c]
  BY DEF Begin, Idle
<1>2. Group(pos[c]) \subseteq Ids
  BY <1>1, GroupType
<1>3. CASE Return(c, FALSE) /\ UNCHANGED <<spoiled, raced>>
  <2>1. Rest
    BY <1>1, <1>3 DEF Rest, TypeInv
  <2> QED
    BY <1>1, <1>3, <2>1, ReturnMoves, RestTypeInv
<1>4. CASE /\ Goto(c, place, m) /\ Overlap(c)
           /\ raced' = (raced \/ \E d \in Crawlers : pc[d] \in {"number", "taken", "save"})
  <2>1. spoiled' \subseteq Ids
    BY <1>2, <1>4 DEF Overlap, TypeInv
  <2>2. raced' \in BOOLEAN
    BY Zenon, <1>4
  <2>3. Rest
    BY <1>1, <2>1, <2>2 DEF Rest, TypeInv
  <2>4. Moved(c) /\ pc'[c] = place
    BY <1>1, <1>4, GotoMoves
  <2>5. Fits(c)
    BY <1>1, <2>4 DEF Fits
  <2> QED
    BY <1>1, <2>3, <2>4, <2>5, RestTypeInv
<1> QED
  BY <1>3, <1>4 DEF Begin

LEMMA NumberTypeInv ==
  ASSUME TypeInv, NEW c \in Crawlers,
         Create(c) \/ HarmonyCreate(c) \/ FindIncrementalId(c) \/ AskTaken(c)
  PROVE  TypeInv'
<1>0. history \in Seq(Events)
  BY HistoryType
<1>1. CASE Create(c)
  BY <1>0, <1>1, BeginTypeInv, NoDocType DEF Create, Places, FitsEvent
<1>2. CASE HarmonyCreate(c)
  <2> DEFINE k == Cardinality(Before(0, pos[c])) + 1
             m == [Blank EXCEPT !.num = k]
  <2>1. k \in Nat
    BY BeforeFinite
  <2>2. m \in MemType
    <3> HIDE DEF k
    <3> QED
      BY <1>0, <2>1, NoDocType DEF MemType
  <2>3. Begin(c, "HarmonyCreated", "save", m)
    BY <1>2 DEF HarmonyCreate
  <2>4. FitsEvent("save", "HarmonyCreated") /\ "save" \in Places
    BY DEF FitsEvent, Creations, Places
  <2> HIDE DEF m
  <2> QED
    BY <2>2, <2>3, <2>4, BeginTypeInv
<1>3. CASE FindIncrementalId(c)
  <2>1. /\ pc[c] = "number" /\ pos[c] <= head /\ UNCHANGED <<given, head, docs, spoiled, faults, raced, givenUp>>
        /\ Event(c).kind = "Created" /\ mem[c] \in MemType
    BY <1>3 DEF FindIncrementalId, TypeInv, FitsEvent
  <2>2. Rest
    BY <2>1 DEF Rest, TypeInv
  <2>3. ASSUME NEW k \in Nat, NEW place \in {"taken", "save"},
               Goto(c, place, [mem[c] EXCEPT !.num = k])
        PROVE  TypeInv'
    <3>1. [mem[c] EXCEPT !.num = k] \in MemType
      BY <2>1 DEF MemType
    <3>2. Moved(c) /\ pc'[c] = place
      BY <2>1, <2>3, <3>1, GotoMoves DEF Places
    <3>3. Fits(c)
      BY <2>1, <3>2 DEF Fits, FitsEvent, Creations
    <3> QED
      BY <2>1, <2>2, <3>2, <3>3, RestTypeInv
  <2>4. ASSUME NEW x \in LastSaved(pos[c])
        PROVE  docs[history[x].id].num + Cardinality(Before(x, pos[c])) \in Nat
    <3>1. x \in DOMAIN history
      BY HistoryType DEF LastSaved, Siblings
    <3>2. docs[history[x].id].num \in Nat
      BY <3>1, HistoryType DEF TypeInv, DocType
    <3> QED
      BY <3>2, BeforeFinite
  <2>5. Cardinality(Before(0, pos[c])) \in Nat
    BY BeforeFinite
  <2> QED
    BY <1>3, <2>3, <2>4, <2>5 DEF FindIncrementalId
<1>4. CASE AskTaken(c)
  <2>1. /\ pc[c] = "taken" /\ pos[c] <= head /\ UNCHANGED <<given, head, docs, spoiled, faults, raced>>
        /\ Event(c).kind = "Created" /\ mem[c] \in MemType
    BY <1>4 DEF AskTaken, TypeInv, FitsEvent
  <2>2. Rest
    <3>1. Event(c).id \in Ids /\ givenUp \subseteq Ids
      BY <2>1, EventType DEF TypeInv
    <3>2. givenUp' = givenUp \union {Event(c).id} \/ givenUp' = givenUp
      BY <1>4 DEF AskTaken
    <3>3. givenUp' \subseteq Ids
      BY <3>1, <3>2
    <3> QED
      BY <2>1, <3>3 DEF Rest, TypeInv
  <2>3. CASE Return(c, TRUE)
    BY <2>1, <2>2, <2>3, ReturnMoves, RestTypeInv
  <2>4. CASE Goto(c, "save", mem[c])
    <3>1. Moved(c) /\ pc'[c] = "save"
      BY <2>1, <2>4, GotoMoves DEF Places
    <3>2. Fits(c)
      BY <2>1, <3>1 DEF Fits, FitsEvent, Creations
    <3> QED
      BY <2>1, <2>2, <3>1, <3>2, RestTypeInv
  <2> QED
    BY <1>4, <2>3, <2>4 DEF AskTaken
<1> QED
  BY <1>1, <1>2, <1>3, <1>4

LEMMA SaveTypeInv ==
  ASSUME TypeInv, NEW c \in Crawlers, Save(c) \/ Pair(c) \/ Paired(c)
  PROVE  TypeInv'
<1>0. /\ pc[c] # "idle" /\ pos[c] <= head /\ UNCHANGED <<given, head, spoiled, faults, raced, givenUp>>
      /\ mem[c] \in MemType
  <2>1. pc[c] # "idle" /\ UNCHANGED <<given, head, spoiled, faults, raced, givenUp>>
    BY DEF Save, Pair, Paired
  <2> QED
    BY <2>1 DEF TypeInv
<1>1. /\ Event(c).id \in Ids /\ Event(c).stage \in Nat /\ 0 \in Places0 /\ pos[c] \in Places0
      /\ mem[c].num \in Nat /\ mem[c].chain \in Nat /\ history \in Seq(Events)
      /\ docs \in [Ids -> DocType] /\ docs[Event(c).id] \in DocType
  <2>1. Event(c).id \in Ids /\ Event(c).stage \in Nat /\ pos[c] \in Places0
    BY <1>0, EventType
  <2>2. mem[c].num \in Nat /\ mem[c].chain \in Nat
    BY <1>0 DEF MemType
  <2>3. docs \in [Ids -> DocType] /\ docs[Event(c).id] \in DocType
    BY <2>1 DEF TypeInv
  <2> QED
    BY <2>1, <2>2, <2>3, HistoryType DEF Places0
<1>2. CASE Save(c)
  <2>1. Fresh(mem[c].num) \in DocType /\ Blank \in MemType
    BY <1>1, NoDocType
  <2>2. [docs[Event(c).id] EXCEPT !.num = mem[c].num, !.content = 0] \in DocType
    BY <1>1 DEF DocType
  <2>3. docs' \in [Ids -> DocType]
    BY <1>1, <1>2, <2>1, <2>2 DEF Save
  <2>4. Rest
    BY <1>0, <2>3 DEF Rest, TypeInv
  <2>5. Event(c).kind \in Creations /\ Goto(c, "pair", Blank)
    BY <1>2 DEF Save, TypeInv, FitsEvent
  <2>6. Moved(c) /\ pc'[c] = "pair"
    BY <1>0, <2>1, <2>5, GotoMoves DEF Places
  <2> QED
    BY <1>0, <2>4, <2>5, <2>6, RestTypeInv DEF Fits, FitsEvent
<1>3. CASE Pair(c)
  <2> DEFINE s == IF Event(c).id = Event(c).of THEN StageNow(Event(c).id) ELSE Event(c).stage
  <2>1. s \in Nat
    BY <1>1, ChainType
  <2>2. [Blank EXCEPT !.chain = s] \in MemType
    <3> HIDE DEF s
    <3> QED
      BY <1>1, <2>1, NoDocType DEF MemType
  <2>3. Goto(c, "paired", [Blank EXCEPT !.chain = s]) /\ Event(c).kind \in Creations
    BY <1>3 DEF Pair, TypeInv, FitsEvent
  <2> HIDE DEF s
  <2>4. Moved(c) /\ pc'[c] = "paired"
    BY <1>0, <2>2, <2>3, GotoMoves DEF Places
  <2>5. Rest
    BY <1>0, <1>3 DEF Pair, Rest, TypeInv
  <2> QED
    BY <1>0, <2>3, <2>4, <2>5, RestTypeInv DEF Fits, FitsEvent
<1>4. CASE Paired(c)
  <2> DEFINE p == Event(c).id
             subs == IF p = Event(c).of THEN SubNow(p, mem[c].chain) ELSE {}
  <2>1. subs \subseteq Ids
    BY <1>1, ChainType
  <2>2. docs' = [q \in Ids |->
          IF q = p THEN [docs[p] EXCEPT !.stage = mem[c].chain, !.subs = subs \X {mem[c].chain}]
          ELSE IF q \in subs /\ docs[q].saved THEN [docs[q] EXCEPT !.parent = pos[c]]
          ELSE docs[q]]
    BY <1>4 DEF Paired
  <2> HIDE DEF subs
  <2>3. subs \X {mem[c].chain} \in SUBSET (Ids \X Nat)
    BY <1>1, <2>1
  <2>4. [docs[p] EXCEPT !.stage = mem[c].chain, !.subs = subs \X {mem[c].chain}] \in DocType
    BY <1>1, <2>3 DEF DocType
  <2>5. \A q \in Ids : [docs[q] EXCEPT !.parent = pos[c]] \in DocType
    BY <1>1 DEF DocType
  <2>6. docs' \in [Ids -> DocType]
    BY <1>1, <2>2, <2>4, <2>5
  <2>7. Rest
    BY <1>0, <2>6 DEF Rest, TypeInv
  <2> QED
    BY <1>0, <1>4, <2>7, ReturnMoves, RestTypeInv DEF Paired
<1> QED
  BY <1>2, <1>3, <1>4

LEMMA UpdateRestTypeInv ==
  ASSUME TypeInv, NEW c \in Crawlers, pos[c] <= head, NEW doc \in DocType,
         NEW met \in SUBSET Ids, Update(c, doc, met)
  PROVE  TypeInv'
<1>1. UNCHANGED <<given, head, faults, raced, givenUp>> /\ Group(pos[c]) \subseteq Ids
  BY GroupType DEF Update
<1>2. docs' \in [Ids -> DocType] /\ spoiled' \subseteq Ids
  BY <1>1 DEF Update, TypeInv
<1>3. Rest
  BY <1>1, <1>2 DEF Rest, TypeInv
<1>4. \E dropped \in BOOLEAN : Return(c, dropped)
  BY DEF Update
<1> QED
  BY <1>1, <1>3, <1>4, ReturnMoves, RestTypeInv

LEMMA UpdateTypeInv ==
  ASSUME TypeInv, NEW c \in Crawlers, Edit(c) \/ Execute(c) \/ Cancel(c) \/ Close(c)
  PROVE  TypeInv'
<1>0. pos[c] <= head
  BY DEF Edit, Execute, Cancel, Close, Idle
<1>1. Doc(c) \in DocType /\ pos[c] \in Places0
  BY <1>0, EventType
<1>2. /\ [Doc(c) EXCEPT !.content = pos[c]] \in DocType
      /\ [Doc(c) EXCEPT !.executed = IF @ = 0 THEN pos[c] ELSE @] \in DocType
      /\ [Doc(c) EXCEPT !.canceled = pos[c]] \in DocType
  BY <1>1 DEF DocType
<1>3. {} \in SUBSET Ids /\ BeingExecuted(c) \in SUBSET Ids
  BY <1>0, EventType DEF BeingExecuted
<1> QED
  BY <1>0, <1>1, <1>2, <1>3, UpdateRestTypeInv DEF Edit, Execute, Cancel, Close

LEMMA ReportTypeInv ==
  ASSUME TypeInv, NEW c \in Crawlers, Report(c) \/ PushResult(c)
  PROVE  TypeInv'
<1>0. /\ pos[c] <= head /\ UNCHANGED <<given, head, faults, raced, givenUp>>
      /\ Event(c).kind = "Reported" /\ (pc[c] # "idle" \/ Event(c).id \in address[c])
  BY DEF Report, PushResult, Idle, TypeInv, FitsEvent
<1>1. /\ Event(c).id \in Ids /\ Doc(c) \in DocType /\ history \in Seq(Events)
      /\ pos[c] \in DOMAIN history /\ pos[c] \in 1 .. head
      /\ Event(c) = history[pos[c]] /\ Group(pos[c]) \subseteq Ids
  BY <1>0, EventType, HistoryType, GroupType
<1>2. CASE Report(c)
  <2>1. spoiled' \subseteq Ids
    BY <1>1, <1>2 DEF Report, Overlap, TypeInv
  <2>2. Rest
    BY <1>0, <1>2, <2>1 DEF Report, Rest, TypeInv
  <2>3. CASE Return(c, TRUE)
    BY <1>0, <2>2, <2>3, ReturnMoves, RestTypeInv
  <2>4. CASE Goto(c, "push", [Blank EXCEPT !.doc = Doc(c),
                                !.chain = ResultNow(Event(c).id, Event(c).stage)])
    <3> DEFINE r == ResultNow(Event(c).id, Event(c).stage)
    <3>1. pos[c] \in Mined("Reported", Event(c).id)
      BY <1>0, <1>1 DEF Mined
    <3>2. r \in Nat /\ r \in DOMAIN history
      BY <1>1, <3>1, ChainType
    <3> HIDE DEF r
    <3>3. [Blank EXCEPT !.doc = Doc(c), !.chain = r] \in MemType
          /\ [Blank EXCEPT !.doc = Doc(c), !.chain = r].chain = r
      BY <1>1, <3>2, NoDocType DEF MemType
    <3>4. Goto(c, "push", [Blank EXCEPT !.doc = Doc(c), !.chain = r])
      BY <2>4 DEF r
    <3>5. Moved(c) /\ pc'[c] = "push" /\ mem'[c].chain = r
      BY <1>0, <3>3, <3>4, GotoMoves DEF Places
    <3> QED
      BY <1>0, <2>2, <3>2, <3>5, RestTypeInv DEF Fits, FitsEvent
  <2> QED
    BY <1>2, <2>3, <2>4 DEF Report
<1>3. CASE PushResult(c)
  <2> DEFINE r == [event |-> pos[c], result |-> mem[c].chain]
  <2>1. r \in [event : DOMAIN history, result : DOMAIN history]
    BY <1>1, <1>3 DEF PushResult, TypeInv
  <2>2. /\ docs[Event(c).id] \in DocType
        /\ docs[Event(c).id].results \in Seq([event : DOMAIN history, result : DOMAIN history])
    BY <1>1 DEF TypeInv, DocType
  <2>3. Append(docs[Event(c).id].results, r) \in Seq([event : DOMAIN history, result : DOMAIN history])
    BY <2>1, <2>2
  <2> DEFINE all == Append(docs[Event(c).id].results, r)
  <2>4. [docs[Event(c).id] EXCEPT !.results = all] \in DocType
    <3> HIDE DEF all
    <3> QED
      BY <2>2, <2>3 DEF all, DocType
  <2>5. docs' = docs \/ docs' = [docs EXCEPT ![Event(c).id] = [docs[Event(c).id] EXCEPT !.results = all]]
    BY <1>1, <1>3 DEF PushResult, TypeInv
  <2>6. docs' \in [Ids -> DocType]
    <3> HIDE DEF all
    <3> QED
      BY <2>4, <2>5 DEF TypeInv
  <2>7. Rest
    BY <1>0, <1>3, <2>6 DEF PushResult, Rest, TypeInv
  <2> QED
    BY <1>0, <1>3, <2>7, ReturnMoves, RestTypeInv DEF PushResult
<1> QED
  BY <1>2, <1>3

LEMMA AdvanceTypeInv ==
  ASSUME TypeInv, NEW c \in Crawlers,
         Advance(c) \/ FindSubs(c) \/ ExecuteSubs(c) \/ AdvanceStage(c)
  PROVE  TypeInv'
<1>0. /\ pos[c] <= head /\ UNCHANGED <<given, head, faults, raced, givenUp>> /\ Event(c).kind = "Advanced"
      /\ mem[c] \in MemType /\ (pc[c] # "idle" \/ Event(c).id \in address[c])
  BY DEF Advance, FindSubs, ExecuteSubs, AdvanceStage, Idle, TypeInv, FitsEvent
<1>1. /\ Event(c).id \in Ids /\ Event(c).stage \in Nat /\ Doc(c) \in DocType /\ history \in Seq(Events)
      /\ pos[c] \in DOMAIN history /\ pos[c] \in Places0 /\ Group(pos[c]) \subseteq Ids
      /\ docs \in [Ids -> DocType] /\ mem[c].doc \in DocType
  BY <1>0, EventType, HistoryType, GroupType DEF TypeInv, MemType
<1>2. CASE Advance(c)
  <2>1. spoiled' \subseteq Ids
    BY <1>1, <1>2 DEF Advance, Overlap, TypeInv
  <2>2. Rest
    BY <1>0, <1>2, <2>1 DEF Advance, Rest, TypeInv
  <2>3. CASE Return(c, TRUE)
    BY <1>0, <2>2, <2>3, ReturnMoves, RestTypeInv
  <2>4. CASE Goto(c, "subs", [Blank EXCEPT !.doc = Doc(c)])
    <3>1. [Blank EXCEPT !.doc = Doc(c)] \in MemType
      BY <1>1, NoDocType DEF MemType
    <3>2. Moved(c) /\ pc'[c] = "subs"
      BY <1>0, <2>4, <3>1, GotoMoves DEF Places
    <3> QED
      BY <1>0, <2>2, <3>2, RestTypeInv DEF Fits, FitsEvent
  <2> QED
    BY <1>2, <2>3, <2>4 DEF Advance
<1>3. CASE FindSubs(c)
  <2> DEFINE found == {q \in SubsBefore(c) : docs[q].saved /\ docs[q].executed = 0}
  <2>1. found \subseteq Ids
    BY DEF SubsBefore
  <2>2. Goto(c, "execute", [mem[c] EXCEPT !.open = found])
    BY <1>3 DEF FindSubs
  <2> HIDE DEF found
  <2>3. [mem[c] EXCEPT !.open = found] \in MemType
    BY <1>0, <2>1 DEF MemType
  <2>4. Moved(c) /\ pc'[c] = "execute"
    BY <1>0, <2>2, <2>3, GotoMoves DEF Places
  <2>5. Rest
    BY <1>0, <1>3 DEF FindSubs, Rest, TypeInv
  <2> QED
    BY <1>0, <2>4, <2>5, RestTypeInv DEF Fits, FitsEvent
<1>4. CASE ExecuteSubs(c)
  <2> DEFINE new == {q \in SubNow(Event(c).id, Event(c).stage) : docs[q].saved}
             After(q) == [docs[q] EXCEPT !.executed = IF q \in mem[c].open THEN pos[c] ELSE @,
                                         !.parent = IF q \in new THEN pos[c] ELSE @]
  <2>1. docs' = [q \in Ids |-> After(q)]
    BY <1>4 DEF ExecuteSubs
  <2> HIDE DEF new
  <2>2. \A q \in Ids : After(q) \in DocType
    <3> SUFFICES ASSUME NEW q \in Ids PROVE After(q) \in DocType
      OBVIOUS
    <3> DEFINE e1 == IF q \in mem[c].open THEN pos[c] ELSE docs[q].executed
               p1 == IF q \in new THEN pos[c] ELSE docs[q].parent
    <3>1. docs[q] \in DocType
      BY ONLY <1>1, q \in Ids
    <3>2. e1 \in Places0 /\ p1 \in Places0
      BY ONLY <1>1, <3>1 DEF DocType
    <3>3. After(q) = [docs[q] EXCEPT !.executed = e1, !.parent = p1]
      BY ONLY <3>1 DEF DocType
    <3> HIDE DEF e1, p1
    <3>4. [docs[q] EXCEPT !.executed = e1, !.parent = p1] \in DocType
      BY ONLY <3>1, <3>2 DEF DocType
    <3> QED
      BY ONLY <3>3, <3>4
  <2>3. docs' \in [Ids -> DocType]
    BY <2>1, <2>2
  <2>4. Rest
    BY <1>0, <1>4, <2>3 DEF ExecuteSubs, Rest, TypeInv
  <2>5. Moved(c) /\ pc'[c] = "stage"
    BY <1>0, <1>4, GotoMoves DEF ExecuteSubs, Places
  <2> QED
    BY <1>0, <2>4, <2>5, RestTypeInv DEF Fits, FitsEvent
<1>5. CASE AdvanceStage(c)
  <2> DEFINE s == Event(c).stage
             all == mem[c].doc.subs \union (SubNow(Event(c).id, s) \X {s})
             list == Append(mem[c].doc.advances, pos[c])
             after == [docs[Event(c).id] EXCEPT !.stage = s, !.subs = all, !.advances = list]
  <2>1. all \in SUBSET (Ids \X Nat)
    <3>1. SubNow(Event(c).id, s) \subseteq Ids
      BY <1>1, ChainType
    <3>2. mem[c].doc.subs \in SUBSET (Ids \X Nat)
      BY <1>1 DEF DocType
    <3> QED
      BY <1>1, <3>1, <3>2
  <2>2. list \in Seq(DOMAIN history)
    <3>1. mem[c].doc.advances \in Seq(DOMAIN history)
      BY <1>1 DEF DocType
    <3> QED
      BY <1>1, <3>1
  <2>3. docs' = docs \/ docs' = [docs EXCEPT ![Event(c).id] = after]
    BY <1>1, <1>5 DEF AdvanceStage
  <2>4. after \in DocType
    <3> HIDE DEF all, list
    <3> QED
      BY <1>1, <2>1, <2>2 DEF DocType
  <2> HIDE DEF after
  <2>5. docs' \in [Ids -> DocType]
    BY <1>1, <2>3, <2>4
  <2>6. Rest
    BY <1>0, <1>5, <2>5 DEF AdvanceStage, Rest, TypeInv
  <2> QED
    BY <1>0, <1>5, <2>6, ReturnMoves, RestTypeInv DEF AdvanceStage
<1> QED
  BY <1>2, <1>3, <1>4, <1>5

LEMMA SkipTypeInv ==
  ASSUME TypeInv, NEW c \in Crawlers, Skip(c)
  PROVE  TypeInv'
<1>1. pos[c] <= head /\ pos[c] \in 1 .. head
  BY EventType DEF Skip
<1>2. pos[c] + 1 \in 1 .. (Len(history) + 1) /\ pos[c] + 1 <= head + 1
  BY <1>1, HistoryType
<1>3. Moved(c) /\ pc'[c] = "idle"
  BY <1>1, <1>2 DEF Skip, Moved, TypeInv
<1>4. Rest /\ UNCHANGED <<given, head>>
  BY DEF Skip, Rest, TypeInv
<1> QED
  BY <1>3, <1>4, RestTypeInv DEF Fits, FitsEvent

LEMMA FaultTypeInv ==
  ASSUME TypeInv, NEW c \in Crawlers, Crash(c) \/ HandlerFails(c) \/ Redeliver(c)
  PROVE  TypeInv'
<1>0. faults' \in Nat /\ UNCHANGED <<given, head, docs, raced, givenUp>>
  <2>1. \E k : Fault(k)
    BY DEF Crash, HandlerFails, Redeliver
  <2>2. faults' \in Nat
    BY <2>1 DEF Fault, TypeInv
  <2> QED
    BY <2>2 DEF Crash, HandlerFails, Redeliver
<1>1. CASE Crash(c)
  <2>1. pos[c] <= head
    BY <1>1 DEF Crash, TypeInv
  <2>2. spoiled' \subseteq Ids
    BY <1>1, <2>1, GroupType DEF Crash, TypeInv
  <2>3. Rest
    BY <1>0, <2>2 DEF Rest, TypeInv
  <2>4. Blank \in MemType /\ "idle" \in Places
    BY NoDocType, HistoryType DEF Places
  <2>5. Moved(c) /\ pc'[c] = "idle"
    BY <1>1, <2>1, <2>4, GotoMoves DEF Crash
  <2> QED
    BY <1>0, <2>3, <2>5, RestTypeInv DEF Fits, FitsEvent
<1>2. CASE HandlerFails(c)
  <2>1. pos[c] <= head
    BY <1>2 DEF HandlerFails, Idle, TypeInv
  <2>2. spoiled' \subseteq Ids
    BY <1>2, <2>1, GroupType DEF HandlerFails, TypeInv
  <2>3. Rest
    BY <1>0, <2>2 DEF Rest, TypeInv
  <2> QED
    BY <1>0, <1>2, <2>1, <2>3, ReturnMoves, RestTypeInv DEF HandlerFails
<1>3. CASE Redeliver(c)
  <2>1. PICK n \in 1 .. (pos[c] - 1) : pos' = [pos EXCEPT ![c] = n]
    BY <1>3 DEF Redeliver
  <2>2. n \in 1 .. (Len(history) + 1) /\ n <= head + 1
    <3>1. pos[c] \in 1 .. (Len(history) + 1) /\ pos[c] <= head + 1 /\ head \in Nat
      BY HistoryType DEF TypeInv
    <3> QED
      BY <3>1, HistoryType
  <2>3. Rest
    BY <1>0, <1>3 DEF Redeliver, Rest, TypeInv
  <2>4. Moved(c) /\ pc'[c] = "idle"
    BY <1>3, <2>1, <2>2 DEF Redeliver, Moved, TypeInv
  <2> QED
    BY <1>0, <2>3, <2>4, RestTypeInv DEF Fits, FitsEvent
<1> QED
  BY <1>1, <1>2, <1>3

\* A block is a run of events, and all of it is mined.
LEMMA MineType ==
  ASSUME TypeInv, Mine
  PROVE  head' \in Nat /\ head < head' /\ head' <= Len(history)
<1> DEFINE Ends(n) == /\ history[n].block = history[head + 1].block
                      /\ n = Len(history) \/ history[n + 1].block # history[n].block
           S == {n \in (head + 1) .. Len(history) : history[n].block = history[head + 1].block}
<1>1. head \in Nat /\ Len(history) \in Nat /\ head < Len(history)
  BY HistoryType DEF Mine
<1>2. S \subseteq 1 .. Len(history) /\ head + 1 \in S
  BY <1>1
<1>3. PICK m \in S : \A i \in S : i <= m
  BY <1>1, <1>2, Greatest
<1>4. m \in (head + 1) .. Len(history) /\ Ends(m)
  <2>1. CASE m = Len(history)
    BY <1>3, <2>1
  <2>2. CASE m # Len(history)
    <3>1. m + 1 \in (head + 1) .. Len(history) /\ ~(m + 1 <= m)
      BY <1>1, <1>3, <2>2
    <3>2. m + 1 \notin S
      BY <1>3, <3>1
    <3> QED
      BY <1>3, <3>1, <3>2
  <2> QED
    BY <2>1, <2>2
<1>5. head' = CHOOSE n \in (head + 1) .. Len(history) : Ends(n)
  BY DEF Mine
<1>6. head' \in (head + 1) .. Len(history)
  <2> HIDE DEF Ends
  <2> QED
    BY <1>4, <1>5
<1> QED
  BY <1>1, <1>6

LEMMA MineTypeInv ==
  ASSUME TypeInv, Mine
  PROVE  TypeInv'
<1>1. head' \in 0 .. Len(history) /\ head < head' /\ head \in Nat /\ head' \in Nat
  BY MineType, HistoryType
<1>2. UNCHANGED <<history, first, address, docs, pos, pc, mem, failed, spoiled, faults, raced, givenUp>>
  BY DEF Mine, given
<1>3. DocType' = DocType /\ MemType' = MemType
  BY <1>2 DEF DocType, MemType, Places0
<1>4. \A c \in Crawlers : pos'[c] <= head' + 1 /\ (pc'[c] # "idle" => pos'[c] <= head')
  <2> SUFFICES ASSUME NEW c \in Crawlers
               PROVE  pos'[c] <= head' + 1 /\ (pc'[c] # "idle" => pos'[c] <= head')
    OBVIOUS
  <2>1. pos[c] \in Nat /\ pos[c] <= head + 1 /\ (pc[c] # "idle" => pos[c] <= head)
    BY HistoryType DEF TypeInv
  <2> QED
    BY <1>1, <1>2, <2>1
<1> QED
  BY <1>1, <1>2, <1>3, <1>4 DEF TypeInv, Event, Covered

LEMMA StepTypeInv ==
  ASSUME TypeInv, [Next]_vars
  PROVE  TypeInv'
<1>1. CASE UNCHANGED vars
  <2>1. DocType' = DocType /\ MemType' = MemType
    BY <1>1 DEF vars, given, DocType, MemType, Places0
  <2> QED
    BY <1>1, <2>1 DEF vars, given, TypeInv, Event, Covered
<1> QED
  BY <1>1, MineTypeInv, SkipTypeInv, NumberTypeInv, SaveTypeInv, UpdateTypeInv, ReportTypeInv, AdvanceTypeInv,
     FaultTypeInv DEF Next, Step

LEMMA AlwaysTypeInv == Spec => []TypeInv
BY InitTypeInv, StepTypeInv, PTL DEF Spec

\* Every field of a document is what an event the chain holds left in it, and a
\* result that is stored is one the chain had.
THEOREM ProposalsTypeCorrect == Spec => []TypeOK
<1>1. TypeInv => TypeOK
  <2> SUFFICES ASSUME TypeInv PROVE TypeOK
    OBVIOUS
  <2>1. history \in Seq(Events) /\ NoDoc \in DocType
    BY HistoryType, NoDocType
  <2>2. ASSUME NEW d \in DocType
        PROVE  /\ DOMAIN d = DOMAIN NoDoc
               /\ d.saved \in BOOLEAN /\ d.closed \in BOOLEAN /\ d.num \in Nat /\ d.stage \in Nat
               /\ {d.content, d.executed, d.canceled, d.parent} \subseteq Places0
               /\ d.subs \subseteq Ids \X Nat
               /\ d.advances \in Seq(DOMAIN history)
               /\ d.results \in Seq([event : DOMAIN history, result : DOMAIN history])
    BY <2>1 DEF DocType
  <2>3. {docs[p] : p \in Ids} \union {mem[c].doc : c \in Crawlers} \subseteq DocType
    BY DEF TypeInv, MemType
  <2>4. \A c \in Crawlers : mem[c].num \in Nat /\ mem[c].chain \in Nat /\ mem[c].open \subseteq Ids
    BY DEF TypeInv, MemType
  <2> QED
    BY <2>1, <2>2, <2>3, <2>4 DEF TypeInv, TypeOK
<1> QED
  BY <1>1, AlwaysTypeInv, PTL

-----------------------------------------------------------------------------
(* The creations of one plugin *)

Creation(n) == history[n].kind \in Creations

\* Creation x is of the plugin of creation n.
Kin(x, n) ==
  /\ Creation(x) /\ history[x].kind = history[n].kind
  /\ (history[x].id = history[x].of) = (history[n].id = history[n].of)
  /\ history[n].id # history[n].of => history[x].stage = history[n].stage

\* The crawler is started for the plugin of event n.
Crawls(c, n) == history[n].id \in address[c]

\* A crawler is still to come to event n, and not to pass over it.
Coming(n) == \E c \in Crawlers : pos[c] <= n /\ Crawls(c, n)

Earlier(n) == {x \in DOMAIN history : Kin(x, n) /\ x < n}
Count(n) == Cardinality(Earlier(n))

Saved(n) == Creation(n) /\ docs[history[n].id].saved
Num(n) == docs[history[n].id].num

\* A creation of an earlier block is saved.
EarlierSaved(n) == \E x \in Earlier(n) : Saved(x) /\ history[x].block < history[n].block

\* Blocks come in order, and a proposal is created once.
LEMMA InOrder ==
  ASSUME TypeInv, NEW i \in DOMAIN history, NEW j \in DOMAIN history
  PROVE  /\ history[i].block < history[j].block => i < j
         /\ Creation(i) /\ Creation(j) /\ history[i].id = history[j].id => i = j
<1>1. /\ j < i => history[j].block <= history[i].block
      /\ Creation(i) /\ Creation(j) /\ history[i].id = history[j].id => i = j
  BY ProposalConstants DEF TypeInv, Creation, Legal
<1>2. i \in Nat /\ j \in Nat /\ history[i].block \in Nat /\ history[j].block \in Nat
  BY HistoryType
<1> QED
  BY <1>1, <1>2

\* Every event has a crawler, and creations of one plugin have the same ones.
LEMMA Crawled ==
  ASSUME TypeInv, NEW n \in DOMAIN history
  PROVE  /\ \E c \in Crawlers : Crawls(c, n)
         /\ \A x \in DOMAIN history : Kin(x, n) => \A c \in Crawlers : Crawls(c, x) <=> Crawls(c, n)
<1>1. Covered(history, address)
  BY DEF TypeInv
<1> QED
  BY <1>1 DEF Covered, SamePlugin, Kin, Creation, Crawls

\* A busy crawler is started for the plugin of its event.
LEMMA CrawlsOwn ==
  ASSUME TypeInv, NEW c \in Crawlers, pc[c] # "idle" \/ Event(c).id \in address[c]
  PROVE  \A n \in DOMAIN history : history[n].id = Event(c).id => Crawls(c, n)
BY DEF TypeInv, Crawls

LEMMA KinSame ==
  ASSUME NEW x, NEW n, Kin(x, n)
  PROVE  Kin(n, x) /\ \A y : Kin(y, x) <=> Kin(y, n)
<1>1. Kin(n, x)
  BY DEF Kin, Creation
<1>2. \A y : Kin(y, x) => Kin(y, n)
  BY DEF Kin, Creation
<1>3. \A y : Kin(y, n) => Kin(y, x)
  BY DEF Kin, Creation
<1> QED
  BY <1>1, <1>2, <1>3

LEMMA CountType ==
  ASSUME TypeInv, NEW n
  PROVE  IsFiniteSet(Earlier(n)) /\ Count(n) \in Nat
<1>1. Earlier(n) \subseteq 1 .. Len(history)
  BY HistoryType DEF Earlier
<1>2. IsFiniteSet(1 .. Len(history))
  BY FS_Interval, HistoryType
<1> QED
  BY <1>1, <1>2, FS_Subset, FS_CardinalityType DEF Count

\* The creations of a plugin are counted in their order.
LEMMA CountGrows ==
  ASSUME TypeInv, NEW x \in DOMAIN history, NEW n \in DOMAIN history, Kin(x, n), x < n
  PROVE  Count(x) < Count(n)
<1>1. \A y \in DOMAIN history : y \in Nat
  BY HistoryType
<1>2. Earlier(x) \subseteq Earlier(n)
  BY <1>1, KinSame DEF Earlier
<1>3. x \in Earlier(n) /\ x \notin Earlier(x)
  BY <1>1 DEF Earlier
<1>4. Count(x) <= Count(n) /\ (Count(n) = Count(x) => Earlier(n) = Earlier(x))
  BY <1>2, CountType, FS_Subset DEF Count
<1> QED
  BY <1>3, <1>4, CountType

LEMMA CountDiffers ==
  ASSUME TypeInv, NEW x \in DOMAIN history, NEW n \in DOMAIN history, Kin(x, n), x # n
  PROVE  Count(x) # Count(n)
<1>1. x \in Nat /\ n \in Nat
  BY HistoryType
<1>2. CASE x < n
  BY <1>2, CountGrows, CountType
<1>3. CASE n < x
  <2>1. Kin(n, x)
    BY KinSame
  <2> QED
    BY <1>3, <2>1, CountGrows, CountType
<1> QED
  BY <1>1, <1>2, <1>3

\* What a handler reads of the logs, for a creation that is mined.
LEMMA LogsRead ==
  ASSUME TypeInv, NEW n \in 1 .. head
  PROVE  /\ Siblings(n) = {x \in 1 .. head : Kin(x, n)}
         /\ Before(0, n) = Earlier(n)
         /\ \A x \in 1 .. head : Before(x, n) = {y \in Earlier(n) : history[y].block >= history[x].block}
<1>1. Siblings(n) = {x \in 1 .. head : Kin(x, n)}
  BY DEF Siblings, SamePlugin, Kin, Creation
<1>2. \A x : x \in DOMAIN history /\ x < n => x \in 1 .. head
  BY HistoryType
<1>3. \A x \in 1 .. head : x \in DOMAIN history /\ x # 0
  BY HistoryType
<1>4. \A y : y \in Siblings(n) /\ y < n <=> y \in Earlier(n)
  BY <1>1, <1>2, <1>3 DEF Earlier
<1>5. Before(0, n) = Earlier(n)
  BY <1>4 DEF Before
<1>6. ASSUME NEW x \in 1 .. head
      PROVE  Before(x, n) = {y \in Earlier(n) : history[y].block >= history[x].block}
  BY <1>3, <1>4 DEF Before
<1> QED
  BY <1>1, <1>5, <1>6

\* The creations before n are those before x and those in the logs from x on.
LEMMA CountAdds ==
  ASSUME TypeInv, NEW n \in 1 .. head, NEW x \in 1 .. head, Kin(x, n)
  PROVE  Count(n) <= Count(x) + Cardinality(Before(x, n))
<1>1. \A i \in DOMAIN history : i \in Nat /\ history[i].block \in Nat
  BY HistoryType
<1>2. x \in DOMAIN history /\ n \in DOMAIN history
  BY HistoryType
<1>3. Earlier(n) \subseteq Earlier(x) \union Before(x, n)
  <2> SUFFICES ASSUME NEW y \in Earlier(n), y \notin Before(x, n) PROVE y \in Earlier(x)
    OBVIOUS
  <2>1. y \in DOMAIN history /\ Kin(y, x)
    BY KinSame DEF Earlier
  <2>2. history[y].block < history[x].block
    BY <1>1, <1>2, <2>1, LogsRead
  <2>3. y < x
    BY <1>1, <1>2, <2>1, <2>2, InOrder
  <2> QED
    BY <2>1, <2>3 DEF Earlier
<1>4. Cardinality(Earlier(x) \union Before(x, n)) <= Count(x) + Cardinality(Before(x, n))
  <2>1. IsFiniteSet(Earlier(x)) /\ IsFiniteSet(Before(x, n))
    BY CountType, BeforeFinite
  <2>2. IsFiniteSet(Earlier(x) \intersect Before(x, n))
    BY <2>1, FS_Subset
  <2>3. Cardinality(Earlier(x) \intersect Before(x, n)) \in Nat
    BY <2>2, FS_CardinalityType
  <2>4. Cardinality(Earlier(x) \union Before(x, n)) =
          Cardinality(Earlier(x)) + Cardinality(Before(x, n)) - Cardinality(Earlier(x) \intersect Before(x, n))
    BY <2>1, FS_Union
  <2>5. Cardinality(Earlier(x)) \in Nat /\ Cardinality(Before(x, n)) \in Nat
    BY <2>1, FS_CardinalityType
  <2> QED
    BY <2>3, <2>4, <2>5 DEF Count
<1>5. IsFiniteSet(Earlier(x) \union Before(x, n))
  BY CountType, BeforeFinite, FS_Union
<1>6. Count(n) <= Cardinality(Earlier(x) \union Before(x, n))
  BY <1>3, <1>5, FS_Subset DEF Count
<1>7. Cardinality(Earlier(x) \union Before(x, n)) \in Nat
  BY <1>5, FS_CardinalityType
<1> QED
  BY <1>4, <1>6, <1>7, CountType, BeforeFinite

-----------------------------------------------------------------------------
(* The invariant of the numbers *)

Making == {"number", "taken", "save"}

\* The number k is right for creation n, and no creation of its plugin has it.
Free(n, k) ==
  /\ k >= Count(n)
  /\ history[n].kind = "HarmonyCreated" => k = Count(n) + 1
  /\ history[n].kind = "Created" /\ ~EarlierSaved(n) => k = Count(n)
  /\ \A x \in DOMAIN history : Kin(x, n) /\ Saved(x) => Num(x) # k

\* A number is at least what counting the creations gives, and just that where
\* none of an earlier block was saved.
SavedInv ==
  \A n \in DOMAIN history : Saved(n) =>
    /\ n <= head
    /\ Num(n) >= Count(n)
    /\ history[n].kind = "HarmonyCreated" => Num(n) = Count(n) + 1
    /\ history[n].kind = "Created" /\ ~EarlierSaved(n) => Num(n) = Count(n)

Unique ==
  \A i, j \in DOMAIN history :
    i # j /\ Kin(i, j) /\ Saved(i) /\ Saved(j) => Num(i) # Num(j)

\* One handler at a time is at work on a creation n, with a number k.
MakingInv ==
  \A c \in Crawlers, n \in DOMAIN history, k \in Nat :
    pc[c] \in Making /\ pos[c] = n /\ mem[c].num = k =>
      /\ \A d \in Crawlers : pc[d] \in Making => d = c
      /\ ~Saved(n)
      /\ pc[c] = "taken" => k >= Count(n) /\ EarlierSaved(n)
      /\ pc[c] = "save" => Free(n, k)

NumInv == TypeInv /\ (~raced => SavedInv /\ Unique /\ MakingInv)

LEMMA InitNumInv == Init => NumInv
<1> SUFFICES ASSUME Init PROVE NumInv
  OBVIOUS
<1>1. TypeInv
  BY InitTypeInv
<1>2. \A n \in DOMAIN history : ~Saved(n)
  BY <1>1, HistoryType DEF Init, Saved, NoDoc, Fresh
<1>3. \A c \in Crawlers : pc[c] \notin Making
  BY DEF Init, Making
<1> QED
  BY <1>1, <1>2, <1>3 DEF NumInv, SavedInv, Unique, MakingInv

StepOf(c) == Step(c) \/ Crash(c) \/ HandlerFails(c) \/ Redeliver(c)

\* What a step of one crawler leaves of the others.
Others(c) ==
  /\ \A d \in Crawlers : d # c => pc'[d] = pc[d] /\ pos'[d] = pos[d] /\ mem'[d] = mem[d]
  /\ UNCHANGED <<history, address, head>>

LEMMA StepOthers ==
  ASSUME TypeInv, NEW c \in Crawlers, StepOf(c)
  PROVE  Others(c)
<1>1. /\ \/ \E place, m : Goto(c, place, m)
         \/ \E dropped : Return(c, dropped)
         \/ Skip(c) \/ Redeliver(c)
      /\ UNCHANGED <<history, address, head>>
  <2>1. CASE Create(c) \/ HarmonyCreate(c) \/ FindIncrementalId(c) \/ AskTaken(c) \/ Save(c)
    BY <2>1 DEF Create, HarmonyCreate, Begin, FindIncrementalId, AskTaken, Save, given
  <2>2. CASE Pair(c) \/ Paired(c) \/ Edit(c) \/ Execute(c) \/ Cancel(c) \/ Close(c)
    BY <2>2 DEF Pair, Paired, Edit, Execute, Cancel, Close, Update, given
  <2>3. CASE Report(c) \/ PushResult(c) \/ Advance(c) \/ FindSubs(c) \/ ExecuteSubs(c) \/ AdvanceStage(c)
    BY <2>3 DEF Report, PushResult, Advance, FindSubs, ExecuteSubs, AdvanceStage, given
  <2>4. CASE Skip(c) \/ Crash(c) \/ HandlerFails(c) \/ Redeliver(c)
    BY <2>4 DEF Skip, Crash, HandlerFails, Redeliver, given
  <2> QED
    BY <2>1, <2>2, <2>3, <2>4 DEF StepOf, Step
<1> QED
  BY <1>1 DEF Goto, Return, Skip, Redeliver, Others, TypeInv

\* Steps other than Save keep which documents are saved, and their numbers.
Kept == \A p \in Ids : docs'[p].saved = docs[p].saved /\ docs'[p].num = docs[p].num

LEMMA UpdateKept ==
  ASSUME TypeInv, NEW c \in Crawlers, pos[c] <= head, NEW doc, NEW met, Update(c, doc, met),
         doc.saved = Doc(c).saved, doc.num = Doc(c).num
  PROVE  Kept
BY EventType DEF Update, Kept, Doc, TypeInv

LEMMA StepKept ==
  ASSUME TypeInv, NEW c \in Crawlers, StepOf(c), ~Save(c)
  PROVE  Kept
<1>0. docs \in [Ids -> DocType]
  BY DEF TypeInv
<1>1. CASE Create(c) \/ HarmonyCreate(c) \/ FindIncrementalId(c) \/ AskTaken(c) \/ Pair(c)
  BY <1>1 DEF Create, HarmonyCreate, Begin, FindIncrementalId, AskTaken, Pair, Kept
<1>2. CASE Edit(c) \/ Execute(c) \/ Cancel(c) \/ Close(c)
  <2>1. pos[c] <= head
    BY <1>2 DEF Edit, Execute, Cancel, Close, Idle
  <2>2. Doc(c) \in DocType
    BY <2>1, EventType
  <2>3. PICK doc, met : Update(c, doc, met) /\ doc.saved = Doc(c).saved /\ doc.num = Doc(c).num
    BY <1>2, <2>2 DEF Edit, Execute, Cancel, Close, DocType
  <2> QED
    BY <2>1, <2>3, UpdateKept
<1>3. CASE Paired(c)
  BY <1>0, <1>3 DEF Paired, Kept, DocType
<1>4. CASE Skip(c) \/ Report(c) \/ Advance(c) \/ FindSubs(c) \/ Crash(c) \/ HandlerFails(c) \/ Redeliver(c)
  BY <1>4 DEF Skip, Report, Advance, FindSubs, Crash, HandlerFails, Redeliver, Kept
<1>5. CASE PushResult(c)
  BY <1>0, <1>5 DEF PushResult, Kept, DocType
<1>6. CASE ExecuteSubs(c)
  BY <1>0, <1>6 DEF ExecuteSubs, Kept, DocType
<1>7. CASE AdvanceStage(c)
  BY <1>0, <1>7 DEF AdvanceStage, Kept, DocType
<1> QED
  BY <1>1, <1>2, <1>3, <1>4, <1>5, <1>6, <1>7 DEF StepOf, Step

LEMMA SameNumbers ==
  ASSUME TypeInv, UNCHANGED history, Kept, NEW n \in DOMAIN history
  PROVE  /\ Saved(n)' <=> Saved(n)
         /\ Saved(n) => Num(n)' = Num(n)
         /\ Count(n)' = Count(n)
         /\ EarlierSaved(n)' <=> EarlierSaved(n)
         /\ \A x : Kin(x, n)' <=> Kin(x, n)
<1>1. \A m \in DOMAIN history : (Saved(m)' <=> Saved(m)) /\ Num(m)' = Num(m)
  BY HistoryType DEF Saved, Num, Creation, Kept
<1>2. \A x : Kin(x, n)' <=> Kin(x, n)
  BY DEF Kin, Creation
<1>3. Earlier(n)' = Earlier(n)
  BY <1>2 DEF Earlier
<1>4. Count(n)' = Count(n)
  BY <1>3 DEF Count
<1>5. EarlierSaved(n)' <=> EarlierSaved(n)
  BY <1>1, <1>3 DEF EarlierSaved, Earlier
<1> QED
  BY <1>1, <1>2, <1>4, <1>5

LEMMA StaysFree ==
  ASSUME TypeInv, UNCHANGED history, Kept, NEW n \in DOMAIN history, NEW k, Free(n, k)
  PROVE  Free(n, k)'
BY SameNumbers DEF Free

-----------------------------------------------------------------------------
(* The numbers handlers compute *)

LEMMA HarmonyFree ==
  ASSUME TypeInv, SavedInv, NEW n \in 1 .. head, history[n].kind = "HarmonyCreated", ~Saved(n)
  PROVE  Free(n, Count(n) + 1)
<1>1. n \in DOMAIN history /\ Count(n) \in Nat
  BY HistoryType, CountType
<1>2. ASSUME NEW x \in DOMAIN history, Kin(x, n), Saved(x) PROVE Num(x) # Count(n) + 1
  <2>1. Num(x) = Count(x) + 1
    BY <1>2 DEF Kin, SavedInv
  <2>2. Count(x) # Count(n) /\ Count(x) \in Nat
    BY <1>1, <1>2, CountDiffers, CountType
  <2> QED
    BY <1>1, <2>1, <2>2
<1> QED
  BY <1>1, <1>2 DEF Free

\* If none is found to count from, none of an earlier block is saved.
LEMMA NoneEarlier ==
  ASSUME TypeInv, NEW n \in 1 .. head, LastSaved(n) = {}
  PROVE  ~EarlierSaved(n)
<1> DEFINE S == {x \in Siblings(n) : docs[history[x].id].saved /\ history[x].block < history[n].block}
           f == [x \in S |-> docs[history[x].id].num]
<1>1. S \subseteq 1 .. head /\ head \in Nat
  BY HistoryType DEF Siblings
<1>2. f \in [S -> Nat]
  <2>1. \A x \in S : docs[history[x].id].num \in Nat
    BY <1>1, HistoryType DEF TypeInv, DocType
  <2> QED
    BY <2>1
<1>3. S = {}
  <2> SUFFICES ASSUME S # {} PROVE FALSE
    OBVIOUS
  <2>1. PICK x \in S : \A y \in S : f[y] <= f[x]
    <3> HIDE DEF S, f
    <3> QED
      BY <1>1, <1>2, Highest
  <2>2. x \in LastSaved(n)
    BY <2>1 DEF LastSaved
  <2> QED
    BY <2>2
<1>4. ASSUME NEW x \in Earlier(n), Saved(x), history[x].block < history[n].block
      PROVE  x \in S
  <2>1. x \in 1 .. head /\ Kin(x, n)
    BY HistoryType DEF Earlier
  <2> QED
    BY <1>4, <2>1, LogsRead DEF Saved
<1> QED
  BY <1>3, <1>4 DEF EarlierSaved

LEMMA DirectFree ==
  ASSUME TypeInv, SavedInv, NEW n \in 1 .. head, ~Saved(n), LastSaved(n) = {},
         history[n].kind = "Created"
  PROVE  Free(n, Count(n))
<1>1. n \in DOMAIN history /\ Count(n) \in Nat /\ ~EarlierSaved(n)
  BY HistoryType, CountType, NoneEarlier
<1>2. ASSUME NEW x \in DOMAIN history, Kin(x, n), Saved(x) PROVE Num(x) # Count(n)
  <2>1. /\ x \in Nat /\ n \in Nat /\ x # n /\ Count(x) \in Nat /\ history[x].kind = "Created"
        /\ history[x].block \in Nat /\ history[n].block \in Nat
    BY <1>1, <1>2, HistoryType, CountType DEF Kin
  <2>2. Num(x) \in Nat
    BY HistoryType DEF Num, TypeInv, DocType
  <2>3. CASE n < x
    <3>1. Count(n) < Count(x) /\ Num(x) >= Count(x)
      BY <1>1, <1>2, <2>3, KinSame, CountGrows DEF SavedInv
    <3> QED
      BY <1>1, <2>1, <2>2, <3>1
  <2>4. CASE x < n
    <3>1. history[x].block = history[n].block
      <4>1. x \in Earlier(n)
        BY <1>2, <2>4 DEF Earlier
      <4>2. ~(history[x].block < history[n].block)
        BY <1>1, <1>2, <4>1 DEF EarlierSaved
      <4>3. ~(history[n].block < history[x].block)
        BY <1>1, <2>1, <2>4, InOrder
      <4> QED
        BY <2>1, <4>2, <4>3
    <3>2. ~EarlierSaved(x)
      <4> SUFFICES ASSUME NEW y \in Earlier(x), Saved(y), history[y].block < history[x].block
                   PROVE  FALSE
        BY DEF EarlierSaved
      <4>1. y \in DOMAIN history /\ y \in Nat /\ Kin(y, x) /\ y < x
        BY HistoryType DEF Earlier
      <4>2. y \in Earlier(n)
        BY <1>2, <2>1, <2>4, <4>1, KinSame DEF Earlier
      <4> QED
        BY <1>1, <3>1, <4>2 DEF EarlierSaved
    <3>3. Num(x) = Count(x) /\ Count(x) < Count(n)
      BY <1>1, <1>2, <2>1, <2>4, <3>2, CountGrows DEF SavedInv
    <3> QED
      BY <1>1, <2>1, <3>3
  <2> QED
    BY <2>1, <2>3, <2>4
<1> QED
  BY <1>1, <1>2 DEF Free

\* Counting on from a saved one gives at least what counting all gives.
LEMMA CountOn ==
  ASSUME TypeInv, SavedInv, NEW n \in 1 .. head, NEW x \in LastSaved(n)
  PROVE  /\ docs[history[x].id].num + Cardinality(Before(x, n)) >= Count(n)
         /\ EarlierSaved(n)
<1>1. /\ x \in 1 .. head /\ x \in DOMAIN history /\ n \in DOMAIN history /\ Kin(x, n) /\ Saved(x)
      /\ history[x].block < history[n].block
  BY HistoryType, LogsRead DEF LastSaved, Saved, Kin
<1>2. Num(x) >= Count(x) /\ Num(x) \in Nat
  BY <1>1, HistoryType DEF SavedInv, Num, TypeInv, DocType
<1>3. Count(n) <= Count(x) + Cardinality(Before(x, n))
  BY <1>1, CountAdds
<1>4. Count(n) \in Nat /\ Count(x) \in Nat /\ Cardinality(Before(x, n)) \in Nat
  BY CountType, BeforeFinite
<1>5. x \in Earlier(n)
  BY <1>1, InOrder DEF Earlier
<1>6. EarlierSaved(n)
  BY <1>1, <1>5 DEF EarlierSaved
<1> QED
  BY <1>2, <1>3, <1>4, <1>6 DEF Num

\* A number that was not taken when it was asked for.
LEMMA AskedFree ==
  ASSUME TypeInv, SavedInv, NEW n \in 1 .. head, history[n].kind = "Created", NEW k \in Nat,
         k >= Count(n), EarlierSaved(n), ~Taken(n, k)
  PROVE  Free(n, k)
<1>1. ASSUME NEW x \in DOMAIN history, Kin(x, n), Saved(x) PROVE Num(x) # k
  <2>1. x \in Siblings(n)
    BY <1>1, HistoryType, LogsRead DEF SavedInv
  <2> QED
    BY <1>1, <2>1 DEF Taken, Saved, Num
<1> QED
  BY <1>1 DEF Free

-----------------------------------------------------------------------------
(* Steps *)

\* A handler that is at work on a creation has been, or begins alone.
LEMMA Enters ==
  ASSUME TypeInv, NEW c \in Crawlers, StepOf(c), pc'[c] \in Making, ~raced'
  PROVE  \/ FindIncrementalId(c) \/ AskTaken(c)
         \/ (Create(c) \/ HarmonyCreate(c)) /\ ~Doc(c).saved /\ \A d \in Crawlers : pc[d] \notin Making
<1>1. CASE Create(c) \/ HarmonyCreate(c)
  <2>1. PICK kind, place, m : Begin(c, kind, place, m)
    BY <1>1 DEF Create, HarmonyCreate
  <2>2. ~Return(c, FALSE)
    BY DEF Return, TypeInv, Making
  <2>3. /\ raced' = (raced \/ \E d \in Crawlers : pc[d] \in {"number", "taken", "save"})
        /\ ~Doc(c).saved
    BY <2>1, <2>2 DEF Begin
  <2>4. \A d \in Crawlers : pc[d] \notin Making
    BY <2>3 DEF Making
  <2> QED
    BY <1>1, <2>3, <2>4
<1>2. CASE Save(c) \/ Pair(c) \/ Paired(c) \/ Edit(c) \/ Execute(c) \/ Cancel(c) \/ Close(c)
  BY <1>2 DEF Save, Pair, Paired, Edit, Execute, Cancel, Close, Update, Goto, Return, Making, TypeInv
<1>3. CASE Report(c) \/ PushResult(c) \/ Advance(c) \/ FindSubs(c) \/ ExecuteSubs(c) \/ AdvanceStage(c)
  BY <1>3 DEF Report, PushResult, Advance, FindSubs, ExecuteSubs, AdvanceStage, Goto, Return, Making, TypeInv
<1>4. CASE Crash(c) \/ HandlerFails(c) \/ Redeliver(c) \/ Skip(c)
  BY <1>4 DEF Crash, HandlerFails, Redeliver, Skip, Goto, Return, Making, TypeInv
<1> QED
  BY <1>1, <1>2, <1>3, <1>4 DEF StepOf, Step

LEMMA RacedStays ==
  ASSUME TypeInv, NEW c \in Crawlers, StepOf(c), ~raced'
  PROVE  ~raced
<1>1. CASE Create(c) \/ HarmonyCreate(c)
  BY <1>1 DEF Create, HarmonyCreate, Begin
<1>2. CASE ~(Create(c) \/ HarmonyCreate(c))
  BY <1>2 DEF StepOf, Step, FindIncrementalId, AskTaken, Save, Pair, Paired, Edit, Execute, Cancel,
              Close, Update, Report, PushResult, Advance, FindSubs, ExecuteSubs, AdvanceStage, Crash,
              HandlerFails, Redeliver, Skip
<1> QED
  BY <1>1, <1>2

\* What the handler that is at work on a creation knows, after its step.
LEMMA OwnMaking ==
  ASSUME TypeInv, SavedInv, MakingInv, NEW c \in Crawlers, StepOf(c), ~raced', pc'[c] \in Making,
         NEW n \in DOMAIN history, NEW k \in Nat, pos'[c] = n, mem'[c].num = k
  PROVE  /\ ~Saved(n) /\ \A d \in Crawlers : pc[d] \in Making => d = c
         /\ pc'[c] = "taken" => k >= Count(n) /\ EarlierSaved(n)
         /\ pc'[c] = "save" => Free(n, k)
<1>1. CASE FindIncrementalId(c)
  <2>1. /\ pc[c] = "number" /\ pos[c] = n /\ n \in 1 .. head /\ history[n].kind = "Created"
        /\ mem[c] \in MemType
    <3>1. pc[c] = "number" /\ pos' = pos
      BY <1>1 DEF FindIncrementalId, Goto
    <3>2. Event(c).kind = "Created"
      BY <3>1 DEF TypeInv, FitsEvent
    <3> QED
      BY <3>1, <3>2, EventType DEF TypeInv
  <2>2. ~Saved(n) /\ \A d \in Crawlers : pc[d] \in Making => d = c
    <3>1. mem[c].num \in Nat
      BY <2>1 DEF MemType
    <3> QED
      BY <2>1, <3>1 DEF MakingInv, Making
  <2>3. CASE \E x \in LastSaved(n) :
               Goto(c, "taken", [mem[c] EXCEPT !.num = docs[history[x].id].num + Cardinality(Before(x, n))])
    <3>1. PICK x \in LastSaved(n) :
            Goto(c, "taken", [mem[c] EXCEPT !.num = docs[history[x].id].num + Cardinality(Before(x, n))])
      BY <2>3
    <3>2. pc'[c] = "taken" /\ k = docs[history[x].id].num + Cardinality(Before(x, n))
      BY <2>1, <3>1 DEF Goto, TypeInv, MemType
    <3> QED
      BY <2>1, <2>2, <3>2, CountOn
  <2>4. CASE LastSaved(n) = {} /\ Goto(c, "save", [mem[c] EXCEPT !.num = Cardinality(Before(0, n))])
    <3>1. pc'[c] = "save" /\ k = Cardinality(Before(0, n))
      BY <2>1, <2>4 DEF Goto, TypeInv, MemType
    <3>2. k = Count(n)
      BY <2>1, <3>1, LogsRead DEF Count
    <3> QED
      BY <2>1, <2>2, <2>4, <3>1, <3>2, DirectFree
  <2> QED
    BY <1>1, <2>1, <2>3, <2>4 DEF FindIncrementalId
<1>2. CASE AskTaken(c)
  <2>1. ~Return(c, TRUE)
    BY DEF Return, TypeInv, Making
  <2>2. pc[c] = "taken" /\ ~Taken(pos[c], mem[c].num) /\ Goto(c, "save", mem[c])
    BY <1>2, <2>1 DEF AskTaken
  <2>3. pos[c] = n /\ mem[c].num = k /\ n \in 1 .. head /\ history[n].kind = "Created" /\ pc'[c] = "save"
    <3>1. Event(c).kind = "Created"
      BY <2>2 DEF TypeInv, FitsEvent
    <3> QED
      BY <2>2, <3>1, EventType DEF Goto, TypeInv
  <2>4. /\ ~Saved(n) /\ \A d \in Crawlers : pc[d] \in Making => d = c
        /\ k >= Count(n) /\ EarlierSaved(n)
    BY <2>2, <2>3 DEF MakingInv, Making
  <2> QED
    BY <2>2, <2>3, <2>4, AskedFree
<1>3. CASE /\ Create(c) \/ HarmonyCreate(c)
           /\ ~Doc(c).saved /\ \A d \in Crawlers : pc[d] \notin Making
  <2>1. ~Return(c, FALSE)
    BY DEF Return, TypeInv, Making
  <2>2. \/ Event(c).kind = "Created" /\ Goto(c, "number", Blank)
        \/ /\ Event(c).kind = "HarmonyCreated"
           /\ Goto(c, "save", [Blank EXCEPT !.num = Cardinality(Before(0, pos[c])) + 1])
    BY <1>3, <2>1 DEF Create, HarmonyCreate, Begin, Idle
  <2>3. pos[c] = n /\ n \in 1 .. head /\ history[n] = Event(c)
    <3>1. pos[c] <= head
      BY <1>3 DEF Create, HarmonyCreate, Begin, Idle
    <3> QED
      BY <2>2, <3>1, EventType DEF Goto, TypeInv
  <2>4. ~Saved(n)
    BY <1>3, <2>3 DEF Saved, Doc
  <2>5. CASE Goto(c, "number", Blank)
    <3>1. pc'[c] = "number"
      BY <2>5 DEF Goto, TypeInv
    <3> QED
      BY <1>3, <2>4, <3>1
  <2>6. CASE /\ Event(c).kind = "HarmonyCreated"
             /\ Goto(c, "save", [Blank EXCEPT !.num = Cardinality(Before(0, pos[c])) + 1])
    <3>1. pc'[c] = "save" /\ k = Cardinality(Before(0, n)) + 1
      BY <2>3, <2>6 DEF Goto, TypeInv, Blank
    <3>2. k = Count(n) + 1
      BY <2>3, <3>1, LogsRead DEF Count
    <3> QED
      BY <1>3, <2>3, <2>4, <2>6, <3>1, <3>2, HarmonyFree
  <2> QED
    BY <2>2, <2>5, <2>6
<1> QED
  BY <1>1, <1>2, <1>3, Enters

LEMMA KeptNumInv ==
  ASSUME NumInv, NEW c \in Crawlers, StepOf(c), ~Save(c), TypeInv'
  PROVE  NumInv'
<1> SUFFICES ASSUME ~raced' PROVE SavedInv' /\ Unique' /\ MakingInv'
  BY DEF NumInv
<1>1. TypeInv /\ SavedInv /\ Unique /\ MakingInv
  BY RacedStays DEF NumInv
<1>2. Others(c) /\ Kept
  BY <1>1, StepOthers, StepKept
<1>3. UNCHANGED <<history, head>>
  BY <1>2 DEF Others
<1>4. \A n \in DOMAIN history :
        /\ (Saved(n)' <=> Saved(n)) /\ (Saved(n) => Num(n)' = Num(n)) /\ Count(n)' = Count(n)
        /\ (EarlierSaved(n)' <=> EarlierSaved(n)) /\ \A x : Kin(x, n)' <=> Kin(x, n)
  BY <1>1, <1>2, <1>3, SameNumbers
<1>5. SavedInv'
  BY <1>1, <1>3, <1>4 DEF SavedInv
<1>6. Unique'
  BY <1>1, <1>3, <1>4 DEF Unique
<1>7. ASSUME NEW d \in Crawlers, NEW n \in DOMAIN history, NEW k \in Nat,
             pc'[d] \in Making, pos'[d] = n, mem'[d].num = k
      PROVE  /\ \A e \in Crawlers : pc'[e] \in Making => e = d
             /\ ~Saved(n)'
             /\ pc'[d] = "taken" => k >= Count(n)' /\ EarlierSaved(n)'
             /\ pc'[d] = "save" => Free(n, k)'
  <2>1. CASE d = c
    <3>1. /\ ~Saved(n) /\ \A e \in Crawlers : pc[e] \in Making => e = c
          /\ pc'[c] = "taken" => k >= Count(n) /\ EarlierSaved(n)
          /\ pc'[c] = "save" => Free(n, k)
      BY <1>1, <1>7, <2>1, OwnMaking
    <3>2. \A e \in Crawlers : pc'[e] \in Making => e = d
      BY <1>2, <2>1, <3>1 DEF Others
    <3>3. Free(n, k) => Free(n, k)'
      BY <1>1, <1>2, <1>3, StaysFree
    <3> QED
      BY <1>4, <2>1, <3>1, <3>2, <3>3
  <2>2. CASE d # c
    <3>1. pc[d] \in Making /\ pos[d] = n /\ mem[d].num = k /\ pc'[d] = pc[d]
      BY <1>2, <1>7, <2>2 DEF Others
    <3>2. /\ \A e \in Crawlers : pc[e] \in Making => e = d
          /\ ~Saved(n)
          /\ pc[d] = "taken" => k >= Count(n) /\ EarlierSaved(n)
          /\ pc[d] = "save" => Free(n, k)
      BY <1>1, <3>1 DEF MakingInv
    <3>3. pc'[c] \notin Making
      <4>1. pc[c] \notin Making
        BY <2>2, <3>2
      <4>2. ~FindIncrementalId(c) /\ ~AskTaken(c)
        BY <4>1 DEF FindIncrementalId, AskTaken, Making
      <4> QED
        BY <1>1, <3>1, <4>2, Enters
    <3>4. \A e \in Crawlers : pc'[e] \in Making => e = d
      BY <1>2, <3>2, <3>3 DEF Others
    <3>5. Free(n, k) => Free(n, k)'
      BY <1>1, <1>2, <1>3, StaysFree
    <3> QED
      BY <1>4, <3>1, <3>2, <3>4, <3>5
  <2> QED
    BY <2>1, <2>2
<1>8. MakingInv'
  BY <1>3, <1>7 DEF MakingInv
<1> QED
  BY <1>5, <1>6, <1>8

LEMMA SaveNumInv ==
  ASSUME NumInv, NEW c \in Crawlers, Save(c), TypeInv'
  PROVE  NumInv'
<1> SUFFICES ASSUME ~raced' PROVE SavedInv' /\ Unique' /\ MakingInv'
  BY DEF NumInv
<1>1. TypeInv /\ SavedInv /\ Unique /\ MakingInv
  BY DEF NumInv, Save
<1>2. UNCHANGED <<history, head>> /\ Others(c)
  BY <1>1, StepOthers DEF Others, StepOf, Step
<1>3. PICK n \in 1 .. head : n = pos[c] /\ n \in DOMAIN history /\ history[n] = Event(c)
  BY <1>1, EventType DEF Save
<1>4. PICK k \in Nat : k = mem[c].num
  BY <1>1 DEF TypeInv, MemType
<1>5. /\ ~Saved(n) /\ Free(n, k) /\ \A d \in Crawlers : pc[d] \in Making => d = c
  BY <1>1, <1>3, <1>4 DEF MakingInv, Making, Save
<1>6. Creation(n) /\ history[n].id \in Ids
  BY <1>1, <1>3, HistoryType DEF Save, TypeInv, FitsEvent, Creation
<1>7. docs' = [docs EXCEPT ![history[n].id] = Fresh(k)]
  BY <1>3, <1>4, <1>5, <1>6 DEF Save, Saved
<1>8. Saved(n)' /\ Num(n)' = k
  BY <1>1, <1>2, <1>6, <1>7 DEF Saved, Num, Creation, Fresh, TypeInv
<1>9. ASSUME NEW m \in DOMAIN history, m # n
      PROVE  (Saved(m)' <=> Saved(m)) /\ (Saved(m) => Num(m)' = Num(m))
  <2>1. Creation(m) => history[m].id # history[n].id
    BY <1>1, <1>3, <1>6, <1>9, InOrder
  <2>2. history[m].id \in Ids
    BY <1>1, HistoryType
  <2> QED
    BY <1>1, <1>2, <1>7, <2>1, <2>2 DEF Saved, Num, Creation, TypeInv
<1>10. ASSUME NEW m \in DOMAIN history
       PROVE  /\ Count(m)' = Count(m) /\ Earlier(m)' = Earlier(m)
              /\ EarlierSaved(m) => EarlierSaved(m)'
              /\ \A x : Kin(x, m)' <=> Kin(x, m)
  <2>1. \A x : Kin(x, m)' <=> Kin(x, m)
    BY <1>2 DEF Kin, Creation
  <2>2. Earlier(m)' = Earlier(m)
    BY <1>2, <2>1 DEF Earlier
  <2>3. Count(m)' = Count(m)
    BY <2>2 DEF Count
  <2>4. EarlierSaved(m) => EarlierSaved(m)'
    BY <1>2, <1>5, <1>9, <2>2 DEF EarlierSaved, Earlier
  <2> QED
    BY <2>1, <2>2, <2>3, <2>4
<1>11. SavedInv'
  <2> SUFFICES ASSUME NEW m \in DOMAIN history, Saved(m)'
               PROVE  /\ m <= head'
                      /\ Num(m)' >= Count(m)'
                      /\ history'[m].kind = "HarmonyCreated" => Num(m)' = Count(m)' + 1
                      /\ history'[m].kind = "Created" /\ ~EarlierSaved(m)' => Num(m)' = Count(m)'
    BY <1>2 DEF SavedInv
  <2>1. CASE m = n
    <3>1. n <= head
      OBVIOUS
    <3> QED
      BY <1>2, <1>5, <1>8, <1>10, <2>1, <3>1 DEF Free
  <2>2. CASE m # n
    BY <1>1, <1>2, <1>9, <1>10, <2>2 DEF SavedInv
  <2> QED
    BY <2>1, <2>2
<1>12. Unique'
  <2> SUFFICES ASSUME NEW i \in DOMAIN history, NEW j \in DOMAIN history,
                      i # j, Kin(i, j)', Saved(i)', Saved(j)'
               PROVE  Num(i)' # Num(j)'
    BY <1>2 DEF Unique
  <2>1. Kin(i, j) /\ Kin(j, i)
    BY <1>10, KinSame
  <2>2. CASE i = n
    BY <1>5, <1>8, <1>9, <2>1, <2>2 DEF Free
  <2>3. CASE j = n
    BY <1>5, <1>8, <1>9, <2>1, <2>3 DEF Free
  <2>4. CASE i # n /\ j # n
    BY <1>1, <1>9, <2>1, <2>4 DEF Unique
  <2> QED
    BY <2>2, <2>3, <2>4
<1>13. \A d \in Crawlers : pc'[d] \notin Making
  <2>1. pc'[c] \notin Making
    BY <1>1 DEF Save, Goto, Return, Making, TypeInv
  <2>2. \A d \in Crawlers : d # c => pc'[d] = pc[d]
    BY <1>2 DEF Others
  <2> QED
    BY <1>5, <2>1, <2>2
<1>14. MakingInv'
  BY <1>13 DEF MakingInv
<1> QED
  BY <1>11, <1>12, <1>14

\* Steps of no crawler.
LEMMA QuietNumInv ==
  ASSUME NumInv, Mine \/ UNCHANGED vars, TypeInv'
  PROVE  NumInv'
<1> SUFFICES ASSUME ~raced' PROVE SavedInv' /\ Unique' /\ MakingInv'
  BY DEF NumInv
<1>1. UNCHANGED <<history, docs, pos, pc, mem, raced>>
  BY DEF Mine, vars, given
<1>2. TypeInv /\ SavedInv /\ Unique /\ MakingInv
  BY <1>1 DEF NumInv
<1>3. Kept
  BY <1>1 DEF Kept
<1>4. \A n \in DOMAIN history :
        /\ (Saved(n)' <=> Saved(n)) /\ (Saved(n) => Num(n)' = Num(n)) /\ Count(n)' = Count(n)
        /\ (EarlierSaved(n)' <=> EarlierSaved(n)) /\ \A x : Kin(x, n)' <=> Kin(x, n)
  BY <1>1, <1>2, <1>3, SameNumbers
<1>5. \A n \in DOMAIN history : n <= head => n <= head'
  <2>1. CASE Mine
    BY <1>2, <2>1, MineType, HistoryType
  <2>2. CASE UNCHANGED vars
    BY <2>2 DEF vars
  <2> QED
    BY <2>1, <2>2
<1>6. SavedInv' /\ Unique'
  BY <1>1, <1>2, <1>4, <1>5 DEF SavedInv, Unique
<1>7. \A n \in DOMAIN history, k \in Nat : Free(n, k) => Free(n, k)'
  BY <1>1, <1>2, <1>3, StaysFree
<1>8. MakingInv'
  BY <1>1, <1>2, <1>4, <1>7 DEF MakingInv
<1> QED
  BY <1>6, <1>8

LEMMA StepNumInv ==
  ASSUME NumInv, [Next]_vars
  PROVE  NumInv'
<1>1. TypeInv'
  BY StepTypeInv DEF NumInv
<1>2. CASE Mine \/ UNCHANGED vars
  BY <1>1, <1>2, QuietNumInv
<1>3. ASSUME NEW c \in Crawlers, StepOf(c) PROVE NumInv'
  BY <1>1, <1>3, KeptNumInv, SaveNumInv
<1> QED
  BY <1>2, <1>3 DEF Next, StepOf

LEMMA NumInvUnique == NumInv => IncrementalUnique
<1> SUFFICES ASSUME NumInv, ~raced, NEW p \in Ids, NEW q \in Ids, docs[p].saved, docs[q].saved, p # q,
                    NEW i \in CreationOf(p), NEW j \in CreationOf(q), j \in Siblings(i)
             PROVE  docs[p].num # docs[q].num
  BY DEF IncrementalUnique
<1>1. /\ i \in DOMAIN history /\ j \in DOMAIN history /\ i # j /\ Creation(i) /\ Creation(j)
      /\ history[i].id = p /\ history[j].id = q
  BY DEF CreationOf, Creation
<1>2. Kin(j, i)
  BY <1>1 DEF Siblings, SamePlugin, Kin, Creation
<1>3. Saved(i) /\ Saved(j) /\ Unique
  BY <1>1 DEF Saved, NumInv
<1> QED
  BY <1>1, <1>2, <1>3 DEF Unique, Num

\* No two proposals of a plugin get the same incremental id, whatever fails, is
\* cut short and is given again, in any order of the crawlers, as long as no
\* two of them are at work on creations at once.
THEOREM NumbersUnique == Spec => []IncrementalUnique
BY InitNumInv, StepNumInv, NumInvUnique, PTL DEF Spec

-----------------------------------------------------------------------------
(* Edits *)

\* The content of a document is an edit that is mined; until it is the last one,
\* a crawler is still to come to that, or its handler last failed.
ContentOf(p) ==
  /\ docs[p].content \in Mined("Edited", p) \union {0}
  /\ \A e \in Mined("Edited", p) :
       docs[p].saved /\ e \notin failed /\ (\A m \in Mined("Edited", p) : m <= e) =>
         docs[p].content = e \/ Coming(e)

ContentInv == \A p \in Ids : ContentOf(p)

EditInv == TypeInv /\ ContentInv

LEMMA InitEditInv == Init => EditInv
<1> SUFFICES ASSUME Init PROVE EditInv
  OBVIOUS
<1>1. \A p \in Ids : docs[p].saved = FALSE /\ docs[p].content = 0
  BY DEF Init, NoDoc, Fresh
<1> QED
  BY <1>1, InitTypeInv DEF EditInv, ContentInv, ContentOf

\* A crawler that goes on is through with its event, and only that may now
\* have failed, or not.
LEMMA Movement ==
  ASSUME TypeInv, NEW c \in Crawlers, StepOf(c)
  PROVE  \/ pos'[c] <= pos[c] /\ failed' = failed
         \/ pos'[c] = pos[c] + 1 /\ failed' = failed /\ ~Crawls(c, pos[c])
         \/ /\ pos'[c] = pos[c] + 1
            /\ \A e : e # pos[c] => (e \in failed' <=> e \in failed)
            /\ \A e : e = pos[c] /\ history[e].kind = "Edited" /\ ~Edit(c) => e \in failed'
<1>0. pos[c] \in Nat /\ pos \in [Crawlers -> 1 .. (Len(history) + 1)]
  BY HistoryType DEF TypeInv
<1>1. CASE Redeliver(c) \/ Skip(c)
  BY <1>0, <1>1 DEF Redeliver, Skip, Event, Crawls
<1>2. CASE \E place, m : Goto(c, place, m)
  BY <1>0, <1>2 DEF Goto
<1>3. ASSUME NEW dropped, Return(c, dropped)
      PROVE  /\ pos'[c] = pos[c] + 1
             /\ \A e : e # pos[c] => (e \in failed' <=> e \in failed)
             /\ dropped => pos[c] \in failed'
  BY <1>0, <1>3 DEF Return
<1>4. CASE HandlerFails(c)
  BY <1>3, <1>4 DEF HandlerFails
<1>5. CASE Edit(c)
  <2>1. \E dropped : Return(c, dropped)
    BY <1>5 DEF Edit, Update
  <2> QED
    BY <1>3, <1>5, <2>1
<1>6. CASE Create(c) \/ HarmonyCreate(c) \/ FindIncrementalId(c) \/ AskTaken(c) \/ Save(c) \/ Pair(c)
           \/ Paired(c)
  <2>1. Event(c).kind # "Edited"
    BY <1>6 DEF Create, HarmonyCreate, Begin, Idle, FindIncrementalId, AskTaken, Save, Pair, Paired, TypeInv,
                FitsEvent, Creations
  <2>2. (\E place, m : Goto(c, place, m)) \/ \E dropped : Return(c, dropped)
    BY <1>6 DEF Create, HarmonyCreate, Begin, FindIncrementalId, AskTaken, Save, Pair, Paired
  <2> QED
    BY <1>2, <1>3, <2>1, <2>2 DEF Event
<1>7. CASE Execute(c) \/ Cancel(c) \/ Close(c) \/ Report(c) \/ PushResult(c) \/ Advance(c)
           \/ FindSubs(c) \/ ExecuteSubs(c) \/ AdvanceStage(c)
  <2>1. Event(c).kind # "Edited"
    BY <1>7 DEF Execute, Cancel, Close, Report, Advance, Idle, PushResult, FindSubs, ExecuteSubs,
                AdvanceStage, TypeInv, FitsEvent
  <2>2. (\E place, m : Goto(c, place, m)) \/ \E dropped : Return(c, dropped)
    BY <1>7 DEF Execute, Cancel, Close, Update, Report, Advance, PushResult, FindSubs, ExecuteSubs,
                AdvanceStage
  <2> QED
    BY <1>2, <1>3, <2>1, <2>2 DEF Event
<1>8. CASE Crash(c)
  BY <1>2, <1>8 DEF Crash
<1> QED
  BY <1>1, <1>4, <1>5, <1>6, <1>7, <1>8 DEF StepOf, Step

\* Steps other than Save and Edit keep the content.
LEMMA ContentKept ==
  ASSUME TypeInv, NEW c \in Crawlers, StepOf(c), ~Save(c), ~Edit(c), NEW p \in Ids
  PROVE  docs'[p].content = docs[p].content /\ docs'[p].saved = docs[p].saved
<1>0. docs \in [Ids -> DocType] /\ docs[p] \in DocType
  BY DEF TypeInv
<1>1. docs'[p].saved = docs[p].saved
  BY StepKept DEF Kept
<1>2. CASE Execute(c) \/ Cancel(c) \/ Close(c)
  <2>1. pos[c] <= head
    BY <1>2 DEF Execute, Cancel, Close, Idle
  <2>2. Doc(c) \in DocType /\ Event(c).id \in Ids
    BY <2>1, EventType
  <2>3. PICK doc, met : Update(c, doc, met) /\ doc.content = Doc(c).content
    BY <1>2, <2>2 DEF Execute, Cancel, Close, DocType
  <2>4. docs' = docs \/ docs' = [docs EXCEPT ![Event(c).id] = doc]
    BY <2>3 DEF Update
  <2> QED
    BY <1>0, <1>1, <2>2, <2>3, <2>4 DEF Doc
<1>3. CASE Paired(c)
  BY <1>0, <1>1, <1>3 DEF Paired, DocType
<1>4. CASE PushResult(c)
  BY <1>0, <1>1, <1>4 DEF PushResult, DocType
<1>5. CASE ExecuteSubs(c)
  BY <1>0, <1>1, <1>5 DEF ExecuteSubs, DocType
<1>6. CASE AdvanceStage(c)
  BY <1>0, <1>1, <1>6 DEF AdvanceStage, DocType
<1>7. CASE Create(c) \/ HarmonyCreate(c) \/ FindIncrementalId(c) \/ AskTaken(c) \/ Pair(c) \/ Report(c)
           \/ Advance(c) \/ FindSubs(c) \/ Crash(c) \/ HandlerFails(c) \/ Redeliver(c) \/ Skip(c)
  BY <1>7 DEF Create, HarmonyCreate, Begin, FindIncrementalId, AskTaken, Pair, Report, Advance, FindSubs,
              Crash, HandlerFails, Redeliver, Skip
<1> QED
  BY <1>2, <1>3, <1>4, <1>5, <1>6, <1>7 DEF StepOf, Step

\* A crawler that has still to come to e has so after a step that is not about e.
LEMMA StillComing ==
  ASSUME TypeInv, NEW c \in Crawlers, StepOf(c), NEW e \in Nat, Coming(e),
         e # pos[c] \/ ~Crawls(c, e)
  PROVE  Coming(e)'
<1>0. \A d \in Crawlers : Crawls(d, e)' <=> Crawls(d, e)
  BY StepOthers DEF Others, Crawls
<1>1. PICK d \in Crawlers : pos[d] <= e /\ Crawls(d, e)
  BY DEF Coming
<1>2. pos[d] \in Nat /\ pos[c] \in Nat
  BY HistoryType DEF TypeInv
<1>3. CASE d # c
  BY <1>0, <1>1, <1>3, StepOthers DEF Others, Coming
<1>4. CASE d = c
  <2>1. pos'[c] \in Int
    <3>1. TypeInv'
      BY StepTypeInv DEF Next, StepOf
    <3> QED
      BY <3>1 DEF TypeInv
  <2>2. pos'[c] <= pos[c] \/ pos'[c] = pos[c] + 1
    BY Movement
  <2>3. pos'[c] <= e
    BY <1>1, <1>2, <1>4, <2>1, <2>2
  <2> QED
    BY <1>0, <1>1, <1>4, <2>3 DEF Coming
<1> QED
  BY <1>3, <1>4

\* A step that keeps the document, and is not the edit of its event.
LEMMA KeptContent ==
  ASSUME TypeInv, NEW c \in Crawlers, StepOf(c), NEW p \in Ids, ContentOf(p),
         docs'[p].saved => docs[p].saved,
         docs'[p].content = docs[p].content,
         ~Edit(c) \/ Event(c).id # p \/ ~docs[p].saved
  PROVE  ContentOf(p)'
<1>1. UNCHANGED <<history, head>>
  BY StepOthers DEF Others
<1>2. Mined("Edited", p)' = Mined("Edited", p)
  BY <1>1 DEF Mined
<1>3. ASSUME NEW e \in Mined("Edited", p), docs'[p].saved, e \notin failed',
             \A m \in Mined("Edited", p) : m <= e
      PROVE  docs'[p].content = e \/ Coming(e)'
  <2>1. e \in 1 .. head /\ e \in Nat /\ history[e].kind = "Edited" /\ history[e].id = p
    BY HistoryType DEF Mined
  <2>2. CASE e = pos[c] /\ Crawls(c, e)
    <3>1. CASE Edit(c)
      BY <1>3, <2>1, <2>2, <3>1 DEF Event
    <3>2. CASE ~Edit(c)
      <4>1. pos'[c] <= pos[c]
        BY <1>3, <2>1, <2>2, <3>2, Movement
      <4>2. Crawls(c, e)'
        BY <2>2, StepOthers DEF Others, Crawls
      <4> QED
        BY <2>2, <4>1, <4>2 DEF Coming
    <3> QED
      BY <3>1, <3>2
  <2>3. CASE ~(e = pos[c] /\ Crawls(c, e))
    <3>1. e \notin failed
      <4>1. CASE e # pos[c]
        BY <1>3, <4>1, Movement
      <4>2. CASE e = pos[c] /\ ~Edit(c)
        BY <1>3, <2>1, <4>2, Movement
      <4>3. CASE e = pos[c] /\ Edit(c)
        BY <2>3, <4>3 DEF Edit, Idle, Event, Crawls
      <4> QED
        BY <4>1, <4>2, <4>3
    <3>2. docs[p].content = e \/ Coming(e)
      BY <1>3, <3>1 DEF ContentOf
    <3> QED
      BY <2>1, <2>3, <3>2, StillComing
  <2> QED
    BY <2>2, <2>3
<1>4. docs'[p].content \in Mined("Edited", p)' \union {0}
  BY <1>2 DEF ContentOf
<1> QED
  BY <1>2, <1>3, <1>4 DEF ContentOf

LEMMA SaveContent ==
  ASSUME TypeInv, NEW c \in Crawlers, Save(c), NEW p \in Ids, ContentOf(p)
  PROVE  ContentOf(p)'
<1>0. StepOf(c)
  BY DEF StepOf, Step
<1>1. UNCHANGED <<history, head>>
  BY <1>0, StepOthers DEF Others
<1>2. /\ Event(c).id \in Ids /\ pos[c] \in DOMAIN history /\ pos[c] \in Nat /\ Creation(pos[c])
      /\ Event(c) = history[pos[c]]
  BY EventType, HistoryType DEF Save, TypeInv, FitsEvent, Creation
<1>3. CASE p # Event(c).id
  <2>1. docs'[p] = docs[p]
    BY <1>2, <1>3 DEF Save, TypeInv
  <2> QED
    BY <1>0, <1>3, <2>1, KeptContent
<1>4. CASE p = Event(c).id
  <2>1. docs'[p].content = 0
    BY <1>2, <1>4 DEF Save, TypeInv, DocType, Fresh
  <2>2. Mined("Edited", p)' = Mined("Edited", p)
    BY <1>1 DEF Mined
  <2>3. ASSUME NEW e \in Mined("Edited", p)
        PROVE  Coming(e)'
    <3>1. e \in DOMAIN history /\ e \in Nat /\ history[e].kind = "Edited" /\ history[e].id = p
      BY HistoryType DEF Mined
    <3>2. PICK n \in DOMAIN history : n < e /\ history[n].kind \in Creations /\ history[n].id = p
      BY <3>1, AfterCreation DEF Creations
    <3>3. n = pos[c]
      BY <1>2, <1>4, <3>2, InOrder DEF Creation
    <3>4. pos[c] <= e /\ Crawls(c, e)
      BY <1>2, <1>4, <3>1, <3>2, <3>3, CrawlsOwn DEF Save
    <3>5. e # pos[c]
      BY <1>2, <3>1, <3>2, <3>3
    <3> QED
      BY <1>0, <3>1, <3>4, <3>5, StillComing DEF Coming
  <2> QED
    BY <2>1, <2>2, <2>3 DEF ContentOf
<1> QED
  BY <1>3, <1>4

LEMMA EditContent ==
  ASSUME TypeInv, NEW c \in Crawlers, Edit(c), NEW p \in Ids, ContentOf(p)
  PROVE  ContentOf(p)'
<1>0. StepOf(c) /\ Event(c).kind = "Edited"
  BY DEF StepOf, Step, Edit, Idle
<1>1. UNCHANGED <<history, head>>
  BY <1>0, StepOthers DEF Others
<1>2. /\ Event(c).id \in Ids /\ pos[c] \in 1 .. head /\ pos[c] \in Nat /\ Doc(c) \in DocType
      /\ Event(c) = history[pos[c]]
  BY EventType, HistoryType DEF Edit, Idle
<1>3. CASE p # Event(c).id \/ ~docs[p].saved
  <2>1. docs'[p] = docs[p]
    BY <1>2, <1>3 DEF Edit, Update, Doc, TypeInv
  <2> QED
    BY <1>0, <1>3, <2>1, KeptContent
<1>4. CASE p = Event(c).id /\ docs[p].saved
  <2>1. docs' = [docs EXCEPT ![p] = [Doc(c) EXCEPT !.content = pos[c]]] /\ Return(c, FALSE)
    BY <1>4 DEF Edit, Update, Doc
  <2>2. docs'[p].content = pos[c] /\ pos'[c] = pos[c] + 1
    BY <1>2, <2>1 DEF Return, TypeInv, DocType
  <2>3. Mined("Edited", p)' = Mined("Edited", p) /\ pos[c] \in Mined("Edited", p)
    BY <1>0, <1>1, <1>2, <1>4 DEF Mined
  <2>4. ASSUME NEW e \in Mined("Edited", p), \A m \in Mined("Edited", p) : m <= e
        PROVE  docs'[p].content = e \/ Coming(e)'
    <3>1. e \in Nat /\ pos[c] <= e
      BY <2>3, <2>4, HistoryType DEF Mined
    <3>2. Crawls(c, e)'
      BY <1>0, <1>4, <2>4, StepOthers DEF Edit, Idle, Others, Mined, Crawls
    <3>3. e = pos[c] \/ pos'[c] <= e
      BY <1>2, <2>2, <3>1
    <3> QED
      BY <2>2, <3>2, <3>3 DEF Coming
  <2> QED
    BY <2>2, <2>3, <2>4 DEF ContentOf
<1> QED
  BY <1>3, <1>4

LEMMA MineContent ==
  ASSUME TypeInv, Mine, NEW p \in Ids, ContentOf(p)
  PROVE  ContentOf(p)'
<1>1. /\ head \in Nat /\ head' \in Nat /\ head < head'
      /\ UNCHANGED <<history, address, docs, pos, failed>>
  BY MineType, HistoryType DEF Mine, given
<1>2. Mined("Edited", p) \subseteq Mined("Edited", p)'
  <2> SUFFICES ASSUME NEW n \in 1 .. head PROVE n \in 1 .. head'
    BY <1>1 DEF Mined
  <2> QED
    BY <1>1
<1>3. ASSUME NEW e \in Mined("Edited", p)', docs[p].saved, e \notin failed,
             \A m \in Mined("Edited", p)' : m <= e
      PROVE  docs[p].content = e \/ Coming(e)
  <2>1. e \in 1 .. head' /\ history[e].kind = "Edited" /\ history[e].id = p
    BY <1>1 DEF Mined
  <2>2. CASE e <= head
    <3>1. e \in Mined("Edited", p)
      BY <1>1, <2>1, <2>2 DEF Mined
    <3> QED
      BY <1>2, <1>3, <3>1 DEF ContentOf
  <2>3. CASE ~(e <= head)
    <3>1. PICK c \in Crawlers : Crawls(c, e)
      BY <1>1, <2>1, HistoryType, MineType, Crawled
    <3>2. pos[c] \in Nat /\ pos[c] <= head + 1
      BY HistoryType DEF TypeInv
    <3>3. pos[c] <= e
      BY <1>1, <2>1, <2>3, <3>2
    <3> QED
      BY <3>1, <3>3 DEF Coming
  <2> QED
    BY <2>2, <2>3
<1> QED
  BY <1>1, <1>2, <1>3 DEF ContentOf, Coming, Crawls

LEMMA StepEditInv ==
  ASSUME EditInv, [Next]_vars
  PROVE  EditInv'
<1>1. TypeInv' /\ TypeInv
  BY StepTypeInv DEF EditInv
<1>2. ASSUME NEW p \in Ids PROVE ContentOf(p)'
  <2>1. ContentOf(p)
    BY DEF EditInv, ContentInv, ContentOf
  <2>2. CASE UNCHANGED vars
    BY <2>1, <2>2 DEF vars, given, ContentOf, Mined, Coming, Crawls
  <2>3. CASE Mine
    BY <1>1, <2>1, <2>3, MineContent
  <2>4. ASSUME NEW c \in Crawlers, StepOf(c) PROVE ContentOf(p)'
    <3>1. CASE Save(c)
      BY <1>1, <2>1, <3>1, SaveContent
    <3>2. CASE Edit(c)
      BY <1>1, <2>1, <3>2, EditContent
    <3>3. CASE ~Save(c) /\ ~Edit(c)
      BY <1>1, <2>1, <2>4, <3>3, ContentKept, KeptContent
    <3> QED
      BY <3>1, <3>2, <3>3
  <2> QED
    BY <2>2, <2>3, <2>4 DEF Next, StepOf
<1>3. ContentInv'
  BY <1>2 DEF ContentInv
<1> QED
  BY <1>1, <1>3 DEF EditInv

LEMMA EditInvFollows == EditInv => ContentFollows
<1> SUFFICES ASSUME EditInv, AtRest, NEW p \in Ids, docs[p].saved,
                    Latest(Mined("Edited", p)) \notin failed
             PROVE  docs[p].content = Latest(Mined("Edited", p))
  BY DEF ContentFollows
<1> DEFINE S == Mined("Edited", p)
<1>1. S \in SUBSET (1 .. head) /\ head \in Nat
  BY HistoryType DEF Mined, EditInv
<1>2. CASE S = {}
  <2>1. Latest(S) = 0
    BY <1>1, <1>2, LatestIn
  <2> QED
    BY <1>2, <2>1 DEF EditInv, ContentInv, ContentOf
<1>3. CASE S # {}
  <2>1. Latest(S) \in S /\ \A m \in S : m <= Latest(S)
    <3>1. \E m \in S \union {0} : \A i \in S : i <= m
      BY <1>1, <1>3, Greatest
    <3> HIDE DEF S
    <3>2. Latest(S) \in S
      BY <1>1, <1>3, LatestIn
    <3> QED
      BY <3>1, <3>2 DEF Latest
  <2>2. docs[p].content = Latest(S) \/ Coming(Latest(S))
    BY <2>1 DEF EditInv, ContentInv, ContentOf
  <2>3. \A c \in Crawlers : ~(pos[c] <= Latest(S))
    <3>1. Latest(S) \in Nat /\ Latest(S) <= head
      BY <1>1, <2>1
    <3> QED
      BY <1>1, <3>1 DEF AtRest
  <2> QED
    BY <2>2, <2>3 DEF Coming
<1> QED
  BY <1>2, <1>3

\* When the crawlers are through with the chain, a proposal has the content of
\* its last edit, if the handler of that did not fail the last time: whatever
\* was given again, created again, failed or was cut short before.
THEOREM LastEditWins == Spec => []ContentFollows
BY InitEditInv, StepEditInv, EditInvFollows, PTL DEF Spec

-----------------------------------------------------------------------------
(* Handlers of one proposal that meet *)

\* Two handlers that are at work at once on a proposal have spoiled one of the
\* groups they are about.
Solo ==
  \A c, d \in Crawlers :
    c # d /\ pc[c] # "idle" /\ pc[d] # "idle" /\ Group(pos[c]) \intersect Group(pos[d]) # {} =>
      Group(pos[c]) \subseteq spoiled \/ Group(pos[d]) \subseteq spoiled

\* The later steps of a handler find its document stored.
Later == {"pair", "paired", "push", "subs", "execute", "stage"}
StoredInv == \A c \in Crawlers : pc[c] \in Later => Doc(c).saved

BaseInv == TypeInv /\ Solo /\ StoredInv

LEMMA InitBaseInv == Init => BaseInv
BY InitTypeInv DEF Init, BaseInv, Solo, StoredInv, Later

LEMMA SpoiledGrows ==
  ASSUME NEW c \in Crawlers, StepOf(c)
  PROVE  spoiled \subseteq spoiled'
<1>1. CASE Create(c) \/ HarmonyCreate(c)
  BY <1>1 DEF Create, HarmonyCreate, Begin, Overlap
<1>2. CASE FindIncrementalId(c) \/ AskTaken(c) \/ Save(c) \/ Pair(c) \/ Paired(c)
  BY <1>2 DEF FindIncrementalId, AskTaken, Save, Pair, Paired
<1>3. CASE Edit(c) \/ Execute(c) \/ Cancel(c) \/ Close(c)
  BY <1>3 DEF Edit, Execute, Cancel, Close, Update
<1>4. CASE Report(c) \/ Advance(c)
  BY <1>4 DEF Report, Advance, Overlap
<1>5. CASE PushResult(c) \/ FindSubs(c) \/ ExecuteSubs(c) \/ AdvanceStage(c)
  BY <1>5 DEF PushResult, FindSubs, ExecuteSubs, AdvanceStage
<1>6. CASE Crash(c) \/ HandlerFails(c) \/ Redeliver(c) \/ Skip(c)
  BY <1>6 DEF Crash, HandlerFails, Redeliver, Skip
<1> QED
  BY <1>1, <1>2, <1>3, <1>4, <1>5, <1>6 DEF StepOf, Step

\* A handler that goes on was at work before, or has looked for others.
LEMMA GoesOn ==
  ASSUME TypeInv, NEW c \in Crawlers, StepOf(c), pc'[c] # "idle"
  PROVE  pos' = pos /\ (pc[c] # "idle" \/ Overlap(c))
<1>1. ASSUME NEW dropped, Return(c, dropped) PROVE FALSE
  BY <1>1 DEF Return, TypeInv
<1>2. CASE Create(c) \/ HarmonyCreate(c)
  BY <1>1, <1>2 DEF Create, HarmonyCreate, Begin, Goto
<1>3. CASE FindIncrementalId(c) \/ AskTaken(c) \/ Save(c) \/ Pair(c)
  BY <1>1, <1>3 DEF FindIncrementalId, AskTaken, Save, Pair, Goto
<1>4. CASE Report(c) \/ Advance(c)
  BY <1>1, <1>4 DEF Report, Advance, Goto
<1>5. CASE FindSubs(c) \/ ExecuteSubs(c)
  BY <1>5 DEF FindSubs, ExecuteSubs, Goto
<1>6. CASE Edit(c) \/ Execute(c) \/ Cancel(c) \/ Close(c)
  BY <1>1, <1>6 DEF Edit, Execute, Cancel, Close, Update
<1>7. CASE Paired(c) \/ PushResult(c) \/ AdvanceStage(c) \/ HandlerFails(c)
  BY <1>1, <1>7 DEF Paired, PushResult, AdvanceStage, HandlerFails
<1>8. CASE Crash(c) \/ Redeliver(c) \/ Skip(c)
  BY <1>8 DEF Crash, Redeliver, Skip, Goto, TypeInv
<1> QED
  BY <1>2, <1>3, <1>4, <1>5, <1>6, <1>7, <1>8 DEF StepOf, Step

LEMMA StepSolo ==
  ASSUME TypeInv, Solo, NEW c \in Crawlers, StepOf(c)
  PROVE  Solo'
<1>1. UNCHANGED history /\ \A d \in Crawlers : d # c => pc'[d] = pc[d] /\ pos'[d] = pos[d]
  BY StepOthers DEF Others
<1>2. \A n : Group(n)' = Group(n)
  BY <1>1 DEF Group
<1>3. spoiled \subseteq spoiled'
  BY SpoiledGrows
<1>4. ASSUME NEW d \in Crawlers, d # c, pc'[c] # "idle", pc'[d] # "idle",
             Group(pos[c]) \intersect Group(pos[d]) # {}
      PROVE  Group(pos[c]) \subseteq spoiled' \/ Group(pos[d]) \subseteq spoiled'
  <2>1. CASE pc[c] # "idle"
    BY <1>1, <1>3, <1>4, <2>1 DEF Solo
  <2>2. CASE Overlap(c)
    BY <1>1, <1>4, <2>2 DEF Overlap
  <2> QED
    BY <1>4, <2>1, <2>2, GoesOn
<1>5. ASSUME NEW b \in Crawlers, NEW d \in Crawlers, b # d, pc'[b] # "idle", pc'[d] # "idle",
             Group(pos'[b]) \intersect Group(pos'[d]) # {}
      PROVE  Group(pos'[b]) \subseteq spoiled' \/ Group(pos'[d]) \subseteq spoiled'
  <2>1. CASE b = c \/ d = c
    <3>1. pos' = pos
      BY <1>5, <2>1, GoesOn
    <3> QED
      BY <1>4, <1>5, <2>1, <3>1
  <2>2. CASE b # c /\ d # c
    BY <1>1, <1>3, <1>5, <2>2 DEF Solo
  <2> QED
    BY <2>1, <2>2
<1>6. \A b \in Crawlers : Group(pos[b])' = Group(pos'[b])
  BY <1>1 DEF Group
<1> QED
  BY <1>5, <1>6 DEF Solo

\* A document that is stored stays so.
LEMMA SavedStays ==
  ASSUME TypeInv, NEW c \in Crawlers, StepOf(c), NEW p \in Ids, docs[p].saved
  PROVE  docs'[p].saved
<1>1. CASE Save(c)
  BY <1>1, EventType DEF Save, TypeInv, DocType
<1>2. CASE ~Save(c)
  BY <1>2, StepKept DEF Kept
<1> QED
  BY <1>1, <1>2

LEMMA EntersLater ==
  ASSUME TypeInv, NEW c \in Crawlers, StepOf(c), pc'[c] \in Later
  PROVE  \/ pc[c] \in Later
         \/ Save(c)
         \/ (Report(c) \/ Advance(c)) /\ Doc(c).saved
<1>1. ASSUME NEW dropped, Return(c, dropped) PROVE FALSE
  BY <1>1 DEF Return, TypeInv, Later
<1>2. CASE Create(c) \/ HarmonyCreate(c)
  BY <1>1, <1>2 DEF Create, HarmonyCreate, Begin, Goto, TypeInv, Later
<1>3. CASE FindIncrementalId(c) \/ AskTaken(c)
  BY <1>1, <1>3 DEF FindIncrementalId, AskTaken, Goto, TypeInv, Later
<1>4. CASE Report(c) \/ Advance(c)
  BY <1>1, <1>4 DEF Report, Advance
<1>5. CASE Pair(c) \/ FindSubs(c) \/ ExecuteSubs(c)
  BY <1>5 DEF Pair, FindSubs, ExecuteSubs, Later
<1>6. CASE Edit(c) \/ Execute(c) \/ Cancel(c) \/ Close(c)
  BY <1>1, <1>6 DEF Edit, Execute, Cancel, Close, Update
<1>7. CASE Paired(c) \/ PushResult(c) \/ AdvanceStage(c) \/ HandlerFails(c)
  BY <1>1, <1>7 DEF Paired, PushResult, AdvanceStage, HandlerFails
<1>8. CASE Crash(c) \/ Redeliver(c) \/ Skip(c)
  BY <1>8 DEF Crash, Redeliver, Skip, Goto, TypeInv, Later
<1> QED
  BY <1>2, <1>3, <1>4, <1>5, <1>6, <1>7, <1>8 DEF StepOf, Step

LEMMA StepStoredInv ==
  ASSUME TypeInv, StoredInv, NEW c \in Crawlers, StepOf(c)
  PROVE  StoredInv'
<1> SUFFICES ASSUME NEW d \in Crawlers, pc'[d] \in Later PROVE Doc(d)'.saved
  BY DEF StoredInv
<1>1. UNCHANGED history /\ (d # c => pc'[d] = pc[d] /\ pos'[d] = pos[d])
  BY StepOthers DEF Others
<1>2. CASE d # c
  <2>1. Doc(d).saved /\ Event(d)' = Event(d) /\ Event(d).id \in Ids
    BY <1>1, <1>2, EventType DEF StoredInv, Later, Event
  <2> QED
    BY <2>1, SavedStays DEF Doc
<1>3. CASE d = c
  <2>1. pos' = pos
    BY <1>3, GoesOn DEF Later
  <2>2. pos[c] <= head
    <3>1. pc[c] # "idle" \/ Report(c) \/ Advance(c)
      BY <1>3, EntersLater DEF Later, Save
    <3> QED
      BY <3>1 DEF TypeInv, Report, Advance, Idle
  <2>3. Event(c)' = Event(c) /\ Event(c).id \in Ids
    BY <1>1, <2>1, <2>2, EventType DEF Event
  <2>4. CASE Save(c)
    <3>1. docs \in [Ids -> DocType] /\ docs[Event(c).id] \in DocType
      BY <2>3 DEF TypeInv
    <3>2. docs'[Event(c).id].saved
      BY <2>3, <2>4, <3>1 DEF Save, DocType, Fresh
    <3> QED
      BY <1>3, <2>3, <3>2 DEF Doc
  <2>5. CASE ~Save(c)
    <3>1. Doc(c).saved
      BY <1>3, <2>5, EntersLater DEF StoredInv
    <3> QED
      BY <1>3, <2>3, <3>1, SavedStays DEF Doc
  <2> QED
    BY <2>4, <2>5
<1> QED
  BY <1>2, <1>3

LEMMA StepBaseInv ==
  ASSUME BaseInv, [Next]_vars
  PROVE  BaseInv'
<1>1. TypeInv'
  BY StepTypeInv DEF BaseInv
<1>2. CASE Mine \/ UNCHANGED vars
  <2>1. UNCHANGED <<history, docs, pos, pc, spoiled>>
    BY <1>2 DEF Mine, vars, given
  <2>2. \A n : Group(n)' = Group(n)
    BY <2>1 DEF Group
  <2>3. Solo'
    BY <2>1, <2>2 DEF BaseInv, Solo
  <2>4. StoredInv'
    BY <2>1 DEF BaseInv, StoredInv, Doc, Event
  <2> QED
    BY <1>1, <2>3, <2>4 DEF BaseInv
<1>3. ASSUME NEW c \in Crawlers, StepOf(c) PROVE BaseInv'
  BY <1>1, <1>3, StepSolo, StepStoredInv DEF BaseInv
<1> QED
  BY <1>2, <1>3 DEF Next, StepOf

-----------------------------------------------------------------------------
(* The order of the numbers *)

\* Every creation of the plugin of n before it is saved.
Behind(n) == \A m \in Earlier(n) : Saved(m)

\* The creations of the plugin of n in earlier blocks, and those before n that
\* are of the block of x or a later one.
Old(n) == {x \in Earlier(n) : history[x].block < history[n].block}
Since(x, n) == {y \in Earlier(n) : history[y].block >= history[x].block}

\* The one of an earlier block with the highest number.
Top(x, n) == x \in Old(n) /\ \A y \in Old(n) : Num(y) <= Num(x)

\* The number k counts on from that one, or from the first.
Counted(n, k) ==
  history[n].kind = "Created" =>
    \/ Old(n) = {} /\ k = Count(n)
    \/ \E x \in DOMAIN history : Top(x, n) /\ k = Num(x) + Cardinality(Since(x, n))

Orderly == spoiled = {} /\ ~raced

\* Every creation a crawler has been given is saved.
Through(c) ==
  \A m \in DOMAIN history : m < pos[c] /\ Creation(m) /\ Crawls(c, m) => Saved(m)

CaughtUp == \A c \in Crawlers : Through(c)
SavedOrder == \A n \in DOMAIN history : Saved(n) => Behind(n) /\ Counted(n, Num(n))
OwnOrder == \A c \in Crawlers : pc[c] \in {"taken", "save"} => Counted(pos[c], mem[c].num)
NoneGivenUp == \A n \in failed : ~Creation(n)

OrderInv == Orderly => CaughtUp /\ SavedOrder /\ OwnOrder /\ NoneGivenUp

LEMMA InitOrderInv == Init => OrderInv
<1> SUFFICES ASSUME Init PROVE OrderInv
  OBVIOUS
<1>1. TypeInv /\ \A p \in Ids : ~docs[p].saved
  BY InitTypeInv DEF Init, NoDoc, Fresh
<1>2. \A n \in DOMAIN history : ~Saved(n) /\ n >= 1
  BY <1>1, HistoryType DEF Saved
<1>3. \A c \in Crawlers : pos[c] = 1 /\ pc[c] = "idle"
  BY DEF Init
<1>4. CaughtUp
  BY <1>1, <1>2, <1>3, HistoryType DEF CaughtUp, Through
<1>5. failed = {}
  BY DEF Init
<1> QED
  BY <1>2, <1>3, <1>4, <1>5 DEF OrderInv, SavedOrder, OwnOrder, NoneGivenUp

\* A crawler at work on a creation has been given those of its plugin before it.
LEMMA CaughtBehind ==
  ASSUME TypeInv, CaughtUp, NEW c \in Crawlers, pc[c] # "idle" \/ Event(c).id \in address[c],
         pos[c] \in DOMAIN history
  PROVE  Behind(pos[c])
<1> SUFFICES ASSUME NEW m \in Earlier(pos[c]) PROVE Saved(m)
  BY DEF Behind
<1>1. m \in DOMAIN history /\ Kin(m, pos[c]) /\ m < pos[c] /\ Creation(m)
  BY DEF Earlier, Kin
<1>2. Crawls(c, pos[c])
  BY CrawlsOwn DEF Event
<1>3. Crawls(c, m)
  BY <1>1, <1>2, Crawled
<1> QED
  BY <1>1, <1>3 DEF CaughtUp, Through

LEMMA NumType ==
  ASSUME TypeInv, NEW n \in DOMAIN history
  PROVE  n \in Nat /\ Num(n) \in Nat /\ Count(n) \in Nat /\ history[n].block \in Nat
<1>1. n \in Nat /\ history[n].id \in Ids /\ history[n].block \in Nat
  BY HistoryType
<1>2. docs[history[n].id].num \in Nat
  BY <1>1 DEF TypeInv, DocType
<1> QED
  BY <1>1, <1>2, CountType DEF Num

LEMMA SinceType ==
  ASSUME TypeInv, NEW x, NEW n
  PROVE  IsFiniteSet(Since(x, n)) /\ Cardinality(Since(x, n)) \in Nat
<1>1. Since(x, n) \subseteq Earlier(n)
  BY DEF Since
<1> QED
  BY <1>1, CountType, FS_Subset, FS_CardinalityType

LEMMA SinceGrows ==
  ASSUME TypeInv, NEW x, NEW n, NEW y \in Since(x, n), Since(x, y) \subseteq Since(x, n), y \notin Since(x, y)
  PROVE  Cardinality(Since(x, y)) < Cardinality(Since(x, n))
<1>1. /\ Cardinality(Since(x, y)) <= Cardinality(Since(x, n))
      /\ Cardinality(Since(x, n)) = Cardinality(Since(x, y)) => Since(x, n) = Since(x, y)
  BY SinceType, FS_Subset
<1> QED
  BY <1>1, SinceType

\* Two creations of a plugin in one block count from the same one.
LEMMA SameBlock ==
  ASSUME TypeInv, NEW n \in DOMAIN history, NEW y \in Earlier(n), y \notin Old(n)
  PROVE  /\ Old(y) = Old(n)
         /\ \A x \in Old(n) : /\ y \in Since(x, n) /\ y \notin Since(x, y)
                              /\ Since(x, y) \subseteq Since(x, n)
<1>1. y \in DOMAIN history /\ Kin(y, n) /\ y < n /\ y \in Nat /\ n \in Nat
  BY NumType DEF Earlier
<1>2. history[y].block = history[n].block
  <2>1. ~(history[n].block < history[y].block)
    BY <1>1, InOrder
  <2>2. ~(history[y].block < history[n].block)
    BY DEF Old
  <2> QED
    BY <1>1, <2>1, <2>2, NumType
<1>3. \A x : Kin(x, y) <=> Kin(x, n)
  BY <1>1, KinSame
<1>4. \A x \in DOMAIN history : x < y => x < n
  BY <1>1, NumType
<1>5. \A x \in DOMAIN history : history[x].block < history[n].block => x < n /\ x < y
  BY <1>1, <1>2, InOrder
<1>6. Old(y) = Old(n)
  BY <1>2, <1>3, <1>5 DEF Old, Earlier
<1>7. ASSUME NEW x \in Old(n)
      PROVE  /\ y \in Since(x, n) /\ y \notin Since(x, y)
             /\ Since(x, y) \subseteq Since(x, n)
  <2>1. x \in DOMAIN history /\ history[x].block < history[y].block
    BY <1>2, <1>7 DEF Old, Earlier
  <2>2. history[y].block >= history[x].block
    BY <1>1, <2>1, NumType
  <2>3. y \in Since(x, n)
    BY <2>2 DEF Since
  <2>4. y \notin Earlier(y)
    BY <1>1 DEF Earlier
  <2>5. Earlier(y) \subseteq Earlier(n)
    BY <1>3, <1>4 DEF Earlier
  <2> QED
    BY <2>3, <2>4, <2>5 DEF Since
<1> QED
  BY <1>6, <1>7

\* A number that is counted is above those of the creations before.
LEMMA CountedAbove ==
  ASSUME TypeInv, SavedInv, Unique, NEW n \in DOMAIN history, Creation(n), NEW k \in Nat,
         Behind(n), Counted(n, k),
         history[n].kind = "HarmonyCreated" => k = Count(n) + 1,
         NEW y \in Earlier(n), Counted(y, Num(y))
  PROVE  Num(y) < k
<1>1. /\ y \in DOMAIN history /\ Kin(y, n) /\ y < n /\ Saved(y) /\ history[y].kind = history[n].kind
      /\ Num(y) \in Nat /\ Count(y) \in Nat /\ Count(n) \in Nat
  BY NumType DEF Earlier, Kin, Behind
<1>2. Count(y) < Count(n)
  BY <1>1, CountGrows
<1>3. CASE history[n].kind = "HarmonyCreated"
  <2>1. Num(y) = Count(y) + 1
    BY <1>1, <1>3 DEF SavedInv
  <2> QED
    BY <1>1, <1>2, <1>3, <2>1
<1>4. CASE history[n].kind = "Created" /\ Old(n) = {} /\ k = Count(n)
  <2>1. Old(y) = {}
    BY <1>4, SameBlock
  <2>2. Num(y) = Count(y)
    BY <1>1, <1>4, <2>1 DEF Counted, Top
  <2> QED
    BY <1>1, <1>2, <1>4, <2>2
<1>5. ASSUME history[n].kind = "Created", NEW x \in DOMAIN history, Top(x, n),
             k = Num(x) + Cardinality(Since(x, n))
      PROVE  Num(y) < k
  <2>1. /\ x \in Old(n) /\ x \in Earlier(n) /\ Kin(x, n) /\ Saved(x) /\ Num(x) \in Nat
        /\ Cardinality(Since(x, n)) \in Nat
    BY <1>5, NumType, SinceType DEF Top, Old, Earlier, Behind, Kin
  <2>2. CASE y \in Old(n)
    <3>1. x \in Since(x, n)
      BY <2>1, NumType DEF Since
    <3>2. Cardinality(Since(x, n)) # 0
      BY <3>1, SinceType, FS_EmptySet
    <3>3. Num(y) <= Num(x)
      BY <1>5, <2>2 DEF Top
    <3> QED
      BY <1>1, <1>5, <2>1, <3>2, <3>3
  <2>3. CASE y \notin Old(n)
    <3>1. Old(y) = Old(n) /\ Old(y) # {}
      BY <2>1, <2>3, SameBlock
    <3>2. PICK z \in DOMAIN history : Top(z, y) /\ Num(y) = Num(z) + Cardinality(Since(z, y))
      BY <1>1, <1>5, <3>1 DEF Counted
    <3>3. z \in Old(n) /\ Num(z) = Num(x)
      BY <1>5, <2>1, <3>1, <3>2, NumType DEF Top
    <3>4. Kin(z, n) /\ Saved(z)
      BY <3>3 DEF Old, Earlier, Behind, Kin
    <3>5. Kin(z, x)
      BY <2>1, <3>4, KinSame
    <3>6. z = x
      BY <2>1, <3>3, <3>4, <3>5 DEF Unique
    <3>7. Cardinality(Since(x, y)) < Cardinality(Since(x, n))
      BY <2>1, <2>3, SameBlock, SinceGrows
    <3> QED
      BY <1>1, <1>5, <2>1, <3>2, <3>6, <3>7, SinceType
  <2> QED
    BY <2>2, <2>3
<1> QED
  BY <1>3, <1>4, <1>5 DEF Counted, Creation, Creations

\* findIncrementalId finds the one to count on from.
LEMMA FindsTop ==
  ASSUME TypeInv, NEW n \in 1 .. head, Creation(n), Behind(n)
  PROVE  /\ \A x \in LastSaved(n) : x \in 1 .. head /\ x \in DOMAIN history /\ Top(x, n)
         /\ LastSaved(n) = {} => Old(n) = {}
<1>1. n \in DOMAIN history
  BY HistoryType
<1>2. \A x \in Old(n) : x \in 1 .. head /\ x \in DOMAIN history /\ Kin(x, n) /\ Saved(x)
                       /\ history[x].block < history[n].block
  BY HistoryType DEF Old, Earlier, Behind, Kin
<1>3. ASSUME NEW x \in LastSaved(n)
      PROVE  x \in 1 .. head /\ x \in DOMAIN history /\ Top(x, n)
  <2>1. x \in Siblings(n) /\ history[x].block < history[n].block
    BY DEF LastSaved
  <2>2. x \in 1 .. head /\ Kin(x, n) /\ x \in DOMAIN history
    BY <2>1, LogsRead, HistoryType
  <2>3. x \in Old(n)
    BY <1>1, <2>1, <2>2, InOrder DEF Old, Earlier
  <2>4. \A y \in Old(n) : y \in Siblings(n) /\ docs[history[y].id].saved /\ history[y].block < history[n].block
    BY <1>2, LogsRead DEF Saved
  <2>5. \A y \in Old(n) : Num(y) <= Num(x)
    BY <2>4 DEF LastSaved, Num
  <2> QED
    BY <2>2, <2>3, <2>5 DEF Top
<1>4. ASSUME LastSaved(n) = {}, NEW x \in Old(n) PROVE FALSE
  <2>1. EarlierSaved(n)
    BY <1>2 DEF EarlierSaved, Old
  <2> QED
    BY <1>4, <2>1, NoneEarlier
<1> QED
  BY <1>3, <1>4

\* Steps other than Save keep what the numbers are counted from.
LEMMA SameOrder ==
  ASSUME TypeInv, UNCHANGED history, Kept, NEW n \in DOMAIN history, NEW k
  PROVE  Counted(n, k)' <=> Counted(n, k)
<1>1. \A m \in DOMAIN history : Num(m)' = Num(m)
  BY HistoryType DEF Num, Kept
<1>2. Earlier(n)' = Earlier(n)
  <2>1. \A x : Kin(x, n)' <=> Kin(x, n)
    BY SameNumbers
  <2> QED
    BY <2>1 DEF Earlier
<1>3. Old(n)' = Old(n) /\ \A x : Since(x, n)' = Since(x, n)
  BY <1>2 DEF Old, Since
<1>4. Old(n) \subseteq DOMAIN history
  BY DEF Old, Earlier
<1>5. \A x \in DOMAIN history : Top(x, n)' <=> Top(x, n)
  BY <1>1, <1>3, <1>4 DEF Top
<1>6. Count(n)' = Count(n)
  BY SameNumbers
<1> QED
  BY <1>1, <1>3, <1>5, <1>6 DEF Counted

LEMMA SameBehind ==
  ASSUME TypeInv, UNCHANGED history, Kept, NEW n
  PROVE  Behind(n)' <=> Behind(n)
<1>1. \A m \in DOMAIN history : Saved(m)' <=> Saved(m)
  BY SameNumbers
<1>2. Earlier(n)' = Earlier(n)
  BY DEF Earlier, Kin, Creation
<1> QED
  BY <1>1, <1>2 DEF Behind, Earlier

LEMMA GroupHas ==
  ASSUME TypeInv, NEW c \in Crawlers, Group(pos[c]) \subseteq spoiled'
  PROVE  spoiled' # {}
BY DEF Group

\* A crawler passes a creation that is saved or another's, unless its number is
\* taken.
LEMMA PassesSaved ==
  ASSUME TypeInv, StoredInv, NEW c \in Crawlers, StepOf(c), ~Save(c), spoiled' = {},
         pos[c] \in DOMAIN history, Creation(pos[c])
  PROVE  \/ pos'[c] <= pos[c] /\ failed' = failed
         \/ pos'[c] = pos[c] + 1 /\ (Saved(pos[c]) \/ ~Crawls(c, pos[c])) /\ failed' \subseteq failed
         \/ AskTaken(c) /\ Taken(pos[c], mem[c].num)
<1>0. pos[c] \in Nat /\ pos \in [Crawlers -> 1 .. (Len(history) + 1)]
  BY HistoryType DEF TypeInv
<1>1. ASSUME NEW place, NEW m, Goto(c, place, m)
      PROVE  pos'[c] <= pos[c] /\ failed' = failed
  BY <1>0, <1>1 DEF Goto
<1>2. ASSUME Return(c, FALSE), Doc(c).saved
      PROVE  pos'[c] = pos[c] + 1 /\ Saved(pos[c]) /\ failed' \subseteq failed
  BY <1>0, <1>2 DEF Return, Saved, Doc, Event
<1>3. ~(Group(pos[c]) \subseteq spoiled')
  BY GroupHas
<1>4. CASE Create(c) \/ HarmonyCreate(c)
  BY <1>1, <1>2, <1>4 DEF Create, HarmonyCreate, Begin
<1>5. CASE FindIncrementalId(c) \/ AskTaken(c) \/ Pair(c)
  BY <1>1, <1>5 DEF FindIncrementalId, AskTaken, Pair
<1>6. CASE Paired(c)
  <2>1. Doc(c).saved /\ Return(c, FALSE)
    BY <1>6 DEF StoredInv, Paired, Later
  <2> QED
    BY <1>2, <2>1
<1>7. CASE Edit(c) \/ Execute(c) \/ Cancel(c) \/ Close(c) \/ Report(c) \/ Advance(c)
  BY <1>7 DEF Edit, Execute, Cancel, Close, Report, Advance, Idle, Event, Creation, Creations
<1>8. CASE PushResult(c) \/ FindSubs(c) \/ ExecuteSubs(c) \/ AdvanceStage(c)
  BY <1>8 DEF PushResult, FindSubs, ExecuteSubs, AdvanceStage, TypeInv, FitsEvent, Event, Creation, Creations
<1>9. CASE Crash(c) \/ HandlerFails(c)
  BY <1>3, <1>9 DEF Crash, HandlerFails
<1>10. CASE Redeliver(c) \/ Skip(c)
  BY <1>0, <1>10 DEF Redeliver, Skip, Crawls, Event
<1> QED
  BY <1>4, <1>5, <1>6, <1>7, <1>8, <1>9, <1>10 DEF StepOf, Step

\* The number of a handler is never taken.
LEMMA NeverTaken ==
  ASSUME TypeInv, SavedInv, Unique, MakingInv, OrderInv, Orderly, NEW c \in Crawlers, pc[c] = "taken"
  PROVE  ~Taken(pos[c], mem[c].num)
<1> SUFFICES ASSUME NEW x \in Siblings(pos[c]), docs[history[x].id].saved, docs[history[x].id].num = mem[c].num
             PROVE  FALSE
  BY DEF Taken
<1>1. PICK n \in 1 .. head : n = pos[c] /\ n \in DOMAIN history /\ history[n].kind = "Created"
  BY EventType DEF TypeInv, FitsEvent, Event
<1>2. PICK k \in Nat : k = mem[c].num
  BY DEF TypeInv, MemType
<1>3. ~Saved(n)
  BY <1>1, <1>2 DEF MakingInv, Making
<1>4. /\ x \in DOMAIN history /\ Kin(x, n) /\ Saved(x) /\ Num(x) = k /\ x \in Nat /\ n \in Nat
  BY <1>1, <1>2, LogsRead, HistoryType DEF Saved, Num, Kin
<1>5. Behind(n) /\ Counted(n, k) /\ Creation(n)
  BY <1>1, <1>2, CaughtBehind DEF OrderInv, OwnOrder, Creation, Creations
<1>6. CASE x < n
  <2>1. x \in Earlier(n) /\ Counted(x, Num(x))
    BY <1>4, <1>6 DEF Earlier, OrderInv, SavedOrder
  <2>2. Num(x) < k
    BY <1>1, <1>5, <2>1, CountedAbove
  <2> QED
    BY <1>4, <2>2
<1>7. CASE n < x
  <2>1. n \in Earlier(x)
    BY <1>1, <1>4, <1>7, KinSame DEF Earlier
  <2> QED
    BY <1>3, <1>4, <2>1 DEF OrderInv, SavedOrder, Behind
<1> QED
  BY <1>3, <1>4, <1>6, <1>7

\* What a handler has counted after a step of it.
LEMMA OwnCounts ==
  ASSUME TypeInv, OrderInv, Orderly, NEW c \in Crawlers, StepOf(c), pc'[c] \in {"taken", "save"}, ~raced',
         OwnOrder
  PROVE  pos' = pos /\ Counted(pos[c], mem'[c].num)
<1>0. pc'[c] \in Making /\ pos' = pos
  BY GoesOn DEF Making
<1>1. CASE FindIncrementalId(c)
  <2>1. PICK n \in 1 .. head : n = pos[c] /\ n \in DOMAIN history /\ history[n].kind = "Created"
    BY <1>1, EventType DEF FindIncrementalId, TypeInv, FitsEvent, Event
  <2>2. Creation(n) /\ Behind(n) /\ mem[c] \in MemType
    BY <1>1, <2>1, CaughtBehind DEF FindIncrementalId, OrderInv, Creation, Creations, TypeInv
  <2>3. ASSUME NEW x \in LastSaved(n),
               Goto(c, "taken", [mem[c] EXCEPT !.num = docs[history[x].id].num + Cardinality(Before(x, n))])
        PROVE  Counted(n, mem'[c].num)
    <3>1. x \in 1 .. head /\ x \in DOMAIN history /\ Top(x, n)
      BY <2>2, <2>3, FindsTop
    <3>2. mem'[c].num = Num(x) + Cardinality(Before(x, n))
      BY <2>2, <2>3 DEF Goto, TypeInv, MemType, Num
    <3>3. Before(x, n) = Since(x, n)
      BY <3>1, LogsRead DEF Since
    <3> QED
      BY <1>0, <2>1, <3>1, <3>2, <3>3 DEF Counted
  <2>4. CASE LastSaved(n) = {} /\ Goto(c, "save", [mem[c] EXCEPT !.num = Cardinality(Before(0, n))])
    <3>1. Old(n) = {}
      BY <2>2, <2>4, FindsTop
    <3>2. mem'[c].num = Cardinality(Before(0, n))
      BY <2>2, <2>4 DEF Goto, TypeInv, MemType
    <3>3. mem'[c].num = Count(n)
      BY <3>2, LogsRead DEF Count
    <3> QED
      BY <1>0, <2>1, <3>1, <3>3 DEF Counted
  <2> QED
    BY <1>0, <1>1, <2>1, <2>3, <2>4 DEF FindIncrementalId
<1>2. CASE AskTaken(c)
  <2>1. pc[c] = "taken" /\ mem'[c] = mem[c]
    BY <1>0, <1>2 DEF AskTaken, Goto, Return, TypeInv, Making
  <2> QED
    BY <1>0, <2>1 DEF OwnOrder
<1>3. CASE Create(c)
  BY <1>3 DEF Create, Begin, Goto, Return, TypeInv
<1>4. CASE HarmonyCreate(c)
  BY <1>0, <1>4 DEF HarmonyCreate, Begin, Idle, Event, Counted
<1> QED
  BY <1>0, <1>1, <1>2, <1>3, <1>4, Enters

OrderBase == NumInv /\ BaseInv

LEMMA KeptOrderInv ==
  ASSUME OrderBase, OrderInv, NEW c \in Crawlers, StepOf(c), ~Save(c)
  PROVE  OrderInv'
<1> SUFFICES ASSUME spoiled' = {}, ~raced'
             PROVE  CaughtUp' /\ SavedOrder' /\ OwnOrder' /\ NoneGivenUp'
  BY DEF OrderInv, Orderly
<1>1. /\ TypeInv /\ StoredInv /\ Orderly
      /\ SavedInv /\ Unique /\ MakingInv
      /\ CaughtUp /\ SavedOrder /\ OwnOrder /\ NoneGivenUp
  <2>1. TypeInv /\ StoredInv
    BY DEF OrderBase, BaseInv
  <2>2. Orderly
    BY <2>1, SpoiledGrows, RacedStays DEF Orderly
  <2> QED
    BY <2>1, <2>2 DEF OrderBase, NumInv, OrderInv, Orderly
<1>2. Others(c) /\ Kept /\ UNCHANGED <<history, address, head>>
  BY <1>1, StepOthers, StepKept DEF Others
<1>3. \A n \in DOMAIN history : (Saved(n)' <=> Saved(n)) /\ Num(n)' = Num(n) /\ (Creation(n)' <=> Creation(n))
  <2>1. \A n \in DOMAIN history : Num(n)' = Num(n)
    BY <1>1, <1>2, HistoryType DEF Num, Kept
  <2> QED
    BY <1>1, <1>2, <2>1, SameNumbers DEF Creation
<1>4. /\ \A n : Behind(n)' <=> Behind(n)
      /\ \A n \in DOMAIN history, k \in Nat : Counted(n, k)' <=> Counted(n, k)
  BY <1>1, <1>2, SameBehind, SameOrder
<1>5. /\ \/ pos'[c] <= pos[c]
         \/ /\ pos'[c] = pos[c] + 1
            /\ pos[c] \in DOMAIN history /\ Creation(pos[c]) /\ Crawls(c, pos[c]) => Saved(pos[c])
      /\ \A n \in failed' : n \in failed \/ (n = pos[c] /\ ~Creation(n))
  <2>1. CASE pos[c] \in DOMAIN history /\ Creation(pos[c])
    <3>1. ~(AskTaken(c) /\ Taken(pos[c], mem[c].num))
      <4>1. AskTaken(c) => pc[c] = "taken"
        BY DEF AskTaken
      <4> QED
        BY <1>1, <4>1, NeverTaken
    <3> QED
      BY <1>1, <2>1, <3>1, PassesSaved
  <2>2. CASE ~(pos[c] \in DOMAIN history /\ Creation(pos[c]))
    <3>1. failed' \subseteq DOMAIN history
      <4>1. TypeInv'
        BY <1>1, StepTypeInv DEF Next, StepOf
      <4> QED
        BY <1>2, <4>1 DEF TypeInv
    <3>2. \/ (pos'[c] <= pos[c] \/ pos'[c] = pos[c] + 1) /\ failed' = failed
          \/ pos'[c] = pos[c] + 1 /\ \A e : e # pos[c] => (e \in failed' <=> e \in failed)
      BY <1>1, Movement
    <3> QED
      BY <2>2, <3>1, <3>2
  <2> QED
    BY <2>1, <2>2
<1>6. ASSUME NEW d \in Crawlers
      PROVE  \A m \in DOMAIN history : m < pos'[d] /\ Creation(m) /\ Crawls(d, m) => Saved(m)
  <2>1. CASE d # c
    BY <1>1, <1>2, <2>1 DEF Others, CaughtUp, Through
  <2>2. CASE d = c
    <3>1. Through(c) /\ pos[c] \in Nat /\ pos'[c] \in Nat
      <4>1. TypeInv'
        BY <1>1, StepTypeInv DEF Next, StepOf
      <4> QED
        BY <1>1, <1>2, <4>1, HistoryType DEF CaughtUp, TypeInv
    <3>2. ASSUME NEW m \in DOMAIN history, m < pos'[c], Creation(m), Crawls(c, m) PROVE Saved(m)
      <4>1. m \in Nat
        BY <1>1, HistoryType
      <4>2. m < pos[c] \/ (m = pos[c] /\ pos'[c] = pos[c] + 1)
        BY <1>5, <3>1, <3>2, <4>1
      <4> QED
        BY <1>5, <3>1, <3>2, <4>2 DEF Through
    <3> QED
      BY <2>2, <3>2
  <2> QED
    BY <2>1, <2>2
<1>7. CaughtUp'
  BY <1>2, <1>3, <1>6 DEF CaughtUp, Through, Crawls
<1>8. SavedOrder'
  <2>1. ASSUME NEW n \in DOMAIN history, Saved(n)' PROVE Behind(n)' /\ Counted(n, Num(n))'
    <3>1. Saved(n) /\ Behind(n) /\ Counted(n, Num(n)) /\ Num(n) \in Nat
      BY <1>1, <1>3, <2>1, NumType DEF SavedOrder
    <3>2. PICK k \in Nat : k = Num(n)
      BY <3>1
    <3>3. Counted(n, k)' /\ Num(n)' = k
      BY <1>3, <1>4, <3>1, <3>2
    <3> QED
      BY <1>4, <3>1, <3>3 DEF Counted
  <2> QED
    BY <1>2, <2>1 DEF SavedOrder
<1>9. OwnOrder'
  <2>1. ASSUME NEW d \in Crawlers, pc'[d] \in {"taken", "save"}
        PROVE  pos'[d] = pos[d] /\ Counted(pos[d], mem'[d].num)
    <3>1. CASE d = c
      BY <1>1, <2>1, <3>1, OwnCounts DEF OrderInv
    <3>2. CASE d # c
      BY <1>1, <1>2, <2>1, <3>2 DEF Others, OwnOrder
    <3> QED
      BY <3>1, <3>2
  <2>2. ASSUME NEW d \in Crawlers, pc'[d] \in {"taken", "save"}
        PROVE  Counted(pos[d], mem[d].num)'
    <3>1. TypeInv'
      BY <1>1, StepTypeInv DEF Next, StepOf
    <3>2. pos'[d] \in DOMAIN history /\ mem'[d].num \in Nat
      <4>1. mem'[d].num \in Nat
        BY <3>1 DEF TypeInv, MemType
      <4>2. pos'[d] = pos[d] /\ pos[d] <= head
        BY <1>2, <2>1, <2>2, <3>1 DEF TypeInv
      <4> QED
        BY <1>1, <4>1, <4>2, EventType
    <3>3. PICK n \in DOMAIN history, k \in Nat : n = pos'[d] /\ k = mem'[d].num
      BY <3>2
    <3>4. Counted(n, k)'
      BY <1>4, <2>1, <2>2, <3>3
    <3> QED
      BY <3>3, <3>4 DEF Counted
  <2> QED
    BY <2>2 DEF OwnOrder
<1>10. NoneGivenUp'
  <2> SUFFICES ASSUME NEW n \in failed' PROVE ~Creation(n)'
    BY DEF NoneGivenUp
  <2>1. ~Creation(n)
    BY <1>1, <1>5 DEF NoneGivenUp
  <2> QED
    BY <1>2, <2>1 DEF Creation
<1> QED
  BY <1>7, <1>8, <1>9, <1>10

\* What Save does to the numbers.
LEMMA SaveEffect ==
  ASSUME NumInv, ~raced, NEW c \in Crawlers, Save(c)
  PROVE  \E n \in 1 .. head, k \in Nat :
           /\ n = pos[c] /\ k = mem[c].num /\ n \in DOMAIN history /\ Creation(n)
           /\ ~Saved(n) /\ Saved(n)' /\ Num(n)' = k
           /\ \A m \in DOMAIN history : m # n => (Saved(m)' <=> Saved(m)) /\ (Saved(m) => Num(m)' = Num(m))
           /\ \A d \in Crawlers : pc'[d] \notin Making
<1>1. TypeInv /\ SavedInv /\ Unique /\ MakingInv
  BY DEF NumInv
<1>2. UNCHANGED <<history, head>> /\ Others(c)
  BY <1>1, StepOthers DEF Others, StepOf, Step
<1>3. PICK n \in 1 .. head : n = pos[c] /\ n \in DOMAIN history /\ history[n] = Event(c)
  BY <1>1, EventType DEF Save
<1>4. PICK k \in Nat : k = mem[c].num
  BY <1>1 DEF TypeInv, MemType
<1>5. /\ ~Saved(n) /\ \A d \in Crawlers : pc[d] \in Making => d = c
  BY <1>1, <1>3, <1>4 DEF MakingInv, Making, Save
<1>6. Creation(n) /\ history[n].id \in Ids
  BY <1>1, <1>3, HistoryType DEF Save, TypeInv, FitsEvent, Creation
<1>7. docs' = [docs EXCEPT ![history[n].id] = Fresh(k)]
  BY <1>3, <1>4, <1>5, <1>6 DEF Save, Saved
<1>8. Saved(n)' /\ Num(n)' = k
  BY <1>1, <1>2, <1>6, <1>7 DEF Saved, Num, Creation, Fresh, TypeInv
<1>9. ASSUME NEW m \in DOMAIN history, m # n, Creation(m)
      PROVE  (Saved(m)' <=> Saved(m)) /\ Num(m)' = Num(m)
  <2>1. history[m].id # history[n].id /\ history[m].id \in Ids
    BY <1>1, <1>3, <1>6, <1>9, InOrder, HistoryType
  <2> QED
    BY <1>1, <1>2, <1>7, <2>1 DEF Saved, Num, Creation, TypeInv
<1>10. ASSUME NEW m \in DOMAIN history, m # n, ~Creation(m)
       PROVE  ~Saved(m)' /\ ~Saved(m)
  BY <1>2, <1>10 DEF Saved, Creation
<1>11. \A d \in Crawlers : pc'[d] \notin Making
  <2>1. pc'[c] \notin Making
    BY <1>1 DEF Save, Goto, Return, Making, TypeInv
  <2>2. \A d \in Crawlers : d # c => pc'[d] = pc[d]
    BY <1>2 DEF Others
  <2> QED
    BY <1>5, <2>1, <2>2
<1> QED
  BY <1>3, <1>4, <1>5, <1>6, <1>8, <1>9, <1>10, <1>11

\* What a number was counted from keeps its number.
LEMMA CountedStays ==
  ASSUME TypeInv, UNCHANGED history, NEW n \in DOMAIN history, Behind(n), NEW k,
         \A m \in DOMAIN history : m < n /\ Saved(m) => Num(m)' = Num(m)
  PROVE  Counted(n, k)' <=> Counted(n, k)
<1>1. \A x : (Kin(x, n)' <=> Kin(x, n)) /\ (Creation(x)' <=> Creation(x))
  BY DEF Kin, Creation
<1>2. Earlier(n)' = Earlier(n)
  BY <1>1 DEF Earlier
<1>3. Old(n)' = Old(n) /\ Count(n)' = Count(n) /\ \A x : Since(x, n)' = Since(x, n)
  BY <1>2 DEF Old, Since, Count
<1>4. \A x \in Old(n) : Num(x)' = Num(x)
  BY DEF Old, Earlier, Behind
<1>5. \A x \in DOMAIN history : (Top(x, n)' <=> Top(x, n)) /\ (Top(x, n) => Num(x)' = Num(x))
  BY <1>3, <1>4 DEF Top
<1> QED
  BY <1>3, <1>5 DEF Counted

LEMMA SaveOrderInv ==
  ASSUME OrderBase, OrderInv, NEW c \in Crawlers, Save(c)
  PROVE  OrderInv'
<1> SUFFICES ASSUME spoiled' = {}, ~raced'
             PROVE  CaughtUp' /\ SavedOrder' /\ OwnOrder' /\ NoneGivenUp'
  BY DEF OrderInv, Orderly
<1>1. /\ TypeInv /\ Orderly /\ UNCHANGED <<history, address>> /\ Others(c) /\ StepOf(c)
      /\ CaughtUp /\ SavedOrder /\ OwnOrder /\ NoneGivenUp
  <2>1. TypeInv /\ StepOf(c) /\ Orderly
    BY DEF OrderBase, BaseInv, StepOf, Step, Orderly, Save
  <2> QED
    BY <2>1, StepOthers DEF OrderInv, Others
<1>2. PICK n \in 1 .. head, k \in Nat :
           /\ n = pos[c] /\ k = mem[c].num /\ n \in DOMAIN history /\ Creation(n)
           /\ ~Saved(n) /\ Saved(n)' /\ Num(n)' = k
           /\ \A m \in DOMAIN history : m # n => (Saved(m)' <=> Saved(m)) /\ (Saved(m) => Num(m)' = Num(m))
           /\ \A d \in Crawlers : pc'[d] \notin Making
  BY <1>1, SaveEffect DEF OrderBase, Orderly
<1>3. /\ \A m \in DOMAIN history : Saved(m) => Saved(m)' /\ Num(m)' = Num(m)
      /\ \A m \in DOMAIN history : Creation(m)' <=> Creation(m)
  BY <1>1, <1>2 DEF Creation
<1>4. \A m : Behind(m) => Behind(m)'
  <2>1. \A m : Earlier(m)' = Earlier(m)
    BY <1>1 DEF Earlier, Kin, Creation
  <2> QED
    BY <1>3, <2>1 DEF Behind, Earlier
<1>5. ASSUME NEW d \in Crawlers PROVE Through(d)'
  <2>1. CASE d # c
    BY <1>1, <1>3, <2>1 DEF Others, CaughtUp, Through, Crawls
  <2>2. CASE d = c
    <3>1. pos'[c] = n \/ pos'[c] = n + 1
      BY <1>1, <1>2 DEF Save, Goto, Return, TypeInv
    <3>2. Through(c) /\ n \in Nat
      BY <1>1, <1>2, HistoryType DEF CaughtUp
    <3>3. ASSUME NEW m \in DOMAIN history, m < pos'[c], Creation(m), Crawls(c, m) PROVE Saved(m)'
      <4>1. m < n \/ m = n
        BY <1>1, <3>1, <3>2, <3>3, HistoryType
      <4> QED
        BY <1>2, <1>3, <3>2, <3>3, <4>1 DEF Through
    <3> QED
      BY <1>1, <1>3, <2>2, <3>3 DEF Through, Crawls
  <2> QED
    BY <2>1, <2>2
<1>6. ASSUME NEW m \in DOMAIN history, Saved(m)'
      PROVE  Behind(m)' /\ Counted(m, Num(m))'
  <2>1. Behind(m) /\ (m = n \/ Saved(m))
    BY <1>1, <1>2, <1>6, CaughtBehind DEF SavedOrder, Save
  <2>2. PICK j : j = Num(m)'
    OBVIOUS
  <2>3. Counted(m, j)
    <3>1. CASE m = n
      BY <1>1, <1>2, <2>2, <3>1 DEF OwnOrder, Save
    <3>2. CASE m # n
      BY <1>1, <1>2, <2>1, <2>2, <3>2 DEF SavedOrder
    <3> QED
      BY <3>1, <3>2
  <2>4. Counted(m, j)'
    BY <1>1, <1>3, <2>1, <2>3, CountedStays
  <2> QED
    BY <1>4, <2>1, <2>2, <2>4 DEF Counted
<1>7. SavedOrder'
  BY <1>1, <1>6 DEF SavedOrder
<1>8. OwnOrder'
  BY <1>2 DEF OwnOrder, Making
<1>9. NoneGivenUp'
  <2>1. failed' \subseteq failed
    BY DEF Save, Goto, Return
  <2> QED
    BY <1>1, <2>1 DEF NoneGivenUp, Creation
<1> QED
  BY <1>5, <1>7, <1>8, <1>9 DEF CaughtUp

LEMMA StepOrderInv ==
  ASSUME OrderBase, OrderInv, [Next]_vars
  PROVE  OrderInv'
<1>1. CASE Mine \/ UNCHANGED vars
  <2>1. UNCHANGED <<history, address, docs, pos, pc, mem, failed, spoiled, raced>>
    BY <1>1 DEF Mine, vars, given
  <2>2. TypeInv /\ Kept
    BY <2>1 DEF OrderBase, BaseInv, Kept
  <2>3. \A n : Behind(n)' <=> Behind(n)
    BY <2>1, <2>2, SameBehind
  <2>4. \A n \in DOMAIN history, k \in Nat : Counted(n, k)' <=> Counted(n, k)
    BY <2>1, <2>2, SameOrder
  <2>5. \A n \in DOMAIN history : (Saved(n)' <=> Saved(n)) /\ Num(n)' = Num(n) /\ (Creation(n)' <=> Creation(n))
    BY <2>1 DEF Saved, Num, Creation
  <2> SUFFICES ASSUME CaughtUp, SavedOrder, OwnOrder, NoneGivenUp
               PROVE  CaughtUp' /\ SavedOrder' /\ OwnOrder' /\ NoneGivenUp'
    BY <2>1 DEF OrderInv, Orderly
  <2>6. CaughtUp'
    BY <2>1, <2>5 DEF CaughtUp, Through, Crawls
  <2>7. SavedOrder'
    <3> SUFFICES ASSUME NEW n \in DOMAIN history, Saved(n) PROVE Behind(n)' /\ Counted(n, Num(n))'
      BY <2>1, <2>5 DEF SavedOrder
    <3>1. PICK k \in Nat : k = Num(n) /\ k = Num(n)'
      BY <2>2, <2>5, NumType
    <3>2. Behind(n) /\ Counted(n, k)
      BY <3>1 DEF SavedOrder
    <3>3. Counted(n, k)'
      BY <2>4, <3>2
    <3>4. Counted(n, Num(n))'
      BY <3>1, <3>3 DEF Counted
    <3> QED
      BY <2>3, <3>2, <3>4
  <2>8. OwnOrder'
    <3> SUFFICES ASSUME NEW c \in Crawlers, pc[c] \in {"taken", "save"} PROVE Counted(pos[c], mem[c].num)'
      BY <2>1 DEF OwnOrder
    <3>1. PICK n \in DOMAIN history, k \in Nat : n = pos[c] /\ k = mem[c].num
      BY <2>2, EventType DEF TypeInv, MemType
    <3> QED
      BY <2>1, <2>4, <3>1 DEF OwnOrder, Counted
  <2>9. NoneGivenUp'
    BY <2>1 DEF NoneGivenUp, Creation
  <2> QED
    BY <2>6, <2>7, <2>8, <2>9
<1>2. ASSUME NEW c \in Crawlers, StepOf(c) PROVE OrderInv'
  BY <1>2, KeptOrderInv, SaveOrderInv
<1> QED
  BY <1>1, <1>2 DEF Next, StepOf

LEMMA OrderInvFollows == OrderBase /\ OrderInv => IncrementalOrder
<1> SUFFICES ASSUME OrderBase, OrderInv, spoiled = {}, ~raced
             PROVE  /\ \A n \in failed : history[n].kind \notin Creations
                    /\ \A i, j \in DOMAIN history :
                         /\ i < j /\ j \in Siblings(i)
                         /\ docs[history[i].id].saved /\ docs[history[j].id].saved
                         => docs[history[i].id].num < docs[history[j].id].num
  BY DEF IncrementalOrder
<1>1. /\ TypeInv /\ SavedInv /\ Unique /\ SavedOrder /\ NoneGivenUp
  BY DEF OrderBase, BaseInv, NumInv, OrderInv, Orderly
<1>2. ASSUME NEW i \in DOMAIN history, NEW j \in DOMAIN history, i < j, j \in Siblings(i),
             docs[history[i].id].saved, docs[history[j].id].saved
      PROVE  Num(i) < Num(j)
  <2>1. Kin(j, i)
    BY <1>2 DEF Siblings, SamePlugin, Kin, Creation
  <2>2. Kin(i, j) /\ Saved(i) /\ Saved(j) /\ Creation(j)
    BY <1>2, <2>1, KinSame DEF Saved, Kin
  <2>3. i \in Earlier(j) /\ Counted(i, Num(i)) /\ Counted(j, Num(j)) /\ Behind(j) /\ Num(j) \in Nat
    BY <1>1, <1>2, <2>2, NumType DEF Earlier, SavedOrder
  <2>4. history[j].kind = "HarmonyCreated" => Num(j) = Count(j) + 1
    BY <1>1, <2>2 DEF SavedInv
  <2> QED
    BY <1>1, <2>2, <2>3, <2>4, CountedAbove
<1> QED
  BY <1>1, <1>2 DEF NoneGivenUp, Creation, Num

\* As long as no handler fails or dies and no two creations are at work at once,
\* every creation a crawler has passed is saved, so what findIncrementalId finds
\* to count on from has the highest number of the blocks before: the numbers
\* rise in the order of the chain, and none is taken.
THEOREM NumbersInOrder == Spec => []IncrementalOrder
<1>1. Init => OrderBase /\ OrderInv
  BY InitNumInv, InitBaseInv, InitOrderInv DEF OrderBase
<1>2. OrderBase /\ OrderInv /\ [Next]_vars => OrderBase' /\ OrderInv'
  BY StepNumInv, StepBaseInv, StepOrderInv DEF OrderBase
<1> QED
  BY <1>1, <1>2, OrderInvFollows, PTL DEF Spec

-----------------------------------------------------------------------------
(* What a step changes of a document *)

LEMMA LatestMax ==
  ASSUME NEW n \in Nat, NEW S \in SUBSET (1 .. n), S # {}
  PROVE  Latest(S) \in S /\ \A m \in S : m <= Latest(S)
<1>1. Latest(S) \in S
  BY LatestIn
<1>2. \E m \in S \union {0} : \A i \in S : i <= m
  BY Greatest
<1> QED
  BY <1>1, <1>2 DEF Latest

\* Which steps change which fields of the document of p, Save aside.
LEMMA FieldsKept ==
  ASSUME TypeInv, NEW c \in Crawlers, StepOf(c), ~Save(c), NEW p \in Ids
  PROVE  /\ ~(PushResult(c) /\ Event(c).id = p) => docs'[p].results = docs[p].results
         /\ ~(AdvanceStage(c) /\ Event(c).id = p) => docs'[p].advances = docs[p].advances
         /\ ~((AdvanceStage(c) \/ Paired(c)) /\ Event(c).id = p) =>
              docs'[p].stage = docs[p].stage /\ docs'[p].subs = docs[p].subs
         /\ ~ExecuteSubs(c) /\ ~(Execute(c) /\ Event(c).id = p) =>
              docs'[p].executed = docs[p].executed
         /\ ~ExecuteSubs(c) /\ ~Paired(c) => docs'[p].parent = docs[p].parent
<1>0. docs \in [Ids -> DocType] /\ docs[p] \in DocType
  BY DEF TypeInv
<1>1. CASE Edit(c) \/ Execute(c) \/ Cancel(c) \/ Close(c)
  <2>1. pos[c] <= head
    BY <1>1 DEF Edit, Execute, Cancel, Close, Idle
  <2>2. Doc(c) \in DocType /\ Event(c).id \in Ids
    BY <2>1, EventType
  <2>3. PICK doc, met :
          /\ Update(c, doc, met) /\ doc.results = Doc(c).results /\ doc.advances = Doc(c).advances
          /\ doc.stage = Doc(c).stage /\ doc.subs = Doc(c).subs /\ doc.parent = Doc(c).parent
          /\ ~Execute(c) => doc.executed = Doc(c).executed
    <3>1. CASE Edit(c)
      BY <2>2, <3>1 DEF Edit, DocType
    <3>2. CASE Execute(c)
      BY <2>2, <3>2 DEF Execute, DocType
    <3>3. CASE Cancel(c)
      BY <2>2, <3>3 DEF Cancel, DocType
    <3>4. CASE Close(c)
      BY <2>2, <3>4 DEF Close, DocType
    <3> QED
      BY <1>1, <3>1, <3>2, <3>3, <3>4
  <2>4. docs' = docs \/ docs' = [docs EXCEPT ![Event(c).id] = doc]
    BY <2>3 DEF Update
  <2>5. CASE Event(c).id = p
    BY <1>0, <2>3, <2>4, <2>5 DEF Doc
  <2>6. CASE Event(c).id # p
    BY <1>0, <2>4, <2>6
  <2> QED
    BY <2>5, <2>6
<1>2. CASE Paired(c)
  <2>1. \/ docs'[p] = docs[p]
        \/ p # Event(c).id /\ docs'[p] = [docs[p] EXCEPT !.parent = pos[c]]
        \/ p = Event(c).id /\ \E s, t : docs'[p] = [docs[p] EXCEPT !.stage = s, !.subs = t]
    BY <1>2 DEF Paired
  <2> QED
    BY <1>0, <1>2, <2>1 DEF DocType
<1>3. CASE PushResult(c)
  BY <1>0, <1>3 DEF PushResult, DocType
<1>4. CASE ExecuteSubs(c)
  BY <1>0, <1>4 DEF ExecuteSubs, DocType
<1>5. CASE AdvanceStage(c)
  BY <1>0, <1>5 DEF AdvanceStage, DocType
<1>6. CASE Create(c) \/ HarmonyCreate(c) \/ FindIncrementalId(c) \/ AskTaken(c) \/ Pair(c) \/ Report(c)
           \/ Advance(c) \/ FindSubs(c) \/ Crash(c) \/ HandlerFails(c) \/ Redeliver(c) \/ Skip(c)
  <2>1. docs' = docs
    BY <1>6 DEF Create, HarmonyCreate, Begin, FindIncrementalId, AskTaken, Pair, Report, Advance, FindSubs,
                Crash, HandlerFails, Redeliver, Skip
  <2> QED
    BY <2>1
<1> QED
  BY <1>1, <1>2, <1>3, <1>4, <1>5, <1>6 DEF StepOf, Step

\* A document that is not stored lists nothing.
EmptyInv ==
  \A p \in Ids : ~docs[p].saved =>
    docs[p].results = <<>> /\ docs[p].advances = <<>> /\ docs[p].subs = {}

ListBase == BaseInv /\ EmptyInv

LEMMA InitListBase == Init => ListBase
BY InitBaseInv DEF Init, ListBase, EmptyInv, NoDoc, Fresh

\* Save lists nothing and leaves what is listed.
LEMMA SaveFields ==
  ASSUME TypeInv, EmptyInv, NEW c \in Crawlers, Save(c), NEW p \in Ids
  PROVE  /\ docs'[p].results = docs[p].results /\ docs'[p].advances = docs[p].advances
         /\ docs'[p].subs = docs[p].subs
         /\ docs[p].saved => /\ docs'[p].stage = docs[p].stage /\ docs'[p].executed = docs[p].executed
                             /\ docs'[p].parent = docs[p].parent
<1>1. docs \in [Ids -> DocType] /\ docs[p] \in DocType /\ Event(c).id \in Ids
  BY EventType DEF Save, TypeInv
<1>2. CASE p # Event(c).id
  BY <1>1, <1>2 DEF Save
<1>3. CASE p = Event(c).id /\ docs[p].saved
  BY <1>1, <1>3 DEF Save, DocType
<1>4. CASE p = Event(c).id /\ ~docs[p].saved
  BY <1>1, <1>4 DEF Save, EmptyInv, Fresh
<1> QED
  BY <1>2, <1>3, <1>4

LEMMA StepListBase ==
  ASSUME ListBase, [Next]_vars
  PROVE  ListBase'
<1>1. BaseInv'
  BY StepBaseInv DEF ListBase
<1>2. CASE Mine \/ UNCHANGED vars
  <2>1. docs' = docs
    BY <1>2 DEF Mine, vars
  <2> QED
    BY <1>1, <2>1 DEF ListBase, EmptyInv
<1>3. ASSUME NEW c \in Crawlers, StepOf(c), NEW p \in Ids, ~docs'[p].saved
      PROVE  docs'[p].results = <<>> /\ docs'[p].advances = <<>> /\ docs'[p].subs = {}
  <2>1. TypeInv /\ EmptyInv /\ StoredInv
    BY DEF ListBase, BaseInv
  <2>2. ~docs[p].saved
    BY <1>3, <2>1, SavedStays
  <2>3. docs[p].results = <<>> /\ docs[p].advances = <<>> /\ docs[p].subs = {}
    BY <2>1, <2>2 DEF EmptyInv
  <2>4. CASE Save(c)
    BY <2>1, <2>3, <2>4, SaveFields
  <2>5. CASE ~Save(c)
    <3>1. PushResult(c) \/ AdvanceStage(c) \/ Paired(c) => Doc(c).saved
      BY <2>1 DEF StoredInv, Later, PushResult, AdvanceStage, Paired
    <3>2. ~((PushResult(c) \/ AdvanceStage(c) \/ Paired(c)) /\ Event(c).id = p)
      BY <2>2, <3>1 DEF Doc
    <3> QED
      BY <1>3, <2>1, <2>3, <2>5, <3>2, FieldsKept
  <2> QED
    BY <2>4, <2>5
<1> QED
  BY <1>1, <1>2, <1>3 DEF ListBase, EmptyInv, Next, StepOf

\* The events of a kind that are mined stay, and new ones come behind them.
LEMMA MinedType ==
  ASSUME TypeInv, NEW kind, NEW p
  PROVE  /\ Mined(kind, p) \in SUBSET (1 .. head) /\ head \in Nat
         /\ \A n \in Mined(kind, p) : n \in DOMAIN history /\ n \in Nat /\ n <= head
BY HistoryType DEF Mined

LEMMA MinedGrows ==
  ASSUME TypeInv, [Next]_vars, NEW kind, NEW p
  PROVE  /\ Mined(kind, p) \subseteq Mined(kind, p)'
         /\ \A n \in Mined(kind, p)' : n \in Mined(kind, p) \/ n > head
         /\ UNCHANGED <<history, address>>
<1>0. head \in Nat
  BY HistoryType
<1>1. UNCHANGED <<history, address>> /\ (head' = head \/ (head' \in Nat /\ head < head'))
  <2>1. CASE Mine
    <3>1. UNCHANGED <<history, address>>
      BY <2>1 DEF Mine, given
    <3> QED
      BY <2>1, <3>1, MineType, HistoryType
  <2>2. ASSUME NEW c \in Crawlers, StepOf(c) PROVE UNCHANGED <<history, address, head>>
    BY <2>2, StepOthers DEF Others
  <2>3. CASE UNCHANGED vars
    BY <2>3 DEF vars, given
  <2> QED
    BY <2>1, <2>2, <2>3 DEF Next, StepOf
<1>2. \A n : n \in 1 .. head => n \in 1 .. head'
  BY <1>0, <1>1
<1>3. \A n \in 1 .. head' : n \in 1 .. head \/ n > head
  BY <1>0, <1>1
<1> QED
  BY <1>1, <1>2, <1>3 DEF Mined

\* Two handlers of one proposal have spoiled it.
LEMMA Alone ==
  ASSUME Solo, NEW c \in Crawlers, NEW d \in Crawlers, c # d, pc[c] # "idle", pc[d] # "idle",
         NEW p, p \in Group(pos[c]), p \in Group(pos[d])
  PROVE  p \in spoiled
BY DEF Solo

LEMMA InGroup ==
  ASSUME NEW c
  PROVE  Event(c).id \in Group(pos[c])
BY DEF Group, Event

-----------------------------------------------------------------------------
(* Results *)

Results(p) == docs[p].results
Reports(p) == Mined("Reported", p)

\* The body of an event is known by its stage.
SameBody(m, n) == history[m].stage = history[n].stage

\* The results of a proposal are of its reports, none is older than its report,
\* and those of a body never go back.
Sound(rs, p) ==
  \A i \in DOMAIN rs :
    /\ rs[i].event \in Reports(p) /\ rs[i].result \in Reports(p)
    /\ SameBody(rs[i].event, rs[i].result) /\ rs[i].event <= rs[i].result

Rising(rs) ==
  \A i, j \in DOMAIN rs : i <= j /\ SameBody(rs[i].event, rs[j].event) => rs[i].result <= rs[j].result

Reported(rs, n) == \E i \in DOMAIN rs : rs[i].event = n

\* A report that a crawler of the proposal has passed has a result.
ResultsOf(p) ==
  /\ Sound(Results(p), p) /\ Rising(Results(p))
  /\ \A c \in Crawlers, n \in Reports(p) :
       p \in address[c] /\ n < pos[c] => Reported(Results(p), n)

\* A handler about to push has read the results as they are, and its result is
\* none that they are ahead of.
PushOf(c, p) ==
  pc[c] = "push" /\ Event(c).id = p =>
    /\ mem[c].doc.results = Results(p)
    /\ mem[c].chain \in Reports(p) /\ SameBody(mem[c].chain, pos[c]) /\ pos[c] <= mem[c].chain
    /\ \A i \in DOMAIN Results(p) :
         SameBody(Results(p)[i].event, pos[c]) => Results(p)[i].result <= mem[c].chain

ResultInv == \A p \in Ids \ spoiled : ResultsOf(p) /\ \A c \in Crawlers : PushOf(c, p)

LEMMA InitResultInv == Init => ResultInv
<1> SUFFICES ASSUME Init PROVE ResultInv
  OBVIOUS
<1>1. \A p \in Ids : Results(p) = <<>>
  BY DEF Init, Results, NoDoc, Fresh
<1>2. \A p : Reports(p) = {}
  BY DEF Init, Reports, Mined
<1>3. \A c \in Crawlers : pc[c] = "idle"
  BY DEF Init
<1> QED
  BY <1>1, <1>2, <1>3 DEF ResultInv, ResultsOf, PushOf, Sound, Rising

LEMMA OfSeq ==
  ASSUME NEW S, NEW s \in Seq(S), NEW i \in DOMAIN s
  PROVE  s[i] \in S
OBVIOUS

LEMMA ResultsType ==
  ASSUME TypeInv, NEW p \in Ids
  PROVE  /\ Results(p) \in Seq([event : DOMAIN history, result : DOMAIN history])
         /\ Len(Results(p)) \in Nat /\ DOMAIN Results(p) = 1 .. Len(Results(p))
         /\ \A i \in DOMAIN Results(p) : /\ Results(p)[i].event \in DOMAIN history
                                         /\ Results(p)[i].result \in DOMAIN history
                                         /\ Results(p)[i].event \in Nat /\ Results(p)[i].result \in Nat
<1>1. docs[p] \in DocType
  BY DEF TypeInv
<1>2. Results(p) \in Seq([event : DOMAIN history, result : DOMAIN history])
  BY <1>1 DEF DocType, Results
<1>3. \A n \in DOMAIN history : n \in Nat
  BY HistoryType
<1>4. Len(Results(p)) \in Nat /\ DOMAIN Results(p) = 1 .. Len(Results(p))
  BY <1>2
<1>5. ASSUME NEW i \in DOMAIN Results(p)
      PROVE  Results(p)[i].event \in DOMAIN history /\ Results(p)[i].result \in DOMAIN history
  <2>1. PICK r \in [event : DOMAIN history, result : DOMAIN history] : r = Results(p)[i]
    BY <1>2, <1>5, OfSeq
  <2>2. r.event \in DOMAIN history /\ r.result \in DOMAIN history
    OBVIOUS
  <2> QED
    BY <2>1, <2>2
<1> QED
  BY <1>2, <1>3, <1>4, <1>5

\* The result a body has on the chain is its last report that is mined.
LEMMA ResultNowIs ==
  ASSUME TypeInv, NEW p \in Ids, NEW n \in Reports(p)
  PROVE  /\ ResultNow(p, history[n].stage) \in Reports(p)
         /\ SameBody(ResultNow(p, history[n].stage), n)
         /\ \A m \in Reports(p) : SameBody(m, n) => m <= ResultNow(p, history[n].stage)
<1> DEFINE S == {m \in Mined("Reported", p) : history[m].stage = history[n].stage}
<1>1. S \in SUBSET (1 .. head) /\ head \in Nat /\ S # {}
  BY MinedType DEF Reports
<1>2. Latest(S) \in S /\ \A m \in S : m <= Latest(S)
  <2> HIDE DEF S
  <2> QED
    BY <1>1, LatestMax
<1>3. Latest(S) = ResultNow(p, history[n].stage)
  BY DEF ResultNow
<1> QED
  BY <1>2, <1>3 DEF SameBody, Reports

\* Only the push takes a crawler past a report, or the proposal is spoiled.
LEMMA PassesReport ==
  ASSUME TypeInv, NEW c \in Crawlers, StepOf(c), pos'[c] > pos[c], Event(c).kind = "Reported",
         Event(c).id \in address[c], Event(c).id \notin spoiled'
  PROVE  PushResult(c)
<1>0. pos[c] \in Nat /\ pos \in [Crawlers -> 1 .. (Len(history) + 1)]
  BY HistoryType DEF TypeInv
<1>1. ASSUME NEW place, NEW m, Goto(c, place, m) PROVE FALSE
  BY <1>0, <1>1 DEF Goto
<1>2. ~(Group(pos[c]) \subseteq spoiled')
  BY InGroup
<1>3. CASE Create(c) \/ HarmonyCreate(c) \/ Edit(c) \/ Execute(c) \/ Cancel(c) \/ Close(c) \/ Advance(c)
  BY <1>3 DEF Create, HarmonyCreate, Begin, Edit, Execute, Cancel, Close, Advance, Idle
<1>4. CASE FindIncrementalId(c) \/ AskTaken(c) \/ Save(c) \/ Pair(c) \/ Paired(c)
  BY <1>4 DEF FindIncrementalId, AskTaken, Save, Pair, Paired, TypeInv, FitsEvent, Creations
<1>5. CASE FindSubs(c) \/ ExecuteSubs(c) \/ AdvanceStage(c)
  BY <1>5 DEF FindSubs, ExecuteSubs, AdvanceStage, TypeInv, FitsEvent
<1>6. CASE Report(c) \/ Crash(c) \/ HandlerFails(c)
  BY <1>1, <1>2, <1>6 DEF Report, Crash, HandlerFails
<1>7. CASE Redeliver(c) \/ Skip(c)
  BY <1>0, <1>7 DEF Redeliver, Skip
<1> QED
  BY <1>3, <1>4, <1>5, <1>6, <1>7 DEF StepOf, Step

\* A handler that is about to push has just read, or was so before.
LEMMA EntersPush ==
  ASSUME TypeInv, NEW c \in Crawlers, StepOf(c), pc'[c] = "push"
  PROVE  /\ Report(c) /\ Doc(c).saved
         /\ mem'[c] = [Blank EXCEPT !.doc = Doc(c), !.chain = ResultNow(Event(c).id, Event(c).stage)]
<1>1. ASSUME NEW dropped, Return(c, dropped) PROVE FALSE
  BY <1>1 DEF Return, TypeInv
<1>2. CASE Report(c)
  BY <1>1, <1>2 DEF Report, Goto, TypeInv
<1>3. CASE Create(c) \/ HarmonyCreate(c) \/ FindIncrementalId(c) \/ AskTaken(c) \/ Save(c) \/ Pair(c)
  BY <1>1, <1>3 DEF Create, HarmonyCreate, Begin, FindIncrementalId, AskTaken, Save, Pair, Goto, TypeInv
<1>4. CASE Advance(c) \/ FindSubs(c) \/ ExecuteSubs(c)
  BY <1>1, <1>4 DEF Advance, FindSubs, ExecuteSubs, Goto, TypeInv
<1>5. CASE Edit(c) \/ Execute(c) \/ Cancel(c) \/ Close(c)
  BY <1>1, <1>5 DEF Edit, Execute, Cancel, Close, Update
<1>6. CASE Paired(c) \/ PushResult(c) \/ AdvanceStage(c) \/ HandlerFails(c)
  BY <1>1, <1>6 DEF Paired, PushResult, AdvanceStage, HandlerFails
<1>7. CASE Crash(c)
  BY <1>7 DEF Crash, Goto, TypeInv
<1>8. CASE Redeliver(c) \/ Skip(c)
  BY <1>8 DEF Redeliver, Skip
<1> QED
  BY <1>2, <1>3, <1>4, <1>5, <1>6, <1>7, <1>8 DEF StepOf, Step

\* Where no result is pushed, what has been said of the results stays.
LEMMA ResultsStay ==
  ASSUME TypeInv, NEW c \in Crawlers, StepOf(c), NEW p \in Ids \ spoiled', ResultsOf(p),
         docs'[p].results = Results(p), ~(PushResult(c) /\ Event(c).id = p)
  PROVE  ResultsOf(p)'
<1>1. UNCHANGED <<history, address, head>> /\ \A d \in Crawlers : d # c => pos'[d] = pos[d]
  BY StepOthers DEF Others
<1>2. Results(p)' = Results(p) /\ Reports(p)' = Reports(p)
  BY <1>1 DEF Results, Reports, Mined
<1>3. Sound(Results(p), p)' /\ Rising(Results(p))'
  BY <1>1, <1>2 DEF ResultsOf, Sound, Rising, SameBody
<1>4. ASSUME NEW d \in Crawlers, NEW n \in Reports(p), p \in address[d], n < pos'[d]
      PROVE  Reported(Results(p), n)
  <2>1. n \in Nat /\ pos[d] \in Nat /\ history[n].kind = "Reported" /\ history[n].id = p
    BY MinedType, HistoryType DEF Reports, TypeInv, Mined
  <2>2. CASE n < pos[d]
    BY <1>4, <2>2 DEF ResultsOf
  <2>3. CASE ~(n < pos[d])
    <3>1. d = c
      BY <1>1, <1>4, <2>3
    <3>2. pos'[c] <= pos[c] \/ pos'[c] = pos[c] + 1
      BY Movement
    <3>3. pos'[c] \in Nat
      <4>1. TypeInv'
        BY StepTypeInv DEF Next, StepOf
      <4> QED
        BY <1>1, <4>1, HistoryType DEF TypeInv
    <3>4. n = pos[c] /\ pos'[c] > pos[c]
      BY <1>4, <2>1, <2>3, <3>1, <3>2, <3>3
    <3>5. Event(c).kind = "Reported" /\ Event(c).id = p
      BY <2>1, <3>4 DEF Event
    <3> QED
      BY <1>4, <3>1, <3>4, <3>5, PassesReport
  <2> QED
    BY <2>2, <2>3
<1>5. \A d \in Crawlers, n \in Reports(p)' :
        p \in address'[d] /\ n < pos'[d] => Reported(Results(p), n)'
  BY <1>1, <1>2, <1>4 DEF Reported
<1> QED
  BY <1>3, <1>5 DEF ResultsOf

\* A push adds a result that is right behind those there are.
LEMMA PushKeeps ==
  ASSUME TypeInv, NEW c \in Crawlers, PushResult(c), NEW p \in Ids, Event(c).id = p,
         ResultsOf(p), PushOf(c, p)
  PROVE  ResultsOf(p)'
<1> DEFINE n == pos[c]
           r == mem[c].chain
           rs == Results(p)
<1>0. StepOf(c) /\ pc[c] = "push"
  BY DEF StepOf, Step, PushResult
<1>1. UNCHANGED <<history, address, head>> /\ \A d \in Crawlers : d # c => pos'[d] = pos[d]
  BY <1>0, StepOthers DEF Others
<1>2. /\ mem[c].doc.results = rs /\ r \in Reports(p) /\ SameBody(r, n) /\ n <= r
      /\ \A i \in DOMAIN rs : SameBody(rs[i].event, n) => rs[i].result <= r
  BY <1>0 DEF PushOf
<1>3. n \in Reports(p) /\ n \in Nat /\ pos'[c] = n + 1
  <2>1. n \in 1 .. head /\ Event(c).kind = "Reported" /\ Event(c) = history[n]
    BY <1>0, EventType DEF TypeInv, FitsEvent
  <2>2. pos'[c] = n + 1
    BY DEF PushResult, Return, TypeInv
  <2> QED
    BY <2>1, <2>2, HistoryType DEF Reports, Mined
<1>4. Reports(p)' = Reports(p)
  BY <1>1 DEF Reports, Mined
<1>5. Sound(Results(p)', p) /\ Rising(Results(p)') /\ Reported(Results(p)', n)
      /\ \A m : Reported(rs, m) => Reported(Results(p)', m)
  <2>1. CASE Stored(mem[c].doc.results, n, r)
    <3>1. Results(p)' = rs
      BY <2>1 DEF PushResult, Results
    <3>2. Reported(rs, n)
      BY <1>2, <2>1 DEF Stored, Reported
    <3> QED
      BY <3>1, <3>2 DEF ResultsOf
  <2>2. CASE ~Stored(mem[c].doc.results, n, r)
    <3> DEFINE e == [event |-> n, result |-> r]
               new == Append(rs, e)
    <3>1. Results(p)' = new
      <4>1. docs' = [docs EXCEPT ![p].results = Append(@, e)]
        BY <2>2 DEF PushResult
      <4>2. docs \in [Ids -> DocType] /\ docs[p] \in DocType
        BY DEF TypeInv
      <4> QED
        BY <4>1, <4>2 DEF Results, DocType
    <3>2. /\ DOMAIN new = 1 .. (Len(rs) + 1) /\ DOMAIN rs = 1 .. Len(rs) /\ Len(rs) \in Nat
          /\ \A i \in DOMAIN rs : new[i] = rs[i]
          /\ new[Len(rs) + 1] = e /\ e.event = n /\ e.result = r
      BY ResultsType
    <3> HIDE DEF new, e
    <3>3. \A i \in DOMAIN new : i \in DOMAIN rs \/ i = Len(rs) + 1
      BY <3>2
    <3>4. Sound(new, p)
      <4>1. SameBody(n, r)
        BY <1>2 DEF SameBody
      <4> QED
        BY <1>2, <1>3, <3>2, <3>3, <4>1 DEF Sound, ResultsOf
    <3>5. Rising(new)
      <4> SUFFICES ASSUME NEW i \in DOMAIN new, NEW j \in DOMAIN new, i <= j,
                          SameBody(new[i].event, new[j].event)
                   PROVE  new[i].result <= new[j].result
        BY DEF Rising
      <4>1. CASE i \in DOMAIN rs /\ j \in DOMAIN rs
        BY <3>2, <4>1 DEF ResultsOf, Rising
      <4>2. CASE j = Len(rs) + 1 /\ i \in DOMAIN rs
        BY <1>2, <3>2, <4>2
      <4>3. CASE j = Len(rs) + 1 /\ i = Len(rs) + 1
        <5>1. r \in Nat
          BY <1>2, MinedType DEF Reports
        <5> QED
          BY <3>2, <4>3, <5>1
      <4>4. CASE i = Len(rs) + 1 /\ j \in DOMAIN rs
        BY <3>2, <4>4
      <4> QED
        BY <3>3, <4>1, <4>2, <4>3, <4>4
    <3>6. Reported(new, n)
      <4>1. Len(rs) + 1 \in DOMAIN new
        BY <3>2
      <4> QED
        BY <3>2, <4>1 DEF Reported
    <3>7. ASSUME NEW m, Reported(rs, m) PROVE Reported(new, m)
      <4>1. PICK i \in DOMAIN rs : rs[i].event = m
        BY <3>7 DEF Reported
      <4>2. i \in DOMAIN new
        BY <3>2
      <4> QED
        BY <3>2, <4>1, <4>2 DEF Reported
    <3> QED
      BY <3>1, <3>4, <3>5, <3>6, <3>7
  <2> QED
    BY <2>1, <2>2
<1>6. ASSUME NEW d \in Crawlers, NEW m \in Reports(p), p \in address[d], m < pos'[d]
      PROVE  Reported(Results(p)', m)
  <2>1. m \in Nat /\ pos[d] \in Nat
    BY MinedType, HistoryType DEF Reports, TypeInv
  <2>2. m < pos[d] \/ m = n
    BY <1>1, <1>3, <1>6, <2>1
  <2> QED
    BY <1>5, <1>6, <2>2 DEF ResultsOf
<1>7. Sound(Results(p), p)' /\ Rising(Results(p))'
  BY <1>1, <1>4, <1>5 DEF Sound, Rising, SameBody
<1>8. \A m : Reported(Results(p), m)' <=> Reported(Results(p)', m)
  BY DEF Reported
<1> QED
  BY <1>1, <1>4, <1>6, <1>7, <1>8 DEF ResultsOf

\* Another handler that is about to push has its results left alone.
LEMMA OthersPush ==
  ASSUME ListBase, NEW c \in Crawlers, StepOf(c), NEW d \in Crawlers, d # c,
         NEW p \in Ids \ spoiled', PushOf(d, p)
  PROVE  PushOf(d, p)'
<1>0. TypeInv /\ EmptyInv /\ Solo
  BY DEF ListBase, BaseInv
<1>1. /\ UNCHANGED <<history, head>> /\ pc'[d] = pc[d] /\ pos'[d] = pos[d] /\ mem'[d] = mem[d]
      /\ Event(d)' = Event(d) /\ Reports(p)' = Reports(p)
  BY <1>0, StepOthers DEF Others, Event, Reports, Mined
<1> SUFFICES ASSUME pc[d] = "push", Event(d).id = p
             PROVE  PushOf(d, p)'
  BY <1>1 DEF PushOf
<1>2. ~(PushResult(c) /\ Event(c).id = p)
  <2> SUFFICES ASSUME PushResult(c), Event(c).id = p PROVE FALSE
    OBVIOUS
  <2>1. pc[c] # "idle"
    BY DEF PushResult
  <2> QED
    BY <1>0, <2>1, SpoiledGrows, Alone, InGroup
<1>3. Results(p)' = Results(p)
  BY <1>0, <1>2, FieldsKept, SaveFields DEF Results
<1> QED
  BY <1>1, <1>3 DEF PushOf, SameBody

\* A handler that has read a proposal has the results there are.
LEMMA ReadsResults ==
  ASSUME TypeInv, NEW c \in Crawlers, StepOf(c), NEW p \in Ids, ResultsOf(p)
  PROVE  PushOf(c, p)'
<1>1. UNCHANGED <<history, head>>
  BY StepOthers DEF Others
<1> SUFFICES ASSUME pc'[c] = "push", Event(c)'.id = p
             PROVE  PushOf(c, p)'
  BY DEF PushOf
<1>2. /\ Report(c) /\ pos' = pos /\ docs' = docs
      /\ mem'[c] = [Blank EXCEPT !.doc = Doc(c), !.chain = ResultNow(Event(c).id, Event(c).stage)]
  BY EntersPush, GoesOn DEF Report
<1>3. PICK n \in 1 .. head : n = pos[c] /\ history[n] = Event(c) /\ Event(c)' = Event(c)
  BY <1>1, <1>2, EventType DEF Report, Idle, Event
<1>4. n \in Reports(p) /\ Event(c).kind = "Reported"
  BY <1>2, <1>3 DEF Reports, Mined, Report, Idle
<1>5. /\ ResultNow(p, history[n].stage) \in Reports(p)
      /\ SameBody(ResultNow(p, history[n].stage), n)
      /\ \A m \in Reports(p) : SameBody(m, n) => m <= ResultNow(p, history[n].stage)
  BY <1>4, ResultNowIs
<1>6. PICK r : r = ResultNow(p, history[n].stage)
  OBVIOUS
<1>7. mem'[c].doc = docs[p] /\ mem'[c].chain = r
  BY <1>2, <1>3, <1>6 DEF Blank, Doc
<1>8. SameBody(r, n) /\ r \in Reports(p) /\ n <= r
  BY <1>4, <1>5, <1>6 DEF SameBody
<1>9. \A i \in DOMAIN Results(p) : SameBody(Results(p)[i].event, n) => Results(p)[i].result <= r
  BY <1>5, <1>6 DEF ResultsOf, Sound, SameBody
<1>10. Results(p)' = Results(p) /\ Reports(p)' = Reports(p) /\ mem'[c].doc.results = Results(p)
  BY <1>1, <1>2, <1>7 DEF Results, Reports, Mined
<1>11. pos'[c] = n
  BY <1>2, <1>3
<1> QED
  BY <1>1, <1>7, <1>8, <1>9, <1>10, <1>11 DEF PushOf, SameBody

LEMMA StepResultInv ==
  ASSUME ListBase, ResultInv, [Next]_vars
  PROVE  ResultInv'
<1>0. TypeInv /\ EmptyInv
  BY DEF ListBase, BaseInv
<1>1. CASE Mine \/ UNCHANGED vars
  <2>1. UNCHANGED <<history, address, docs, pos, pc, mem, spoiled>>
    BY <1>1 DEF Mine, vars, given
  <2> SUFFICES ASSUME NEW p \in Ids \ spoiled PROVE ResultsOf(p)' /\ \A c \in Crawlers : PushOf(c, p)'
    BY <2>1 DEF ResultInv
  <2>2. /\ Reports(p) \subseteq Reports(p)'
        /\ \A n \in Reports(p)' : n \in Reports(p) \/ n > head
    BY <1>0, MinedGrows DEF Reports
  <2>3. Results(p)' = Results(p)
    BY <2>1 DEF Results
  <2>4. ResultsOf(p) /\ \A c \in Crawlers : PushOf(c, p)
    BY DEF ResultInv
  <2>5. Sound(Results(p), p)' /\ Rising(Results(p))'
    BY <2>1, <2>2, <2>3, <2>4 DEF ResultsOf, Sound, Rising, SameBody
  <2>6. ASSUME NEW c \in Crawlers, NEW n \in Reports(p)', p \in address[c], n < pos'[c]
        PROVE  Reported(Results(p), n)
    <3>1. pos'[c] \in Nat /\ pos[c] <= head + 1 /\ head \in Nat /\ pos'[c] = pos[c]
      BY <1>0, <2>1, HistoryType DEF TypeInv
    <3>2. n \in Nat
      BY DEF Reports, Mined
    <3>3. n \in Reports(p)
      BY <2>2, <2>6, <3>1, <3>2
    <3> QED
      BY <2>4, <2>6, <3>1, <3>3 DEF ResultsOf
  <2>7. \A c \in Crawlers, n \in Reports(p)' :
          p \in address'[c] /\ n < pos'[c] => Reported(Results(p), n)'
    BY <2>1, <2>3, <2>6 DEF Reported
  <2>8. \A c \in Crawlers : PushOf(c, p)'
    BY <2>1, <2>2, <2>3, <2>4 DEF PushOf, SameBody, Event
  <2> QED
    BY <2>5, <2>7, <2>8 DEF ResultsOf
<1>2. ASSUME NEW c \in Crawlers, StepOf(c), NEW p \in Ids \ spoiled'
      PROVE  ResultsOf(p)' /\ \A d \in Crawlers : PushOf(d, p)'
  <2>1. p \in Ids \ spoiled
    BY <1>2, SpoiledGrows
  <2>2. ResultsOf(p) /\ \A d \in Crawlers : PushOf(d, p)
    BY <2>1 DEF ResultInv
  <2>3. ResultsOf(p)'
    <3>1. CASE PushResult(c) /\ Event(c).id = p
      BY <1>0, <2>2, <3>1, PushKeeps
    <3>2. CASE ~(PushResult(c) /\ Event(c).id = p)
      <4>1. docs'[p].results = Results(p)
        BY <1>0, <1>2, <3>2, FieldsKept, SaveFields DEF Results
      <4> QED
        BY <1>0, <1>2, <2>2, <3>2, <4>1, ResultsStay
    <3> QED
      BY <3>1, <3>2
  <2> QED
    BY <1>0, <1>2, <2>2, <2>3, OthersPush, ReadsResults
<1> QED
  BY <1>1, <1>2 DEF Next, StepOf, ResultInv

LEMMA ResultInvFollows == ListBase /\ ResultInv => ResultsFollow
<1> SUFFICES ASSUME ListBase, ResultInv, AtRest, NEW p \in Ids \ spoiled, NEW n \in Reports(p)
             PROVE  LET mine == {i \in DOMAIN docs[p].results :
                           history[docs[p].results[i].event].stage = history[n].stage}
                    IN /\ \E i \in mine : docs[p].results[i].event = n
                       /\ docs[p].results[Latest(mine)].result = ResultNow(p, history[n].stage)
  BY DEF ResultsFollow, Reports
<1> DEFINE rs == Results(p)
           mine == {i \in DOMAIN rs : SameBody(rs[i].event, n)}
<1>0. TypeInv
  BY DEF ListBase, BaseInv
<1>1. ResultsOf(p)
  BY DEF ResultInv
<1>2. \A m \in Reports(p) : Reported(rs, m)
  <2>0. n \in DOMAIN history /\ history[n].id = p
    <3>1. n \in Mined("Reported", p)
      BY DEF Reports
    <3>2. n \in DOMAIN history
      BY <1>0, <3>1, MinedType
    <3> QED
      BY <3>1, <3>2 DEF Mined
  <2>1. PICK c \in Crawlers : p \in address[c] /\ pos[c] = head + 1
    BY <1>0, <2>0, Crawled DEF AtRest, Crawls
  <2>2. \A m \in Reports(p) : m < pos[c]
    <3>1. \A m \in Mined("Reported", p) : m \in Nat /\ m <= head
      BY <1>0, MinedType
    <3>2. head \in Nat
      BY <1>0, HistoryType
    <3> QED
      BY <2>1, <3>1, <3>2 DEF Reports
  <2> QED
    BY <1>1, <2>1, <2>2 DEF ResultsOf
<1>3. PICK k \in DOMAIN rs : rs[k].event = n
  BY <1>2 DEF Reported
<1>4. k \in mine
  BY <1>3 DEF SameBody
<1>5. PICK r : r = ResultNow(p, history[n].stage)
  OBVIOUS
<1>6. r \in Reports(p) /\ SameBody(r, n) /\ \A m \in Reports(p) : SameBody(m, n) => m <= r
  BY <1>0, <1>5, ResultNowIs
<1>7. PICK j \in DOMAIN rs : rs[j].event = r
  BY <1>2, <1>6 DEF Reported
<1>8. j \in mine
  BY <1>6, <1>7
<1>9. Latest(mine) \in mine /\ \A i \in mine : i <= Latest(mine)
  <2>1. mine \in SUBSET (1 .. Len(rs)) /\ mine # {} /\ Len(rs) \in Nat
    BY <1>0, <1>4, ResultsType
  <2> HIDE DEF mine, rs
  <2> QED
    BY <2>1, LatestMax
<1>10. PICK l \in mine : l = Latest(mine) /\ j <= l
  BY <1>8, <1>9
<1>11. r <= rs[l].result
  <2>1. SameBody(rs[j].event, rs[l].event)
    BY <1>6, <1>7, <1>10 DEF SameBody
  <2>2. rs[j].result <= rs[l].result
    BY <1>1, <1>10, <2>1 DEF ResultsOf, Rising
  <2>3. r <= rs[j].result
    BY <1>1, <1>7 DEF ResultsOf, Sound
  <2>4. r \in Nat /\ rs[j].result \in Nat /\ rs[l].result \in Nat
    BY <1>0, <1>6, <1>10, ResultsType, MinedType DEF Reports
  <2> QED
    BY <2>2, <2>3, <2>4
<1>12. rs[l].result <= r
  <2>1. rs[l].result \in Reports(p) /\ SameBody(rs[l].event, rs[l].result)
    BY <1>1, <1>10 DEF ResultsOf, Sound
  <2>2. SameBody(rs[l].result, n)
    BY <1>10, <2>1 DEF SameBody
  <2> QED
    BY <1>6, <2>1, <2>2
<1>13. rs[l].result = r
  <2>1. r \in Nat /\ rs[l].result \in Nat
    BY <1>0, <1>6, <1>10, ResultsType, MinedType DEF Reports
  <2> QED
    BY <1>11, <1>12, <2>1
<1>14. docs[p].results = rs /\ mine = {i \in DOMAIN docs[p].results :
                           history[docs[p].results[i].event].stage = history[n].stage}
  BY DEF Results, SameBody
<1>15. \E i \in mine : rs[i].event = n
  BY <1>3, <1>4
<1>16. rs[Latest(mine)].result = ResultNow(p, history[n].stage)
  BY <1>5, <1>10, <1>13
<1> HIDE DEF mine, rs
<1> QED
  BY <1>14, <1>15, <1>16

\* The result a handler asks the chain for is never behind the ones stored
\* before it read them: of the results of a body the last one is the chain's,
\* once every report is handled, however often one was given again.
THEOREM ResultsAlwaysFollow == Spec => []ResultsFollow
<1>1. Init => ListBase /\ ResultInv
  BY InitListBase, InitResultInv
<1>2. ListBase /\ ResultInv /\ [Next]_vars => ListBase' /\ ResultInv'
  BY StepListBase, StepResultInv
<1> QED
  BY <1>1, <1>2, ResultInvFollows, PTL DEF Spec

-----------------------------------------------------------------------------
(* Stages *)

As(p) == docs[p].advances
Done(p) == {As(p)[i] : i \in DOMAIN As(p)}
Advs(p) == Mined("Advanced", p)

\* The advances stored are each stored once, with none left out before them;
\* a crawler of the proposal has passed stored ones only; the stage is that of
\* the last, or of the sub-proposals paired at first.
AdvancesOf(p) ==
  /\ Done(p) \subseteq Advs(p) /\ IsFiniteSet(Done(p)) /\ Cardinality(Done(p)) = Len(As(p))
  /\ \A m \in Done(p), n \in Advs(p) : n < m => n \in Done(p)
  /\ \A c \in Crawlers, n \in Advs(p) : p \in address[c] /\ n < pos[c] => n \in Done(p)
  /\ \A m \in Done(p) : (\A n \in Done(p) : n <= m) => docs[p].stage = history[m].stage
  /\ Done(p) = {} => \A u \in docs[p].subs : u[2] = docs[p].stage

Creating == {"number", "taken", "save", "pair", "paired"}
Staging == {"subs", "execute", "stage"}

\* While a proposal is created it has no advance, and who advances it has read
\* the ones it has.
WorkOf(c, p) ==
  Event(c).id = p =>
    /\ pc[c] \in Creating => As(p) = <<>> /\ docs[p].subs = {}
    /\ pc[c] \in Staging => mem[c].doc.advances = As(p) /\ mem[c].doc.subs = docs[p].subs

\* A proposal and those that go with it, not all of which are spoiled: none of
\* its own handlers failed or met another of them.
Fam(p) ==
  {p} \union {q \in Ids : \E x \in DOMAIN history : /\ history[x].kind = "Created"
                                                  /\ {q, p} = {history[x].id, history[x].of}}
Whole(p) == ~(Fam(p) \subseteq spoiled)

AdvanceInv == \A p \in Ids : Whole(p) => AdvancesOf(p) /\ \A c \in Crawlers : WorkOf(c, p)

LEMMA GroupFam ==
  ASSUME NEW c
  PROVE  Group(pos[c]) = Fam(Event(c).id)
BY DEF Group, Fam, Event

\* Two handlers at work on one proposal have spoiled it and what goes with it.
LEMMA AloneFam ==
  ASSUME Solo, NEW c \in Crawlers, NEW d \in Crawlers, c # d, pc[c] # "idle", pc[d] # "idle",
         Event(c).id = Event(d).id
  PROVE  Fam(Event(c).id) \subseteq spoiled
<1>1. Group(pos[c]) = Fam(Event(c).id) /\ Group(pos[d]) = Fam(Event(c).id)
  BY GroupFam
<1>2. Event(c).id \in Fam(Event(c).id)
  BY DEF Fam
<1>3. Group(pos[c]) \intersect Group(pos[d]) # {}
  BY <1>1, <1>2
<1> QED
  BY <1>1, <1>3 DEF Solo

\* What is whole was so before.
LEMMA WholeBefore ==
  ASSUME TypeInv, [Next]_vars, NEW p, Whole(p)'
  PROVE  Whole(p) /\ Fam(p)' = Fam(p)
<1>1. UNCHANGED history
  BY MinedGrows
<1>2. Fam(p)' = Fam(p)
  BY <1>1 DEF Fam
<1>3. spoiled \subseteq spoiled'
  <2>1. CASE Mine \/ UNCHANGED vars
    BY <2>1 DEF Mine, vars
  <2>2. ASSUME NEW c \in Crawlers, StepOf(c) PROVE spoiled \subseteq spoiled'
    BY <2>2, SpoiledGrows
  <2> QED
    BY <2>1, <2>2 DEF Next, StepOf
<1> QED
  BY <1>2, <1>3 DEF Whole

LEMMA NoneDone ==
  ASSUME NEW p, As(p) = <<>>
  PROVE  Done(p) = {} /\ IsFiniteSet(Done(p)) /\ Cardinality(Done(p)) = 0 /\ Len(As(p)) = 0
<1>1. Done(p) = {}
  BY DEF Done
<1> QED
  BY <1>1, FS_EmptySet

LEMMA InitAdvanceInv == Init => AdvanceInv
<1> SUFFICES ASSUME Init PROVE AdvanceInv
  OBVIOUS
<1>1. \A p \in Ids : As(p) = <<>> /\ docs[p].subs = {}
  BY DEF Init, As, NoDoc, Fresh
<1>2. \A p : Advs(p) = {}
  BY DEF Init, Advs, Mined
<1>3. \A c \in Crawlers : pc[c] = "idle"
  BY DEF Init
<1>4. ASSUME NEW p \in Ids PROVE AdvancesOf(p)
  BY <1>1, <1>2, NoneDone DEF AdvancesOf
<1> QED
  BY <1>3, <1>4 DEF AdvanceInv, WorkOf, Creating, Staging

LEMMA AdvancesType ==
  ASSUME TypeInv, NEW p \in Ids
  PROVE  /\ As(p) \in Seq(DOMAIN history) /\ Len(As(p)) \in Nat /\ DOMAIN As(p) = 1 .. Len(As(p))
         /\ \A m \in Done(p) : m \in DOMAIN history /\ m \in Nat
<1>1. docs[p] \in DocType
  BY DEF TypeInv
<1>2. As(p) \in Seq(DOMAIN history)
  BY <1>1 DEF DocType, As
<1>3. \A n \in DOMAIN history : n \in Nat
  BY HistoryType
<1>4. Len(As(p)) \in Nat /\ DOMAIN As(p) = 1 .. Len(As(p))
  BY <1>2
<1>5. \A i \in DOMAIN As(p) : As(p)[i] \in DOMAIN history
  BY <1>2, OfSeq
<1> QED
  BY <1>2, <1>3, <1>4, <1>5 DEF Done

\* Only AdvanceStage takes a crawler past an advance, or the proposal is spoiled.
LEMMA PassesAdvance ==
  ASSUME TypeInv, NEW c \in Crawlers, StepOf(c), pos'[c] > pos[c], Event(c).kind = "Advanced",
         NEW p, p = Event(c).id, p \in address[c], Whole(p)'
  PROVE  AdvanceStage(c)
<1>0. pos[c] \in Nat /\ pos \in [Crawlers -> 1 .. (Len(history) + 1)]
  BY HistoryType DEF TypeInv
<1>1. ASSUME NEW place, NEW m, Goto(c, place, m) PROVE FALSE
  BY <1>0, <1>1 DEF Goto
<1>2. ~(Group(pos[c]) \subseteq spoiled')
  <2>1. Fam(p)' = Fam(p)
    BY WholeBefore DEF Next, StepOf
  <2>2. Group(pos[c]) = Fam(p)
    BY GroupFam
  <2> QED
    BY <2>1, <2>2 DEF Whole
<1>3. CASE Create(c) \/ HarmonyCreate(c) \/ Edit(c) \/ Execute(c) \/ Cancel(c) \/ Close(c) \/ Report(c)
  BY <1>3 DEF Create, HarmonyCreate, Begin, Edit, Execute, Cancel, Close, Report, Idle
<1>4. CASE FindIncrementalId(c) \/ AskTaken(c) \/ Save(c) \/ Pair(c) \/ Paired(c)
  BY <1>4 DEF FindIncrementalId, AskTaken, Save, Pair, Paired, TypeInv, FitsEvent, Creations
<1>5. CASE FindSubs(c) \/ ExecuteSubs(c)
  BY <1>1, <1>5 DEF FindSubs, ExecuteSubs
<1>6. CASE Advance(c) \/ Crash(c) \/ HandlerFails(c)
  BY <1>1, <1>2, <1>6 DEF Advance, Crash, HandlerFails
<1>7. CASE Redeliver(c) \/ Skip(c)
  BY <1>0, <1>7 DEF Redeliver, Skip
<1>8. CASE PushResult(c)
  BY <1>8 DEF PushResult, TypeInv, FitsEvent
<1> QED
  BY <1>3, <1>4, <1>5, <1>6, <1>7, <1>8 DEF StepOf, Step

\* How a handler comes to create, and to advance.
LEMMA EntersCreating ==
  ASSUME TypeInv, NEW c \in Crawlers, StepOf(c), pc'[c] \in Creating
  PROVE  pc[c] \in Creating \/ (~Doc(c).saved /\ docs' = docs)
<1>1. ASSUME NEW dropped, Return(c, dropped) PROVE FALSE
  BY <1>1 DEF Return, TypeInv, Creating
<1>2. CASE Create(c) \/ HarmonyCreate(c)
  BY <1>1, <1>2 DEF Create, HarmonyCreate, Begin
<1>3. CASE FindIncrementalId(c) \/ AskTaken(c) \/ Save(c) \/ Pair(c)
  BY <1>3 DEF FindIncrementalId, AskTaken, Save, Pair, Creating
<1>4. CASE Report(c) \/ Advance(c)
  BY <1>1, <1>4 DEF Report, Advance, Goto, TypeInv, Creating
<1>5. CASE FindSubs(c) \/ ExecuteSubs(c)
  BY <1>5 DEF FindSubs, ExecuteSubs, Goto, TypeInv, Creating
<1>6. CASE Edit(c) \/ Execute(c) \/ Cancel(c) \/ Close(c)
  BY <1>1, <1>6 DEF Edit, Execute, Cancel, Close, Update
<1>7. CASE Paired(c) \/ PushResult(c) \/ AdvanceStage(c) \/ HandlerFails(c)
  BY <1>1, <1>7 DEF Paired, PushResult, AdvanceStage, HandlerFails
<1>8. CASE Crash(c) \/ Redeliver(c) \/ Skip(c)
  BY <1>8 DEF Crash, Redeliver, Skip, Goto, TypeInv, Creating
<1> QED
  BY <1>2, <1>3, <1>4, <1>5, <1>6, <1>7, <1>8 DEF StepOf, Step

LEMMA EntersStaging ==
  ASSUME TypeInv, NEW c \in Crawlers, StepOf(c), pc'[c] \in Staging
  PROVE  \/ (FindSubs(c) \/ ExecuteSubs(c)) /\ pc[c] \in Staging /\ mem'[c].doc = mem[c].doc
         \/ Advance(c) /\ mem'[c].doc = Doc(c) /\ docs' = docs /\ Doc(c).saved
<1>1. ASSUME NEW dropped, Return(c, dropped) PROVE FALSE
  BY <1>1 DEF Return, TypeInv, Staging
<1>2. CASE Create(c) \/ HarmonyCreate(c)
  BY <1>1, <1>2 DEF Create, HarmonyCreate, Begin, Goto, TypeInv, Staging
<1>3. CASE FindIncrementalId(c) \/ AskTaken(c) \/ Save(c) \/ Pair(c)
  BY <1>1, <1>3 DEF FindIncrementalId, AskTaken, Save, Pair, Goto, TypeInv, Staging
<1>4. CASE Report(c)
  BY <1>1, <1>4 DEF Report, Goto, TypeInv, Staging
<1>5. CASE Advance(c)
  <2>1. Goto(c, "subs", [Blank EXCEPT !.doc = Doc(c)]) /\ docs' = docs /\ Doc(c).saved
    BY <1>1, <1>5 DEF Advance
  <2>2. mem'[c] = [Blank EXCEPT !.doc = Doc(c)]
    BY <2>1 DEF Goto, TypeInv
  <2> QED
    BY <1>5, <2>1, <2>2 DEF Blank
<1>6. CASE FindSubs(c) \/ ExecuteSubs(c)
  <2>1. mem[c] \in MemType /\ mem \in [Crawlers -> MemType]
    BY DEF TypeInv
  <2>2. \A X : [mem[c] EXCEPT !.open = X].doc = mem[c].doc
    BY <2>1 DEF MemType
  <2>3. mem'[c].doc = mem[c].doc
    <3>1. CASE FindSubs(c)
      <4>1. PICK X : Goto(c, "execute", [mem[c] EXCEPT !.open = X])
        BY <3>1 DEF FindSubs
      <4>2. mem'[c] = [mem[c] EXCEPT !.open = X]
        BY <2>1, <4>1 DEF Goto
      <4> QED
        BY <2>2, <4>2
    <3>2. CASE ExecuteSubs(c)
      BY <2>1, <3>2 DEF ExecuteSubs, Goto
    <3> QED
      BY <1>6, <3>1, <3>2
  <2> QED
    BY <1>6, <2>3 DEF FindSubs, ExecuteSubs, Staging
<1>7. CASE Edit(c) \/ Execute(c) \/ Cancel(c) \/ Close(c)
  BY <1>1, <1>7 DEF Edit, Execute, Cancel, Close, Update
<1>8. CASE Paired(c) \/ PushResult(c) \/ AdvanceStage(c) \/ HandlerFails(c)
  BY <1>1, <1>8 DEF Paired, PushResult, AdvanceStage, HandlerFails
<1>9. CASE Crash(c) \/ Redeliver(c) \/ Skip(c)
  BY <1>9 DEF Crash, Redeliver, Skip, Goto, TypeInv, Staging
<1> QED
  BY <1>2, <1>3, <1>4, <1>5, <1>6, <1>7, <1>8, <1>9 DEF StepOf, Step

\* Where no advance is stored, what has been said of them stays.
LEMMA AdvancesStay ==
  ASSUME TypeInv, NEW c \in Crawlers, StepOf(c), NEW p \in Ids, Whole(p)', AdvancesOf(p),
         docs'[p].advances = As(p),
         \/ docs'[p].stage = docs[p].stage /\ docs'[p].subs = docs[p].subs
         \/ As(p) = <<>> /\ \A u \in docs'[p].subs : u[2] = docs'[p].stage,
         ~(AdvanceStage(c) /\ Event(c).id = p)
  PROVE  AdvancesOf(p)'
<1>1. UNCHANGED <<history, address, head>> /\ \A d \in Crawlers : d # c => pos'[d] = pos[d]
  BY StepOthers DEF Others
<1>2. As(p)' = As(p) /\ Done(p)' = Done(p) /\ Advs(p)' = Advs(p)
  BY <1>1 DEF As, Done, Advs, Mined
<1>3. ASSUME NEW d \in Crawlers, NEW n \in Advs(p), p \in address[d], n < pos'[d]
      PROVE  n \in Done(p)
  <2>1. n \in Nat /\ pos[d] \in Nat /\ history[n].kind = "Advanced" /\ history[n].id = p
    BY MinedType, HistoryType DEF Advs, TypeInv, Mined
  <2>2. CASE n < pos[d]
    BY <1>3, <2>2 DEF AdvancesOf
  <2>3. CASE ~(n < pos[d])
    <3>1. d = c
      BY <1>1, <1>3, <2>3
    <3>2. pos'[c] <= pos[c] \/ pos'[c] = pos[c] + 1
      BY Movement
    <3>3. pos'[c] \in Nat
      <4>1. TypeInv'
        BY StepTypeInv DEF Next, StepOf
      <4> QED
        BY <1>1, <4>1, HistoryType DEF TypeInv
    <3>4. n = pos[c] /\ pos'[c] > pos[c]
      BY <1>3, <2>1, <2>3, <3>1, <3>2, <3>3
    <3>5. Event(c).kind = "Advanced" /\ Event(c).id = p
      BY <2>1, <3>4 DEF Event
    <3> QED
      BY <1>3, <3>1, <3>4, <3>5, PassesAdvance
  <2> QED
    BY <2>2, <2>3
<1>4. ASSUME NEW m \in Done(p), \A n \in Done(p) : n <= m
      PROVE  docs'[p].stage = history[m].stage
  BY <1>4, NoneDone DEF AdvancesOf
<1>5. Done(p) = {} => \A u \in docs'[p].subs : u[2] = docs'[p].stage
  BY DEF AdvancesOf
<1> QED
  BY <1>1, <1>2, <1>3, <1>4, <1>5 DEF AdvancesOf

\* The advance stored is behind the others.
LEMMA AdvanceKeeps ==
  ASSUME TypeInv, NEW c \in Crawlers, AdvanceStage(c), NEW p \in Ids, Event(c).id = p,
         AdvancesOf(p), WorkOf(c, p)
  PROVE  AdvancesOf(p)'
<1> DEFINE n == pos[c]
           as == As(p)
<1>0. StepOf(c) /\ pc[c] = "stage"
  BY DEF StepOf, Step, AdvanceStage
<1>1. UNCHANGED <<history, address, head>> /\ \A d \in Crawlers : d # c => pos'[d] = pos[d]
  BY <1>0, StepOthers DEF Others
<1>2. mem[c].doc.advances = as
  BY <1>0 DEF WorkOf, Staging
<1>3. /\ n \in Advs(p) /\ n \in Nat /\ pos'[c] = n + 1 /\ Event(c) = history[n]
      /\ n \in DOMAIN history /\ p \in address[c]
  <2>1. n \in 1 .. head /\ Event(c).kind = "Advanced" /\ Event(c) = history[n]
    BY <1>0, EventType DEF TypeInv, FitsEvent
  <2>2. pos'[c] = n + 1
    BY DEF AdvanceStage, Return, TypeInv
  <2> QED
    BY <1>0, <2>1, <2>2, HistoryType DEF Advs, Mined, TypeInv
<1>4. Advs(p)' = Advs(p)
  BY <1>1 DEF Advs, Mined
<1>5. \A m \in Advs(p) : m \in Nat
  BY MinedType DEF Advs
<1>6. Advanced(mem[c].doc, n) <=> n \in Done(p)
  BY <1>2 DEF Advanced, Done
<1>7. CASE n \in Done(p)
  <2>1. docs' = docs
    BY <1>6, <1>7 DEF AdvanceStage
  <2>2. Done(p)' = Done(p) /\ As(p)' = As(p)
    BY <2>1 DEF Done, As
  <2>3. \A d \in Crawlers, m \in Advs(p) : p \in address[d] /\ m < pos'[d] => m \in Done(p)
    <3> SUFFICES ASSUME NEW d \in Crawlers, NEW m \in Advs(p), p \in address[d], m < pos'[d], m # n
                 PROVE  m \in Done(p)
      BY <1>7
    <3>1. m < pos[d]
      BY <1>1, <1>3, <1>5
    <3> QED
      BY <3>1 DEF AdvancesOf
  <2> QED
    BY <1>1, <1>4, <2>1, <2>2, <2>3 DEF AdvancesOf
<1>8. CASE n \notin Done(p)
  <2>1. docs' = [docs EXCEPT ![p].stage = Event(c).stage,
                     ![p].subs = mem[c].doc.subs \union (SubNow(p, Event(c).stage) \X {Event(c).stage}),
                     ![p].advances = Append(as, n)]
    BY <1>2, <1>6, <1>8 DEF AdvanceStage
  <2>2. docs'[p].advances = Append(as, n) /\ docs'[p].stage = Event(c).stage
    <3>1. docs \in [Ids -> DocType] /\ docs[p] \in DocType
      BY DEF TypeInv
    <3> QED
      BY <2>1, <3>1 DEF DocType
  <2>3. as \in Seq(DOMAIN history) /\ Len(as) \in Nat /\ DOMAIN as = 1 .. Len(as)
    BY AdvancesType
  <2>4. Len(Append(as, n)) = Len(as) + 1 /\ Done(p)' = Done(p) \union {n}
    <3> DEFINE new == Append(as, n)
    <3>1. /\ Len(new) = Len(as) + 1 /\ DOMAIN new = 1 .. (Len(as) + 1)
          /\ \A i \in DOMAIN as : new[i] = as[i]
          /\ new[Len(as) + 1] = n
      BY <1>3, <2>3
    <3>2. As(p)' = new
      BY <2>2 DEF As
    <3> HIDE DEF new
    <3>3. Done(p)' = {new[i] : i \in DOMAIN new}
      BY <3>2 DEF Done
    <3>4. DOMAIN new = DOMAIN as \union {Len(as) + 1}
      BY <2>3, <3>1
    <3>5. Done(p) = {as[i] : i \in DOMAIN as}
      BY DEF Done
    <3>6. {new[i] : i \in DOMAIN new} = {as[i] : i \in DOMAIN as} \union {n}
      <4> HIDE DEF as, n
      <4>1. \A i \in DOMAIN new : new[i] \in {as[k] : k \in DOMAIN as} \union {n}
        BY ONLY <3>1, <3>4
      <4>2. \A i \in DOMAIN as : as[i] \in {new[k] : k \in DOMAIN new}
        BY ONLY <3>1, <3>4
      <4>3. n \in {new[k] : k \in DOMAIN new}
        BY ONLY <3>1, <3>4
      <4> QED
        BY ONLY <4>1, <4>2, <4>3
    <3> QED
      BY <3>1, <3>3, <3>5, <3>6 DEF new
  <2>5. IsFiniteSet(Done(p)) /\ Cardinality(Done(p)) = Len(as) /\ Done(p) \subseteq Advs(p)
    BY DEF AdvancesOf
  <2>6. IsFiniteSet(Done(p) \union {n}) /\ Cardinality(Done(p) \union {n}) = Len(as) + 1
    BY <1>8, <2>5, FS_AddElement
  <2>7. \A m \in Done(p) : m < n
    BY <1>3, <1>5, <1>8, <2>5 DEF AdvancesOf
  <2>8. \A m \in Done(p) \union {n}, k \in Advs(p) : k < m => k \in Done(p) \union {n}
    <3>1. \A k \in Advs(p) : k < n => k \in Done(p)
      BY <1>3 DEF AdvancesOf
    <3> QED
      BY <3>1 DEF AdvancesOf
  <2>9. \A d \in Crawlers, m \in Advs(p) :
          p \in address[d] /\ m < pos'[d] => m \in Done(p) \union {n}
    <3> SUFFICES ASSUME NEW d \in Crawlers, NEW m \in Advs(p), p \in address[d], m < pos'[d], m # n
                 PROVE  m \in Done(p)
      OBVIOUS
    <3>1. m < pos[d]
      BY <1>1, <1>3, <1>5
    <3> QED
      BY <3>1 DEF AdvancesOf
  <2>10. \A m \in Done(p) \union {n} :
           (\A k \in Done(p) \union {n} : k <= m) => docs'[p].stage = history[m].stage
    <3> SUFFICES ASSUME NEW m \in Done(p), n <= m PROVE FALSE
      BY <1>3, <2>2
    <3> QED
      BY <1>3, <1>5, <2>5, <2>7
  <2>11. As(p)' = Append(as, n)
    BY <2>2 DEF As
  <2>12. PICK D : D = Done(p) \union {n}
    OBVIOUS
  <2>13. Done(p)' = D /\ D \subseteq Advs(p) /\ IsFiniteSet(D) /\ Cardinality(D) = Len(As(p)')
    BY <1>3, <2>4, <2>5, <2>6, <2>11, <2>12
  <2> HIDE DEF n, as
  <2> QED
    BY <1>1, <1>4, <2>8, <2>9, <2>10, <2>12, <2>13 DEF AdvancesOf
<1> QED
  BY <1>7, <1>8

\* A handler that is at work finds the advances left alone, by itself until it
\* stores one.
LEMMA WorkStays ==
  ASSUME ListBase, NEW c \in Crawlers, StepOf(c), NEW d \in Crawlers, NEW p \in Ids, Whole(p)',
         WorkOf(d, p)
  PROVE  WorkOf(d, p)'
<1>0. TypeInv /\ EmptyInv /\ Solo
  BY DEF ListBase, BaseInv
<1>1. /\ UNCHANGED <<history, head>>
      /\ d # c => pc'[d] = pc[d] /\ pos'[d] = pos[d] /\ mem'[d] = mem[d]
  BY <1>0, StepOthers DEF Others
<1> SUFFICES ASSUME pc'[d] \in Creating \/ pc'[d] \in Staging, Event(d)'.id = p
             PROVE  /\ pc'[d] \in Creating => docs'[p].advances = <<>> /\ docs'[p].subs = {}
                    /\ pc'[d] \in Staging => /\ mem'[d].doc.advances = docs'[p].advances
                                             /\ mem'[d].doc.subs = docs'[p].subs
  BY DEF WorkOf, As
<1>2. pos'[d] = pos[d] /\ Event(d).id = p
  <2>1. pos'[d] = pos[d]
    BY <1>0, <1>1, GoesOn DEF Creating, Staging
  <2> QED
    BY <1>1, <2>1 DEF Event
<1>3. ~((AdvanceStage(c) \/ Paired(c)) /\ Event(c).id = p) =>
        docs'[p].advances = As(p) /\ docs'[p].subs = docs[p].subs
  BY <1>0, FieldsKept, SaveFields DEF As
<1>4. CASE d # c
  <2>1. ~((AdvanceStage(c) \/ Paired(c)) /\ Event(c).id = p)
    <3> SUFFICES ASSUME AdvanceStage(c) \/ Paired(c), Event(c).id = p PROVE FALSE
      OBVIOUS
    <3>1. pc[c] # "idle" /\ pc[d] # "idle"
      BY <1>1, <1>4 DEF AdvanceStage, Paired, Creating, Staging
    <3>2. Whole(p)
      BY <1>0, WholeBefore DEF Next, StepOf
    <3> QED
      BY <1>0, <1>2, <1>4, <3>1, <3>2, AloneFam DEF Whole
  <2> QED
    BY <1>1, <1>2, <1>3, <1>4, <2>1 DEF WorkOf
<1>5. CASE d = c /\ pc'[c] \in Creating
  <2>0. ~AdvanceStage(c) /\ ~Paired(c) /\ pc'[c] \notin Staging
    BY <1>0, <1>5 DEF AdvanceStage, Paired, Return, Creating, Staging, TypeInv
  <2>1. CASE pc[c] \in Creating
    BY <1>2, <1>3, <1>5, <2>0, <2>1 DEF WorkOf
  <2>2. CASE ~Doc(c).saved /\ docs' = docs
    <3>1. docs[p].advances = <<>> /\ docs[p].subs = {}
      BY <1>0, <1>2, <1>5, <2>2 DEF EmptyInv, Doc
    <3> QED
      BY <1>5, <2>0, <2>2, <3>1
  <2> QED
    BY <1>0, <1>5, <2>1, <2>2, EntersCreating
<1>6. CASE d = c /\ pc'[c] \in Staging
  <2>0. pc'[c] \notin Creating
    BY <1>6 DEF Creating, Staging
  <2>1. CASE (FindSubs(c) \/ ExecuteSubs(c)) /\ pc[c] \in Staging /\ mem'[c].doc = mem[c].doc
    <3>1. ~AdvanceStage(c) /\ ~Paired(c)
      BY <2>1 DEF AdvanceStage, Paired, FindSubs, ExecuteSubs
    <3> QED
      BY <1>2, <1>3, <1>6, <2>0, <2>1, <3>1 DEF WorkOf
  <2>2. CASE mem'[c].doc = Doc(c) /\ docs' = docs
    BY <1>2, <1>6, <2>0, <2>2 DEF Doc
  <2> QED
    BY <1>0, <1>6, <2>1, <2>2, EntersStaging
<1> QED
  BY <1>4, <1>5, <1>6

LEMMA StepAdvanceInv ==
  ASSUME ListBase, AdvanceInv, [Next]_vars
  PROVE  AdvanceInv'
<1>0. TypeInv /\ EmptyInv
  BY DEF ListBase, BaseInv
<1>1. CASE Mine \/ UNCHANGED vars
  <2>1. UNCHANGED <<history, address, docs, pos, pc, mem, spoiled>>
    BY <1>1 DEF Mine, vars, given
  <2> SUFFICES ASSUME NEW p \in Ids, Whole(p)' PROVE AdvancesOf(p)' /\ \A c \in Crawlers : WorkOf(c, p)'
    BY DEF AdvanceInv
  <2>a. Whole(p)
    BY <1>0, WholeBefore
  <2>2. /\ Advs(p) \subseteq Advs(p)'
        /\ \A n \in Advs(p)' : n \in Advs(p) \/ n > head
    BY <1>0, MinedGrows DEF Advs
  <2>3. As(p)' = As(p) /\ Done(p)' = Done(p)
    BY <2>1 DEF As, Done
  <2>4. AdvancesOf(p) /\ \A c \in Crawlers : WorkOf(c, p)
    BY <2>a DEF AdvanceInv
  <2>5. \A n \in Advs(p)' : n \in Nat
    BY DEF Advs, Mined
  <2>6. \A m \in Done(p) : m \in Nat /\ m <= head /\ head \in Nat
    BY <1>0, <2>4, MinedType DEF Advs, AdvancesOf
  <2>7. \A m \in Done(p), n \in Advs(p)' : n < m => n \in Done(p)
    <3> SUFFICES ASSUME NEW m \in Done(p), NEW n \in Advs(p)', n < m PROVE n \in Done(p)
      OBVIOUS
    <3>1. n \in Advs(p)
      BY <2>2, <2>5, <2>6
    <3> QED
      BY <2>4, <3>1 DEF AdvancesOf
  <2>8. \A c \in Crawlers, n \in Advs(p)' : p \in address[c] /\ n < pos'[c] => n \in Done(p)
    <3> SUFFICES ASSUME NEW c \in Crawlers, NEW n \in Advs(p)', p \in address[c], n < pos'[c]
                 PROVE  n \in Done(p)
      OBVIOUS
    <3>1. pos'[c] \in Nat /\ pos[c] <= head + 1 /\ head \in Nat /\ pos'[c] = pos[c]
      BY <1>0, <2>1, HistoryType DEF TypeInv
    <3>2. n \in Advs(p)
      BY <2>2, <2>5, <3>1
    <3> QED
      BY <2>4, <3>1, <3>2 DEF AdvancesOf
  <2>9. AdvancesOf(p)'
    BY <2>1, <2>2, <2>3, <2>4, <2>7, <2>8 DEF AdvancesOf
  <2>10. \A c \in Crawlers : WorkOf(c, p)'
    BY <2>1, <2>3, <2>4 DEF WorkOf, Event
  <2> QED
    BY <2>9, <2>10
<1>2. ASSUME NEW c \in Crawlers, StepOf(c), NEW p \in Ids, Whole(p)'
      PROVE  AdvancesOf(p)' /\ \A d \in Crawlers : WorkOf(d, p)'
  <2>1. Whole(p)
    BY <1>0, <1>2, WholeBefore
  <2>2. AdvancesOf(p) /\ \A d \in Crawlers : WorkOf(d, p)
    BY <2>1 DEF AdvanceInv
  <2>3. AdvancesOf(p)'
    <3>1. CASE AdvanceStage(c) /\ Event(c).id = p
      BY <1>0, <2>2, <3>1, AdvanceKeeps
    <3>2. CASE ~(AdvanceStage(c) /\ Event(c).id = p)
      <4>1. docs'[p].advances = As(p)
        BY <1>0, <1>2, <3>2, FieldsKept, SaveFields DEF As
      <4>2. \/ docs'[p].stage = docs[p].stage /\ docs'[p].subs = docs[p].subs
            \/ As(p) = <<>> /\ \A u \in docs'[p].subs : u[2] = docs'[p].stage
        <5>1. CASE Save(c) /\ ~docs[p].saved
          BY <1>0, <5>1, SaveFields DEF EmptyInv, As
        <5>2. CASE Save(c) /\ docs[p].saved
          BY <1>0, <5>2, SaveFields
        <5>3. CASE Paired(c) /\ Event(c).id = p
          <6>1. As(p) = <<>>
            BY <2>2, <5>3 DEF WorkOf, Paired, Creating
          <6>2. docs[p] \in DocType
            BY <1>0 DEF TypeInv
          <6>3. PICK X : docs'[p] = [docs[p] EXCEPT !.stage = mem[c].chain, !.subs = X \X {mem[c].chain}]
            BY <5>3 DEF Paired
          <6> QED
            BY <6>1, <6>2, <6>3 DEF DocType
        <5>4. CASE ~Save(c) /\ ~(Paired(c) /\ Event(c).id = p)
          BY <1>0, <1>2, <3>2, <5>4, FieldsKept
        <5> QED
          BY <5>1, <5>2, <5>3, <5>4
      <4> QED
        BY <1>0, <1>2, <2>2, <3>2, <4>1, <4>2, AdvancesStay
    <3> QED
      BY <3>1, <3>2
  <2> QED
    BY <1>2, <2>2, <2>3, WorkStays
<1> QED
  BY <1>1, <1>2 DEF Next, StepOf, AdvanceInv

LEMMA AdvanceInvFollows == ListBase /\ AdvanceInv => StageFollows
<1> SUFFICES ASSUME ListBase, AdvanceInv, AtRest, NEW p \in Ids \ spoiled
             PROVE  /\ Advs(p) # {} => docs[p].stage = history[Latest(Advs(p))].stage
                    /\ {docs[p].advances[i] : i \in DOMAIN docs[p].advances} = Advs(p)
                    /\ Len(docs[p].advances) = Cardinality(Advs(p))
  BY DEF StageFollows, Advs
<1>0. TypeInv /\ AdvancesOf(p)
  BY DEF ListBase, BaseInv, AdvanceInv, Whole, Fam
<1>1. Advs(p) \in SUBSET (1 .. head) /\ head \in Nat /\ \A n \in Advs(p) : n <= head /\ n \in Nat
  BY <1>0, MinedType DEF Advs
<1>2. Done(p) = Advs(p)
  <2>1. ASSUME NEW n \in Advs(p) PROVE n \in Done(p)
    <3>1. n \in DOMAIN history /\ history[n].id = p
      BY <1>0, MinedType DEF Advs, Mined
    <3>2. PICK c \in Crawlers : p \in address[c] /\ pos[c] = head + 1
      BY <1>0, <3>1, Crawled DEF AtRest, Crawls
    <3>3. n < pos[c]
      BY <1>1, <3>2
    <3> QED
      BY <1>0, <3>2, <3>3 DEF AdvancesOf
  <2> QED
    BY <1>0, <2>1 DEF AdvancesOf
<1>3. ASSUME Advs(p) # {} PROVE docs[p].stage = history[Latest(Advs(p))].stage
  <2>1. Latest(Advs(p)) \in Advs(p) /\ \A n \in Advs(p) : n <= Latest(Advs(p))
    BY <1>1, <1>3, LatestMax
  <2> QED
    BY <1>0, <1>2, <2>1 DEF AdvancesOf
<1>4. {docs[p].advances[i] : i \in DOMAIN docs[p].advances} = Advs(p)
  BY <1>2 DEF Done, As
<1>5. Len(docs[p].advances) = Cardinality(Advs(p))
  BY <1>0, <1>2 DEF AdvancesOf, As
<1> QED
  BY <1>3, <1>4, <1>5

\* An advance is stored where all before it are, and once: a handler that comes
\* back to one behind the stage leaves stage and list alone.
THEOREM StagesAlwaysFollow == Spec => []StageFollows
<1>1. Init => ListBase /\ AdvanceInv
  BY InitListBase, InitAdvanceInv
<1>2. ListBase /\ AdvanceInv /\ [Next]_vars => ListBase' /\ AdvanceInv'
  BY StepListBase, StepAdvanceInv
<1> QED
  BY <1>1, <1>2, AdvanceInvFollows, PTL DEF Spec

-----------------------------------------------------------------------------
(* Sub-proposals *)

\* Event x creates a sub-proposal of p, its body, for a stage.
Sub(x, p) ==
  x \in DOMAIN history /\ history[x].kind = "Created" /\ history[x].of = p /\ history[x].id # p
Body(x) == history[x].id
StageOf(x) == history[x].stage
Entry(x) == <<Body(x), StageOf(x)>>

\* The proposal has ever been at the stage, as far as the chain goes.
Reached(s, p) == s = 0 \/ \E n \in Advs(p) : StageOf(n) = s

Listed(u, p) == Reached(u[2], p) /\ \E x \in DOMAIN history : Sub(x, p) /\ u = Entry(x)

\* What the sub-proposals of a stage are, and when they are made.
LEMMA SubLegal ==
  ASSUME TypeInv, NEW p, NEW x, Sub(x, p), NEW n \in DOMAIN history, history[n].id = p,
         \/ history[n].kind = "Advanced" /\ history[n].stage >= StageOf(x)
         \/ history[n].kind \in Creations /\ StageOf(x) = 0
  PROVE  x < n
<1>1. Legal(history)
  BY ProposalConstants DEF TypeInv
<1> QED
  BY <1>1 DEF Legal, Sub, StageOf

LEMMA SubType ==
  ASSUME TypeInv, NEW p, NEW x, Sub(x, p)
  PROVE  /\ p \in Ids /\ Body(x) \in Ids /\ Body(x) # p /\ StageOf(x) \in Nat /\ x \in Nat
         /\ Body(x) \in Fam(p) /\ p \in Fam(p) /\ Body(x) \in Fam(Body(x)) /\ p \in Fam(Body(x))
<1>1. /\ x \in DOMAIN history /\ x \in Nat /\ history[x].kind = "Created" /\ history[x].of = p
      /\ history[x].id = Body(x) /\ p \in Ids /\ Body(x) \in Ids /\ Body(x) # p /\ StageOf(x) \in Nat
  BY HistoryType DEF Sub, Body, StageOf
<1>2. Body(x) \in Fam(p)
  BY <1>1 DEF Fam
<1>3. p \in Fam(Body(x))
  BY <1>1 DEF Fam
<1> QED
  BY <1>1, <1>2, <1>3 DEF Fam

\* A sub-proposal is made once, for one proposal.
LEMMA OneSub ==
  ASSUME TypeInv, NEW p, NEW x, Sub(x, p), NEW r, NEW y, Sub(y, r), Body(y) = Body(x)
  PROVE  y = x /\ r = p
<1>1. Creation(x) /\ Creation(y) /\ x \in DOMAIN history /\ y \in DOMAIN history
  BY DEF Sub, Creation, Creations
<1>2. y = x
  BY <1>1, InOrder DEF Body
<1> QED
  BY <1>2 DEF Sub

LEMMA AdvsLegal ==
  ASSUME TypeInv, NEW p, NEW n \in Advs(p)
  PROVE  /\ n \in Nat /\ n \in DOMAIN history /\ StageOf(n) \in Nat
         /\ StageOf(n) = 1 \/ \E m \in Advs(p) : m < n /\ StageOf(m) + 1 = StageOf(n)
         /\ \A m \in Advs(p) : m < n <=> StageOf(m) < StageOf(n)
<1>1. Legal(history)
  BY ProposalConstants DEF TypeInv
<1>2. n \in 1 .. head /\ n \in DOMAIN history /\ history[n].kind = "Advanced" /\ history[n].id = p
  BY MinedType DEF Advs, Mined
<1>3. \A m \in Advs(p) : m \in DOMAIN history /\ history[m].kind = "Advanced" /\ history[m].id = p
  BY MinedType DEF Advs, Mined
<1>4. StageOf(n) = 1 \/ \E m \in Advs(p) : m < n /\ StageOf(m) + 1 = StageOf(n)
  <2>1. \/ StageOf(n) = 1
        \/ \E m \in DOMAIN history : /\ m < n /\ history[m].kind = "Advanced" /\ history[m].id = p
                                     /\ StageOf(m) + 1 = StageOf(n)
    BY <1>1, <1>2 DEF Legal, StageOf
  <2>2. \A m \in DOMAIN history : m < n => m \in 1 .. head
    BY <1>2, HistoryType
  <2> QED
    BY <2>1, <2>2 DEF Advs, Mined
<1>5. \A m \in Advs(p) : m < n <=> StageOf(m) < StageOf(n)
  BY <1>1, <1>2, <1>3 DEF Legal, StageOf
<1> QED
  BY <1>2, <1>4, <1>5, HistoryType DEF StageOf

LEMMA SubNowIs ==
  ASSUME TypeInv, NEW p, NEW s
  PROVE  /\ \A q \in SubNow(p, s) : \E x \in DOMAIN history : Sub(x, p) /\ Body(x) = q /\ StageOf(x) = s
         /\ \A x : Sub(x, p) /\ StageOf(x) = s /\ x <= head => Body(x) \in SubNow(p, s)
<1>1. head \in Nat /\ DOMAIN history = 1 .. Len(history) /\ Len(history) \in Nat
      /\ \A n \in 1 .. head : n \in DOMAIN history
  BY HistoryType
<1> QED
  BY <1>1 DEF SubNow, Sub, Body, StageOf

\* Pairing finds a stage the proposal has been at.
LEMMA StageReached ==
  ASSUME TypeInv, NEW p
  PROVE  Reached(StageNow(p), p)
<1> DEFINE a == Latest(Advs(p))
<1>1. first \in {0, 1} /\ head \in Nat /\ Advs(p) \in SUBSET (1 .. head)
  BY MinedType DEF TypeInv, Advs
<1>2. CurrentStage(p) = first + (IF a = 0 THEN 0 ELSE StageOf(a))
  BY DEF CurrentStage, Advs, StageOf
<1>3. StageNow(p) = IF CurrentStage(p) = 0 THEN 0 ELSE CurrentStage(p) - 1
  BY DEF StageNow
<1>4. a \in Advs(p) \/ a = 0
  BY <1>1, LatestIn
<1>5. CASE a = 0
  BY <1>1, <1>2, <1>3, <1>5 DEF Reached
<1>6. CASE a # 0
  <2>1. a \in Advs(p) /\ StageOf(a) \in Nat
    BY <1>4, <1>6, AdvsLegal
  <2>2. StageOf(a) = 1 \/ \E m \in Advs(p) : StageOf(m) + 1 = StageOf(a)
    BY <2>1, AdvsLegal
  <2>3. \A m \in Advs(p) : StageOf(m) \in Nat
    BY AdvsLegal
  <2>4. StageNow(p) = StageOf(a) \/ StageNow(p) = 0 \/ StageNow(p) = StageOf(a) - 1
    BY <1>1, <1>2, <1>3, <1>6, <2>1
  <2>5. CASE StageNow(p) = StageOf(a) - 1
    BY <2>1, <2>2, <2>3, <2>5 DEF Reached
  <2> QED
    BY <2>1, <2>4, <2>5 DEF Reached
<1> QED
  BY <1>5, <1>6

\* What is listed and what a handler is about to pair, list or execute are
\* sub-proposals of the proposal; what is executed or points to one is stored.
DocsListed == \A p \in Ids : \A u \in docs[p].subs : Listed(u, p)
ReadListed == \A c \in Crawlers : pc[c] \in Staging => \A u \in mem[c].doc.subs : Listed(u, Event(c).id)
OpenListed ==
  \A c \in Crawlers : pc[c] = "execute" => \A q \in mem[c].open : q \in SubsBefore(c) /\ docs[q].saved
StoredOnly == \A q \in Ids : ~docs[q].saved => docs[q].executed = 0 /\ docs[q].parent = 0
PointsTo(q, n) == \E x \in DOMAIN history : Sub(x, history[n].id) /\ Body(x) = q
ParentsListed == \A q \in Ids : docs[q].parent # 0 => PointsTo(q, docs[q].parent)
PairsReached ==
  \A c \in Crawlers : pc[c] = "paired" /\ Event(c).id = Event(c).of => Reached(mem[c].chain, Event(c).id)

ListsInv == DocsListed /\ ReadListed /\ OpenListed /\ StoredOnly /\ ParentsListed /\ PairsReached

LEMMA InitListsInv == Init => ListsInv
<1> SUFFICES ASSUME Init PROVE ListsInv
  OBVIOUS
<1>1. \A p \in Ids : docs[p].subs = {} /\ docs[p].executed = 0 /\ docs[p].parent = 0
  BY DEF Init, NoDoc, Fresh
<1>2. \A c \in Crawlers : pc[c] = "idle"
  BY DEF Init
<1> QED
  BY <1>1, <1>2 DEF ListsInv, DocsListed, ReadListed, OpenListed, StoredOnly, ParentsListed, PairsReached, Staging

LEMMA ListedStays ==
  ASSUME TypeInv, [Next]_vars, NEW p
  PROVE  /\ \A s : Reached(s, p) => Reached(s, p)'
         /\ \A u : Listed(u, p) => Listed(u, p)'
         /\ \A q, n : PointsTo(q, n) => PointsTo(q, n)'
         /\ \A x : Sub(x, p)' <=> Sub(x, p)
<1>1. Advs(p) \subseteq Advs(p)' /\ UNCHANGED history
  BY MinedGrows DEF Advs
<1>2. \A s : Reached(s, p) => Reached(s, p)'
  BY <1>1 DEF Reached, StageOf
<1>3. \A x, r : Sub(x, r)' <=> Sub(x, r)
  BY <1>1 DEF Sub
<1>4. \A u : Listed(u, p) => Listed(u, p)'
  BY <1>1, <1>2, <1>3 DEF Listed, Entry, Body, StageOf
<1>5. \A q, n : PointsTo(q, n) => PointsTo(q, n)'
  BY <1>1, <1>3 DEF PointsTo, Body
<1> QED
  BY <1>2, <1>3, <1>4, <1>5

\* What Paired and AdvanceStage list is listed.
LEMMA NewListed ==
  ASSUME TypeInv, ListsInv, NEW c \in Crawlers, Paired(c) \/ AdvanceStage(c)
  PROVE  /\ Event(c).id \in Ids
         /\ \A u \in docs'[Event(c).id].subs : u \in docs[Event(c).id].subs \/ Listed(u, Event(c).id)
<1>0. docs \in [Ids -> DocType] /\ Event(c).id \in Ids
  BY EventType DEF TypeInv, Paired, AdvanceStage
<1>1. PICK p \in Ids : p = Event(c).id
  BY <1>0
<1>2. docs[p] \in DocType
  BY <1>0
<1>3. CASE Paired(c)
  <2>1. PICK X : /\ docs'[p] = [docs[p] EXCEPT !.stage = mem[c].chain, !.subs = X \X {mem[c].chain}]
                 /\ X = IF p = Event(c).of THEN SubNow(p, mem[c].chain) ELSE {}
    BY <1>1, <1>3 DEF Paired
  <2>2. docs'[p].subs = X \X {mem[c].chain}
    BY <1>2, <2>1 DEF DocType
  <2> SUFFICES ASSUME NEW u \in docs'[p].subs PROVE Listed(u, p)
    BY <1>1
  <2>3. p = Event(c).of /\ u[1] \in SubNow(p, mem[c].chain) /\ u = <<u[1], mem[c].chain>>
    BY <2>1, <2>2
  <2>4. PICK x \in DOMAIN history : Sub(x, p) /\ Body(x) = u[1] /\ StageOf(x) = mem[c].chain
    BY <2>3, SubNowIs
  <2>5. Reached(mem[c].chain, p)
    BY <1>1, <1>3, <2>3 DEF ListsInv, PairsReached, Paired
  <2> QED
    BY <2>3, <2>4, <2>5 DEF Listed, Entry
<1>4. CASE AdvanceStage(c)
  <2>1. CASE docs' = docs
    BY <1>1, <2>1
  <2>2. CASE docs' # docs
    <3>1. docs' = [docs EXCEPT ![p].stage = Event(c).stage,
                     ![p].subs = mem[c].doc.subs \union (SubNow(p, Event(c).stage) \X {Event(c).stage}),
                     ![p].advances = Append(mem[c].doc.advances, pos[c])]
      BY <1>1, <1>4, <2>2 DEF AdvanceStage
    <3>2. docs'[p].subs = mem[c].doc.subs \union (SubNow(p, Event(c).stage) \X {Event(c).stage})
      BY <1>0, <1>2, <3>1 DEF DocType
    <3> SUFFICES ASSUME NEW u \in docs'[p].subs PROVE Listed(u, p)
      BY <1>1
    <3>3. CASE u \in mem[c].doc.subs
      BY <1>1, <1>4, <3>3 DEF ListsInv, ReadListed, AdvanceStage, Staging
    <3>4. CASE u \in SubNow(p, Event(c).stage) \X {Event(c).stage}
      <4>1. u[1] \in SubNow(p, Event(c).stage) /\ u = <<u[1], Event(c).stage>>
        BY <3>4
      <4>2. PICK x \in DOMAIN history : Sub(x, p) /\ Body(x) = u[1] /\ StageOf(x) = Event(c).stage
        BY <4>1, SubNowIs
      <4>3. pos[c] \in Advs(p) /\ StageOf(pos[c]) = Event(c).stage
        BY <1>1, <1>4, EventType DEF Advs, Mined, StageOf, AdvanceStage, TypeInv, FitsEvent
      <4> QED
        BY <4>1, <4>2, <4>3 DEF Listed, Entry, Reached
    <3> QED
      BY <3>2, <3>3, <3>4
  <2> QED
    BY <2>1, <2>2
<1> QED
  BY <1>0, <1>3, <1>4

LEMMA EntersExecute ==
  ASSUME TypeInv, NEW c \in Crawlers, StepOf(c), pc'[c] = "execute"
  PROVE  /\ FindSubs(c) /\ docs' = docs /\ pos' = pos /\ mem'[c].doc = mem[c].doc
         /\ mem'[c].open = {q \in SubsBefore(c) : docs[q].saved /\ docs[q].executed = 0}
<1>1. FindSubs(c)
  BY EntersStaging DEF Staging, ExecuteSubs, Advance, Goto, Return, TypeInv
<1>2. mem[c] \in MemType /\ mem \in [Crawlers -> MemType]
  BY DEF TypeInv
<1>3. PICK X : /\ X = {q \in SubsBefore(c) : docs[q].saved /\ docs[q].executed = 0}
               /\ Goto(c, "execute", [mem[c] EXCEPT !.open = X])
  BY <1>1 DEF FindSubs
<1>4. mem'[c] = [mem[c] EXCEPT !.open = X]
  BY <1>2, <1>3 DEF Goto
<1> QED
  BY <1>1, <1>2, <1>3, <1>4 DEF FindSubs, Goto, MemType

\* How a proposal comes to be executed.
LEMMA ExecutedChange ==
  ASSUME TypeInv, EmptyInv, StoredOnly, NEW c \in Crawlers, StepOf(c), NEW q \in Ids
  PROVE  \/ docs'[q].executed = docs[q].executed
         \/ /\ Execute(c) /\ Event(c).id = q /\ docs[q].saved /\ docs[q].executed = 0
            /\ docs'[q].executed = pos[c] /\ pos[c] # 0
         \/ /\ ExecuteSubs(c) /\ q \in mem[c].open /\ docs'[q].executed = pos[c] /\ pos[c] # 0
<1>0. docs \in [Ids -> DocType] /\ docs[q] \in DocType
  BY DEF TypeInv
<1>1. CASE Save(c) /\ docs[q].saved
  BY <1>1, SaveFields
<1>2. CASE Save(c) /\ ~docs[q].saved
  <2>1. docs'[q] = docs[q] \/ docs'[q] = Fresh(mem[c].num)
    BY <1>0, <1>2 DEF Save
  <2> QED
    BY <1>2, <2>1 DEF StoredOnly, Fresh
<1>3. CASE Execute(c) /\ Event(c).id = q
  <2>1. pos[c] <= head
    BY <1>3 DEF Execute, Idle
  <2>2. pos[c] # 0
    <3>1. pos[c] \in 1 .. (Len(history) + 1)
      BY DEF TypeInv
    <3> QED
      BY <3>1
  <2>3. CASE Doc(c).saved
    <3>1. docs' = [docs EXCEPT ![q] = [docs[q] EXCEPT !.executed = IF @ = 0 THEN pos[c] ELSE @]]
      BY <1>3, <2>3 DEF Execute, Update, Doc
    <3>2. docs'[q].executed = IF docs[q].executed = 0 THEN pos[c] ELSE docs[q].executed
      BY <1>0, <3>1 DEF DocType
    <3> QED
      BY <1>3, <2>2, <2>3, <3>2 DEF Doc
  <2>4. CASE ~Doc(c).saved
    BY <1>3, <2>4 DEF Execute, Update
  <2> QED
    BY <2>3, <2>4
<1>4. CASE ExecuteSubs(c)
  <2>1. pos[c] # 0
    <3>1. pos[c] \in 1 .. (Len(history) + 1)
      BY DEF TypeInv
    <3> QED
      BY <3>1
  <2>2. docs'[q].executed = IF q \in mem[c].open THEN pos[c] ELSE docs[q].executed
    BY <1>0, <1>4 DEF ExecuteSubs, DocType
  <2> QED
    BY <1>4, <2>1, <2>2
<1>5. CASE ~Save(c) /\ ~(Execute(c) /\ Event(c).id = q) /\ ~ExecuteSubs(c)
  BY <1>5, FieldsKept
<1> QED
  BY <1>1, <1>2, <1>3, <1>4, <1>5

\* How a sub-proposal comes to point to its proposal.
LEMMA ParentChange ==
  ASSUME TypeInv, EmptyInv, StoredOnly, NEW c \in Crawlers, StepOf(c), NEW q \in Ids
  PROVE  \/ docs'[q].parent = docs[q].parent
         \/ /\ Paired(c) \/ ExecuteSubs(c)
            /\ docs[q].saved /\ docs'[q].parent = pos[c] /\ pos[c] # 0 /\ PointsTo(q, pos[c])
<1>0. docs \in [Ids -> DocType] /\ docs[q] \in DocType
  BY DEF TypeInv
<1>1. CASE Save(c) /\ docs[q].saved
  BY <1>1, SaveFields
<1>2. CASE Save(c) /\ ~docs[q].saved
  <2>1. docs'[q] = docs[q] \/ docs'[q] = Fresh(mem[c].num)
    BY <1>0, <1>2 DEF Save
  <2> QED
    BY <1>2, <2>1 DEF StoredOnly, Fresh
<1>3. CASE Paired(c)
  <2>0. pos[c] # 0 /\ Event(c) = history[pos[c]]
    <3>1. pos[c] \in 1 .. (Len(history) + 1)
      BY DEF TypeInv
    <3> QED
      BY <3>1 DEF Event
  <2>1. PICK p, X : /\ p = Event(c).id /\ (X = {} \/ X = SubNow(p, mem[c].chain))
                    /\ docs'[q] = IF q = p THEN [docs[p] EXCEPT !.stage = mem[c].chain, !.subs = X \X {mem[c].chain}]
                                  ELSE IF q \in X /\ docs[q].saved THEN [docs[q] EXCEPT !.parent = pos[c]]
                                  ELSE docs[q]
    <3> DEFINE X0 == IF Event(c).id = Event(c).of THEN SubNow(Event(c).id, mem[c].chain) ELSE {}
    <3>1. docs'[q] = IF q = Event(c).id
                     THEN [docs[Event(c).id] EXCEPT !.stage = mem[c].chain, !.subs = X0 \X {mem[c].chain}]
                     ELSE IF q \in X0 /\ docs[q].saved THEN [docs[q] EXCEPT !.parent = pos[c]]
                     ELSE docs[q]
      BY <1>3 DEF Paired
    <3>2. X0 = {} \/ X0 = SubNow(Event(c).id, mem[c].chain)
      OBVIOUS
    <3> HIDE DEF X0
    <3> QED
      BY <3>1, <3>2
  <2>2. CASE q = p
    BY <1>0, <2>1, <2>2 DEF DocType
  <2>3. CASE q # p /\ q \in X /\ docs[q].saved
    <3>1. docs'[q].parent = pos[c]
      BY <1>0, <2>1, <2>3 DEF DocType
    <3>2. PointsTo(q, pos[c])
      BY <2>0, <2>1, <2>3, SubNowIs DEF PointsTo
    <3> QED
      BY <1>3, <2>0, <2>3, <3>1, <3>2
  <2>4. CASE q # p /\ ~(q \in X /\ docs[q].saved)
    BY <2>1, <2>4
  <2> QED
    BY <2>2, <2>3, <2>4
<1>4. CASE ExecuteSubs(c)
  <2>0. pos[c] # 0 /\ Event(c) = history[pos[c]]
    <3>1. pos[c] \in 1 .. (Len(history) + 1)
      BY DEF TypeInv
    <3> QED
      BY <3>1 DEF Event
  <2>1. PICK X : /\ X = {r \in SubNow(Event(c).id, Event(c).stage) : docs[r].saved}
                 /\ docs'[q] = [docs[q] EXCEPT !.executed = IF q \in mem[c].open THEN pos[c] ELSE @,
                                               !.parent = IF q \in X THEN pos[c] ELSE @]
    BY <1>4 DEF ExecuteSubs
  <2>2. docs'[q].parent = IF q \in X THEN pos[c] ELSE docs[q].parent
    BY <1>0, <2>1 DEF DocType
  <2>3. CASE q \in X
    <3>1. PointsTo(q, pos[c])
      BY <2>0, <2>1, <2>3, SubNowIs DEF PointsTo
    <3> QED
      BY <1>4, <2>0, <2>1, <2>2, <2>3, <3>1
  <2> QED
    BY <2>2, <2>3
<1>5. CASE ~Save(c) /\ ~Paired(c) /\ ~ExecuteSubs(c)
  BY <1>5, FieldsKept
<1> QED
  BY <1>1, <1>2, <1>3, <1>4, <1>5

\* Executed stays executed, and who points to a proposal goes on to.
LEMMA BodyStays ==
  ASSUME TypeInv, EmptyInv, StoredOnly, NEW c \in Crawlers, StepOf(c), NEW q \in Ids
  PROVE  /\ docs[q].executed # 0 => docs'[q].executed # 0
         /\ docs[q].parent # 0 => docs'[q].parent # 0
         /\ docs[q].saved => docs'[q].saved
BY ExecutedChange, ParentChange, SavedStays

LEMMA EntersPaired ==
  ASSUME TypeInv, NEW c \in Crawlers, StepOf(c), pc'[c] = "paired"
  PROVE  Pair(c)
<1>1. ASSUME NEW dropped, Return(c, dropped) PROVE FALSE
  BY <1>1 DEF Return, TypeInv
<1>2. CASE Create(c) \/ HarmonyCreate(c) \/ FindIncrementalId(c) \/ AskTaken(c) \/ Save(c)
  BY <1>1, <1>2 DEF Create, HarmonyCreate, Begin, FindIncrementalId, AskTaken, Save, Goto, TypeInv
<1>3. CASE Report(c) \/ Advance(c) \/ FindSubs(c) \/ ExecuteSubs(c)
  BY <1>1, <1>3 DEF Report, Advance, FindSubs, ExecuteSubs, Goto, TypeInv
<1>4. CASE Edit(c) \/ Execute(c) \/ Cancel(c) \/ Close(c)
  BY <1>1, <1>4 DEF Edit, Execute, Cancel, Close, Update
<1>5. CASE Paired(c) \/ PushResult(c) \/ AdvanceStage(c) \/ HandlerFails(c)
  BY <1>1, <1>5 DEF Paired, PushResult, AdvanceStage, HandlerFails
<1>6. CASE Crash(c) \/ Redeliver(c) \/ Skip(c)
  BY <1>6 DEF Crash, Redeliver, Skip, Goto, TypeInv
<1> QED
  BY <1>2, <1>3, <1>4, <1>5, <1>6 DEF StepOf, Step

LEMMA StepListsInv ==
  ASSUME ListBase, ListsInv, NEW c \in Crawlers, StepOf(c)
  PROVE  ListsInv'
<1>0. TypeInv /\ EmptyInv /\ StoredInv /\ [Next]_vars
  BY DEF ListBase, BaseInv, Next, StepOf
<1>1. /\ UNCHANGED <<history, head>>
      /\ \A d \in Crawlers : d # c => pc'[d] = pc[d] /\ pos'[d] = pos[d] /\ mem'[d] = mem[d]
      /\ \A d \in Crawlers : d # c => Event(d)' = Event(d)
  BY <1>0, StepOthers DEF Others, Event
<1>2. ASSUME NEW p \in Ids, NEW u \in docs'[p].subs PROVE Listed(u, p)'
  <2>1. CASE (AdvanceStage(c) \/ Paired(c)) /\ Event(c).id = p
    BY <1>0, <1>2, <2>1, NewListed, ListedStays DEF ListsInv, DocsListed
  <2>2. CASE ~((AdvanceStage(c) \/ Paired(c)) /\ Event(c).id = p)
    <3>1. docs'[p].subs = docs[p].subs
      BY <1>0, <2>2, FieldsKept, SaveFields
    <3> QED
      BY <1>0, <1>2, <3>1, ListedStays DEF ListsInv, DocsListed
  <2> QED
    BY <2>1, <2>2
<1>3. ASSUME NEW d \in Crawlers, pc'[d] \in Staging, NEW u \in mem'[d].doc.subs, NEW p, p = Event(d)'.id
      PROVE  Listed(u, p)'
  <2>1. Event(d)' = Event(d) /\ p = Event(d).id
    <3>1. CASE d = c
      BY <1>0, <1>1, <1>3, <3>1, GoesOn DEF Staging, Event
    <3> QED
      BY <1>1, <1>3, <3>1
  <2>2. CASE pc[d] \in Staging /\ mem'[d].doc = mem[d].doc
    BY <1>0, <1>3, <2>1, <2>2, ListedStays DEF ListsInv, ReadListed
  <2>3. CASE d = c /\ Advance(c) /\ mem'[c].doc = Doc(c)
    <3>1. p \in Ids /\ Doc(c) = docs[p]
      BY <1>0, <2>1, <2>3, EventType DEF Advance, Idle, Doc
    <3> QED
      BY <1>0, <1>3, <2>3, <3>1, ListedStays DEF ListsInv, DocsListed
  <2> QED
    BY <1>0, <1>1, <1>3, <2>2, <2>3, EntersStaging
<1>4. ASSUME NEW d \in Crawlers, pc'[d] = "execute", NEW q \in mem'[d].open
      PROVE  SubsBefore(d)' = SubsBefore(d) /\ q \in SubsBefore(d) /\ docs'[q].saved
  <2>1. CASE d # c
    <3>1. q \in SubsBefore(d) /\ docs[q].saved
      BY <1>1, <1>4, <2>1 DEF ListsInv, OpenListed
    <3>2. SubsBefore(d)' = SubsBefore(d) /\ q \in Ids
      BY <1>1, <2>1, <3>1 DEF SubsBefore
    <3> QED
      BY <1>0, <3>1, <3>2, SavedStays
  <2>2. CASE d = c
    <3>1. /\ docs' = docs /\ pos' = pos /\ mem'[c].doc = mem[c].doc
          /\ mem'[c].open = {r \in SubsBefore(c) : docs[r].saved /\ docs[r].executed = 0}
      BY <1>0, <1>4, <2>2, EntersExecute
    <3>2. SubsBefore(c)' = SubsBefore(c)
      BY <1>1, <3>1 DEF SubsBefore, Event
    <3> QED
      BY <1>4, <2>2, <3>1, <3>2
  <2> QED
    BY <2>1, <2>2
<1>5. ASSUME NEW q \in Ids, ~docs'[q].saved PROVE docs'[q].executed = 0 /\ docs'[q].parent = 0
  <2>1. ~docs[q].saved /\ docs[q].executed = 0 /\ docs[q].parent = 0 /\ StoredOnly
    BY <1>0, <1>5, SavedStays DEF ListsInv, StoredOnly
  <2>2. ~(ExecuteSubs(c) /\ q \in mem[c].open)
    BY <2>1 DEF ListsInv, OpenListed, ExecuteSubs
  <2> QED
    BY <1>0, <2>1, <2>2, ExecutedChange, ParentChange
<1>6. ASSUME NEW q \in Ids, docs'[q].parent # 0, NEW n, n = docs'[q].parent
      PROVE  PointsTo(q, n)'
  <2>1. PointsTo(q, n)
    <3>1. CASE docs'[q].parent = docs[q].parent
      BY <1>6, <3>1 DEF ListsInv, ParentsListed
    <3> QED
      BY <1>0, <1>6, <3>1, ParentChange DEF ListsInv
  <2> QED
    BY <1>0, <2>1, ListedStays
<1>7. ASSUME NEW d \in Crawlers, pc'[d] = "paired", NEW e, e = Event(d)', e.id = e.of,
             NEW s, s = mem'[d].chain, NEW p, p = e.id
      PROVE  Reached(s, p)'
  <2>1. Event(d)' = Event(d)
    <3>1. CASE d = c
      BY <1>0, <1>1, <1>7, <3>1, GoesOn DEF Event
    <3> QED
      BY <1>1, <3>1
  <2>2. Reached(s, p)
    <3>1. CASE d # c
      BY <1>1, <1>7, <2>1, <3>1 DEF ListsInv, PairsReached
    <3>2. CASE d = c
      <4>1. Pair(c)
        BY <1>0, <1>7, <3>2, EntersPaired
      <4>2. mem'[c].chain = StageNow(p)
        BY <1>0, <1>7, <2>1, <3>2, <4>1 DEF Pair, Goto, TypeInv, Blank
      <4> QED
        BY <1>0, <1>7, <3>2, <4>2, StageReached
    <3> QED
      BY <3>1, <3>2
  <2> QED
    BY <1>0, <2>2, ListedStays
<1>8. DocsListed'
  BY <1>2 DEF DocsListed
<1>9. ReadListed'
  <2> SUFFICES ASSUME NEW d \in Crawlers, pc'[d] \in Staging, NEW u \in mem'[d].doc.subs
               PROVE  Listed(u, Event(d).id)'
    BY DEF ReadListed
  <2>1. PICK p : p = Event(d)'.id
    OBVIOUS
  <2> QED
    BY <1>3, <2>1 DEF Listed, Reached, Sub
<1>10. OpenListed'
  BY <1>4 DEF OpenListed
<1>11. StoredOnly'
  BY <1>5 DEF StoredOnly
<1>12. ParentsListed'
  <2> SUFFICES ASSUME NEW q \in Ids, docs'[q].parent # 0 PROVE PointsTo(q, docs[q].parent)'
    BY DEF ParentsListed
  <2>1. PICK n : n = docs'[q].parent
    OBVIOUS
  <2> QED
    BY <1>6, <2>1 DEF PointsTo
<1>13. PairsReached'
  <2> SUFFICES ASSUME NEW d \in Crawlers, pc'[d] = "paired", Event(d)'.id = Event(d)'.of
               PROVE  Reached(mem[d].chain, Event(d).id)'
    BY DEF PairsReached
  <2>1. PICK e, s, p : e = Event(d)' /\ s = mem'[d].chain /\ p = e.id
    OBVIOUS
  <2> QED
    BY <1>7, <2>1 DEF Reached
<1> QED
  BY <1>8, <1>9, <1>10, <1>11, <1>12, <1>13 DEF ListsInv

LEMMA NextListsInv ==
  ASSUME ListBase, ListsInv, [Next]_vars
  PROVE  ListsInv'
<1>0. TypeInv
  BY DEF ListBase, BaseInv
<1>1. CASE Mine \/ UNCHANGED vars
  <2>1. UNCHANGED <<history, docs, pos, pc, mem>>
    BY <1>1 DEF Mine, vars, given
  <2>2. \A c \in Crawlers : Event(c)' = Event(c) /\ SubsBefore(c)' = SubsBefore(c)
    BY <2>1 DEF Event, SubsBefore
  <2>3. /\ \A p, s : Reached(s, p) => Reached(s, p)'
        /\ \A p, u : Listed(u, p) => Listed(u, p)'
    BY <1>0, ListedStays
  <2>3a. ASSUME NEW q, NEW n, PointsTo(q, n) PROVE PointsTo(q, n)'
    BY <1>0, <2>3a, ListedStays
  <2>4. DocsListed'
    BY <2>1, <2>3 DEF ListsInv, DocsListed
  <2>5. ReadListed'
    <3> SUFFICES ASSUME NEW c \in Crawlers, pc'[c] \in Staging, NEW u \in mem'[c].doc.subs
                 PROVE  Listed(u, Event(c).id)'
      BY DEF ReadListed
    <3>1. PICK p : p = Event(c).id
      OBVIOUS
    <3>2. Listed(u, p)'
      BY <2>1, <2>3, <3>1 DEF ListsInv, ReadListed
    <3> QED
      BY <2>2, <3>1, <3>2 DEF Listed, Reached, Sub
  <2>6. OpenListed' /\ StoredOnly'
    BY <2>1, <2>2 DEF ListsInv, OpenListed, StoredOnly
  <2>7. ParentsListed'
    <3> SUFFICES ASSUME NEW q \in Ids, docs'[q].parent # 0 PROVE PointsTo(q, docs[q].parent)'
      BY DEF ParentsListed
    <3>1. PICK n : n = docs[q].parent
      OBVIOUS
    <3>2. PointsTo(q, n)
      BY <2>1, <3>1 DEF ListsInv, ParentsListed
    <3>3. PointsTo(q, n)'
      BY <2>3a, <3>2
    <3> QED
      BY <2>1, <3>1, <3>3 DEF PointsTo
  <2>8. PairsReached'
    <3> SUFFICES ASSUME NEW c \in Crawlers, pc'[c] = "paired", Event(c)'.id = Event(c)'.of
                 PROVE  Reached(mem[c].chain, Event(c).id)'
      BY DEF PairsReached
    <3>1. PICK s, p : s = mem[c].chain /\ p = Event(c).id
      OBVIOUS
    <3>2. Reached(s, p)'
      BY <2>1, <2>2, <2>3, <3>1 DEF ListsInv, PairsReached
    <3> QED
      BY <2>1, <2>2, <3>1, <3>2 DEF Reached
  <2> QED
    BY <2>4, <2>5, <2>6, <2>7, <2>8 DEF ListsInv
<1>2. ASSUME NEW c \in Crawlers, StepOf(c) PROVE ListsInv'
  BY <1>2, StepListsInv
<1> QED
  BY <1>1, <1>2 DEF Next, StepOf

-----------------------------------------------------------------------------
(* What becomes of a body *)

\* Not both the proposal and its body are spoiled, the body is not given up, and
\* whoever crawls the proposal crawls the body.
Clean(x, p) ==
  ~({Body(x), p} \subseteq spoiled) /\ Body(x) \notin givenUp /\ Together(p, Body(x))

\* A crawler of the body that is behind its creation has found it stored; a body
\* that is listed is executed where an advance of a later stage is stored, and
\* points to the proposal where its own stage began.
BodyOf(x, p) ==
  /\ \A c \in Crawlers : x < pos[c] /\ Body(x) \in address[c] => docs[Body(x)].saved
  /\ Entry(x) \in docs[p].subs =>
       /\ \A n \in Done(p) : StageOf(x) < StageOf(n) => docs[Body(x)].executed # 0
       /\ (StageOf(x) = 0 \/ \E n \in Done(p) : StageOf(n) = StageOf(x)) => docs[Body(x)].parent # 0

\* What a handler that advances the proposal has found, and has done already.
BodyAt(c, x, p) ==
  Event(c).id = p =>
    /\ pc[c] = "stage" /\ Entry(x) \in docs[p].subs /\ StageOf(x) + 1 = Event(c).stage =>
         docs[Body(x)].executed # 0
    /\ /\ pc[c] = "execute" /\ Entry(x) \in docs[p].subs /\ StageOf(x) + 1 = Event(c).stage
       /\ Body(x) \notin mem[c].open
       => docs[Body(x)].executed # 0
    /\ pc[c] = "stage" /\ StageOf(x) = Event(c).stage => docs[Body(x)].parent # 0

BodyInv ==
  \A p \in Ids, x \in DOMAIN history : Sub(x, p) /\ Clean(x, p) =>
    BodyOf(x, p) /\ \A c \in Crawlers : BodyAt(c, x, p)

BodyBase == ListBase /\ AdvanceInv /\ ListsInv

LEMMA SubStays ==
  ASSUME TypeInv, [Next]_vars, NEW p, NEW x
  PROVE  /\ Body(x)' = Body(x) /\ Entry(x)' = Entry(x) /\ (Sub(x, p)' <=> Sub(x, p))
         /\ \A n : StageOf(n)' = StageOf(n)
<1>1. UNCHANGED history
  BY MinedGrows
<1> QED
  BY <1>1 DEF Body, Entry, StageOf, Sub

LEMMA GivenUpGrows ==
  ASSUME NEW c \in Crawlers, StepOf(c)
  PROVE  givenUp \subseteq givenUp'
<1>1. CASE Create(c) \/ HarmonyCreate(c) \/ FindIncrementalId(c) \/ AskTaken(c) \/ Save(c)
  BY <1>1 DEF Create, HarmonyCreate, Begin, FindIncrementalId, AskTaken, Save
<1>2. CASE Pair(c) \/ Paired(c) \/ Edit(c) \/ Execute(c) \/ Cancel(c) \/ Close(c)
  BY <1>2 DEF Pair, Paired, Edit, Execute, Cancel, Close, Update
<1>3. CASE Report(c) \/ PushResult(c) \/ Advance(c) \/ FindSubs(c) \/ ExecuteSubs(c) \/ AdvanceStage(c)
  BY <1>3 DEF Report, PushResult, Advance, FindSubs, ExecuteSubs, AdvanceStage
<1>4. CASE Crash(c) \/ HandlerFails(c) \/ Redeliver(c) \/ Skip(c)
  BY <1>4 DEF Crash, HandlerFails, Redeliver, Skip
<1> QED
  BY <1>1, <1>2, <1>3, <1>4 DEF StepOf, Step

\* What is clean was so before, and is whole.
LEMMA CleanBefore ==
  ASSUME TypeInv, [Next]_vars, NEW p, NEW x, Sub(x, p), Clean(x, p)'
  PROVE  /\ Clean(x, p) /\ Body(x) \notin givenUp'
         /\ Whole(p) /\ Whole(p)' /\ Whole(Body(x))
         /\ \A q : q = Body(x) => Whole(q)'
<1>1. Body(x)' = Body(x)
  BY SubStays
<1>2. spoiled \subseteq spoiled' /\ givenUp \subseteq givenUp'
  <2>1. CASE Mine \/ UNCHANGED vars
    BY <2>1 DEF Mine, vars
  <2>2. ASSUME NEW c \in Crawlers, StepOf(c) PROVE spoiled \subseteq spoiled' /\ givenUp \subseteq givenUp'
    BY <2>2, SpoiledGrows, GivenUpGrows
  <2> QED
    BY <2>1, <2>2 DEF Next, StepOf
<1>3. \A q : Fam(q)' = Fam(q)
  <2>1. UNCHANGED history
    BY MinedGrows
  <2> QED
    BY <2>1 DEF Fam
<1>4. /\ Body(x) \in Fam(p) /\ p \in Fam(p) /\ Body(x) \in Fam(Body(x)) /\ p \in Fam(Body(x))
  BY SubType
<1>5. ~({Body(x), p} \subseteq spoiled') /\ Body(x) \notin givenUp'
  BY <1>1 DEF Clean
<1>6. \A q : Whole(q)' <=> ~(Fam(q) \subseteq spoiled')
  BY <1>3 DEF Whole
<1>7. Together(p, Body(x))
  <2>1. UNCHANGED address
    BY MinedGrows
  <2> QED
    BY <1>1, <2>1 DEF Clean, Together
<1> QED
  BY <1>2, <1>4, <1>5, <1>6, <1>7 DEF Clean, Whole

\* A crawler of the plugin passes a creation that is not cut short, disturbed or
\* given up with its document stored.
LEMMA PassesCreated ==
  ASSUME TypeInv, StoredInv, NEW c \in Crawlers, StepOf(c), pos'[c] > pos[c], Event(c).kind = "Created",
         NEW q \in address[c], q = Event(c).id, Whole(q)', q \notin givenUp'
  PROVE  docs[q].saved
<1>0. pos[c] \in Nat /\ pos \in [Crawlers -> 1 .. (Len(history) + 1)]
  BY HistoryType DEF TypeInv
<1>1. ASSUME NEW place, NEW m, Goto(c, place, m) PROVE FALSE
  BY <1>0, <1>1 DEF Goto
<1>2. ~(Group(pos[c]) \subseteq spoiled')
  <2>1. Fam(q)' = Fam(q)
    BY WholeBefore DEF Next, StepOf
  <2>2. Group(pos[c]) = Fam(q)
    BY GroupFam
  <2> QED
    BY <2>1, <2>2 DEF Whole
<1>3. CASE Create(c)
  BY <1>1, <1>3 DEF Create, Begin, Doc
<1>4. CASE FindIncrementalId(c) \/ Pair(c) \/ Save(c)
  BY <1>1, <1>4 DEF FindIncrementalId, Pair, Save
<1>5. CASE AskTaken(c)
  BY <1>1, <1>5 DEF AskTaken
<1>6. CASE Paired(c)
  BY <1>6 DEF Paired, StoredInv, Later, Doc
<1>7. CASE HarmonyCreate(c) \/ Edit(c) \/ Execute(c) \/ Cancel(c) \/ Close(c) \/ Report(c) \/ Advance(c)
  BY <1>7 DEF HarmonyCreate, Begin, Edit, Execute, Cancel, Close, Report, Advance, Idle
<1>8. CASE PushResult(c) \/ FindSubs(c) \/ ExecuteSubs(c) \/ AdvanceStage(c)
  BY <1>8 DEF PushResult, FindSubs, ExecuteSubs, AdvanceStage, TypeInv, FitsEvent
<1>9. CASE Crash(c) \/ HandlerFails(c)
  BY <1>2, <1>9 DEF Crash, HandlerFails
<1>10. CASE Redeliver(c) \/ Skip(c)
  BY <1>0, <1>10 DEF Redeliver, Skip
<1> QED
  BY <1>3, <1>4, <1>5, <1>6, <1>7, <1>8, <1>9, <1>10 DEF StepOf, Step

\* A crawler that has passed an event now had passed it before, or passes it.
LEMMA Passes ==
  ASSUME TypeInv, NEW c \in Crawlers, StepOf(c), NEW d \in Crawlers, NEW n \in DOMAIN history, n < pos'[d]
  PROVE  n < pos[d] \/ (d = c /\ n = pos[c] /\ pos'[c] > pos[c] /\ Event(c) = history[n])
<1>1. UNCHANGED history /\ \A e \in Crawlers : e # c => pos'[e] = pos[e]
  BY StepOthers DEF Others
<1>2. pos'[c] <= pos[c] \/ pos'[c] = pos[c] + 1
  BY Movement
<1>3. pos[c] \in Nat /\ pos'[c] \in Nat /\ pos[d] \in Nat /\ n \in Nat
  <2>1. TypeInv'
    BY StepTypeInv DEF Next, StepOf
  <2>2. \A k \in 1 .. (Len(history) + 1) : k \in Nat
    BY HistoryType
  <2>3. pos[c] \in 1 .. (Len(history) + 1) /\ pos[d] \in 1 .. (Len(history) + 1)
    BY DEF TypeInv
  <2>4. pos'[c] \in 1 .. (Len(history) + 1)
    BY <1>1, <2>1 DEF TypeInv
  <2> QED
    BY <2>2, <2>3, <2>4, HistoryType
<1> QED
  BY <1>1, <1>2, <1>3 DEF Event

LEMMA InitBodyInv == Init => BodyInv
<1> SUFFICES ASSUME Init, NEW p \in Ids, NEW x \in DOMAIN history, Sub(x, p)
             PROVE  BodyOf(x, p) /\ \A c \in Crawlers : BodyAt(c, x, p)
  BY DEF BodyInv
<1>1. \A c \in Crawlers : pos[c] = 1 /\ pc[c] = "idle"
  BY DEF Init
<1>2. docs[p].subs = {}
  BY DEF Init, NoDoc, Fresh
<1>3. ~(x < 1)
  <2>1. TypeInv
    BY InitTypeInv
  <2>2. x \in 1 .. Len(history) /\ Len(history) \in Nat
    BY <2>1, HistoryType
  <2> QED
    BY <2>2
<1> QED
  BY <1>1, <1>2, <1>3 DEF BodyOf, BodyAt

LEMMA BodyVars ==
  ASSUME TypeInv, NEW c \in Crawlers, StepOf(c), NEW p \in Ids, NEW x, Sub(x, p)
  PROVE  /\ UNCHANGED <<history, address, head>>
         /\ \A d \in Crawlers : d # c => pc'[d] = pc[d] /\ pos'[d] = pos[d] /\ mem'[d] = mem[d]
         /\ \A d \in Crawlers : d # c => Event(d)' = Event(d)
         /\ Body(x) \in Ids /\ Body(x) # p /\ StageOf(x) \in Nat /\ x \in DOMAIN history /\ x \in Nat
         /\ Body(x)' = Body(x) /\ Entry(x)' = Entry(x) /\ Advs(p)' = Advs(p)
         /\ \A n : StageOf(n)' = StageOf(n)
<1>1. /\ UNCHANGED <<history, address, head>>
      /\ \A d \in Crawlers : d # c => pc'[d] = pc[d] /\ pos'[d] = pos[d] /\ mem'[d] = mem[d]
  BY StepOthers DEF Others
<1>2. \A d \in Crawlers : d # c => Event(d)' = Event(d)
  BY <1>1 DEF Event
<1>3. \A kind, q : Mined(kind, q)' = Mined(kind, q)
  BY <1>1 DEF Mined
<1>4. x \in DOMAIN history
  BY DEF Sub
<1> QED
  BY <1>1, <1>2, <1>3, <1>4, SubType DEF Body, Entry, StageOf, Advs

\* Nobody changes what is listed, and stored of the advances, but a handler of
\* the proposal that is at work.
LEMMA ListKept ==
  ASSUME TypeInv, EmptyInv, NEW c \in Crawlers, StepOf(c), NEW p \in Ids,
         ~((AdvanceStage(c) \/ Paired(c)) /\ Event(c).id = p)
  PROVE  docs'[p].subs = docs[p].subs /\ Done(p)' = Done(p)
<1>1. docs'[p].subs = docs[p].subs /\ docs'[p].advances = docs[p].advances
  BY FieldsKept, SaveFields
<1> QED
  BY <1>1 DEF Done, As

LEMMA StepSaved ==
  ASSUME BodyBase, BodyInv, NEW c \in Crawlers, StepOf(c), NEW p \in Ids, NEW x, Sub(x, p), Clean(x, p)',
         NEW d \in Crawlers
  PROVE  x < pos'[d] /\ Body(x) \in address[d] => docs'[Body(x)].saved
<1>0. TypeInv /\ EmptyInv /\ StoredInv /\ StoredOnly /\ [Next]_vars
  BY DEF BodyBase, ListBase, BaseInv, ListsInv, Next, StepOf
<1>1. PICK q \in Ids : q = Body(x) /\ x \in DOMAIN history
  BY <1>0, BodyVars
<1>2. Clean(x, p) /\ q \notin givenUp' /\ Whole(q)'
  BY <1>0, <1>1, CleanBefore
<1>3. BodyOf(x, p)
  BY <1>1, <1>2 DEF BodyInv
<1>4. ASSUME x < pos'[d], q \in address[d] PROVE docs'[q].saved
  <2>1. CASE x < pos[d]
    BY <1>0, <1>1, <1>3, <1>4, <2>1, SavedStays DEF BodyOf
  <2>2. CASE ~(x < pos[d])
    <3>1. d = c /\ x = pos[c] /\ pos'[c] > pos[c] /\ Event(c) = history[x]
      BY <1>0, <1>1, <1>4, <2>2, Passes
    <3>2. Event(c).kind = "Created" /\ q = Event(c).id
      BY <1>1, <3>1 DEF Sub, Body
    <3>3. docs[q].saved
      BY <1>0, <1>2, <1>4, <3>1, <3>2, PassesCreated
    <3> QED
      BY <1>0, <3>3, SavedStays
  <2> QED
    BY <2>1, <2>2
<1> QED
  BY <1>1, <1>4

\* AdvanceStage adds its stage, and the entries of that.
LEMMA AdvanceAdds ==
  ASSUME TypeInv, NEW c \in Crawlers, AdvanceStage(c), NEW p \in Ids, Event(c).id = p,
         AdvancesOf(p), WorkOf(c, p)
  PROVE  /\ pos[c] \in Advs(p) /\ StageOf(pos[c]) = Event(c).stage
         /\ \A n \in Done(p)' : n \in Done(p) \/ n = pos[c]
         /\ pos[c] \in Done(p) => docs' = docs
         /\ \A u \in docs'[p].subs : u \in docs[p].subs \/ u[2] = Event(c).stage
         /\ \A q \in Ids : q # p => docs'[q] = docs[q]
<1>0. /\ docs \in [Ids -> DocType] /\ docs[p] \in DocType /\ pc[c] = "stage"
      /\ pos[c] \in 1 .. head /\ pos[c] \in DOMAIN history
      /\ Event(c) = history[pos[c]] /\ Event(c).kind = "Advanced"
  BY EventType DEF TypeInv, FitsEvent, AdvanceStage
<1>1. mem[c].doc.advances = As(p) /\ mem[c].doc.subs = docs[p].subs
  BY <1>0 DEF WorkOf, Staging
<1>2. Advanced(mem[c].doc, pos[c]) <=> pos[c] \in Done(p)
  BY <1>1 DEF Advanced, Done
<1>3. pos[c] \in Advs(p) /\ StageOf(pos[c]) = Event(c).stage
  BY <1>0 DEF Advs, Mined, StageOf
<1>4. CASE docs' = docs
  BY <1>2, <1>3, <1>4 DEF Done, As
<1>5. CASE docs' # docs
  <2>1. PICK X : /\ X = SubNow(p, Event(c).stage) \X {Event(c).stage}
                 /\ docs' = [docs EXCEPT ![p].stage = Event(c).stage, ![p].subs = docs[p].subs \union X,
                               ![p].advances = Append(As(p), pos[c])]
    BY <1>1, <1>5 DEF AdvanceStage
  <2>2. docs'[p].subs = docs[p].subs \union X /\ docs'[p].advances = Append(As(p), pos[c])
    BY <1>0, <2>1 DEF DocType
  <2>3. \A q \in Ids : q # p => docs'[q] = docs[q]
    BY <1>0, <2>1
  <2>4. As(p) \in Seq(DOMAIN history) /\ Len(As(p)) \in Nat /\ DOMAIN As(p) = 1 .. Len(As(p))
    BY AdvancesType
  <2>5. \A n \in Done(p)' : n \in Done(p) \/ n = pos[c]
    <3>1. PICK as : as = As(p) /\ as \in Seq(DOMAIN history) /\ Len(as) \in Nat /\ DOMAIN as = 1 .. Len(as)
      BY <2>4
    <3>2. PICK b : b = Append(as, pos[c])
      OBVIOUS
    <3>3. DOMAIN b = 1 .. (Len(as) + 1) /\ b[Len(as) + 1] = pos[c] /\ \A i \in DOMAIN as : b[i] = as[i]
      BY <1>0, <3>1, <3>2
    <3>4. \A i \in DOMAIN b : i \in DOMAIN as \/ b[i] = pos[c]
      BY <3>1, <3>3
    <3>5. As(p)' = b
      BY <2>2, <3>1, <3>2 DEF As
    <3>6. Done(p)' = {b[i] : i \in DOMAIN b} /\ Done(p) = {as[i] : i \in DOMAIN as}
      BY <3>1, <3>5 DEF Done
    <3> QED
      BY <3>3, <3>4, <3>6
  <2>6. \A u \in docs'[p].subs : u \in docs[p].subs \/ u[2] = Event(c).stage
    BY <2>1, <2>2
  <2>7. ~Advanced(mem[c].doc, pos[c])
    BY <1>5 DEF AdvanceStage
  <2> QED
    BY <1>2, <1>3, <2>3, <2>5, <2>6, <2>7
<1> QED
  BY <1>4, <1>5

\* What is said of a body that is listed, when an advance is stored,
LEMMA AdvanceBody ==
  ASSUME BodyBase, BodyInv, NEW c \in Crawlers, AdvanceStage(c), NEW p \in Ids, Event(c).id = p,
         NEW x, Sub(x, p), Clean(x, p)', Entry(x) \in docs'[p].subs
  PROVE  /\ \A n \in Done(p)' : StageOf(x) < StageOf(n) => docs'[Body(x)].executed # 0
         /\ (StageOf(x) = 0 \/ \E n \in Done(p)' : StageOf(n) = StageOf(x)) => docs'[Body(x)].parent # 0
<1>0. TypeInv /\ StepOf(c) /\ [Next]_vars /\ pc[c] = "stage"
  BY DEF BodyBase, ListBase, BaseInv, Next, StepOf, Step, AdvanceStage
<1>1. PICK q \in Ids : q = Body(x) /\ q # p /\ x \in DOMAIN history /\ StageOf(x) \in Nat
  BY <1>0, BodyVars
<1>2. Clean(x, p) /\ Whole(p)
  BY <1>0, CleanBefore
<1>3. BodyOf(x, p) /\ BodyAt(c, x, p)
  BY <1>1, <1>2 DEF BodyInv
<1>4. AdvancesOf(p) /\ WorkOf(c, p)
  BY <1>2 DEF BodyBase, AdvanceInv
<1>5. PICK n0, k : n0 = pos[c] /\ k = Event(c).stage
  OBVIOUS
<1>6. /\ n0 \in Advs(p) /\ StageOf(n0) = k
      /\ \A n \in Done(p)' : n \in Done(p) \/ n = n0
      /\ n0 \in Done(p) => docs' = docs
      /\ Entry(x) \in docs[p].subs \/ StageOf(x) = k
      /\ docs'[q] = docs[q]
  BY <1>0, <1>1, <1>4, <1>5, AdvanceAdds DEF Entry
<1>7. k \in Nat /\ n0 \in Nat /\ \A n \in Advs(p) : StageOf(n) \in Nat /\ n \in Nat
  BY <1>0, <1>6, AdvsLegal
<1>8. Done(p) \subseteq Advs(p)
  BY <1>4 DEF AdvancesOf
<1>9. ASSUME NEW n \in Done(p)', StageOf(x) < StageOf(n) PROVE docs[q].executed # 0
  <2>1. CASE Entry(x) \in docs[p].subs
    <3>1. CASE n \in Done(p)
      BY <1>1, <1>3, <1>9, <2>1, <3>1 DEF BodyOf
    <3>2. CASE n = n0 /\ StageOf(x) + 1 = k
      BY <1>0, <1>1, <1>3, <1>5, <2>1, <3>2 DEF BodyAt
    <3>3. CASE n = n0 /\ StageOf(x) + 1 # k
      <4>1. PICK m \in Advs(p) : m < n0 /\ StageOf(m) + 1 = k
        <5>1. k # 1
          BY <1>1, <1>6, <1>9, <3>3
        <5> QED
          BY <1>0, <1>6, <5>1, AdvsLegal
      <4>2. m \in Done(p)
        <5>1. p \in address[c]
          BY <1>0 DEF TypeInv
        <5> QED
          BY <1>4, <1>5, <4>1, <5>1 DEF AdvancesOf
      <4>3. StageOf(x) < StageOf(m)
        <5>1. StageOf(m) \in Nat /\ StageOf(n) = k
          BY <1>6, <1>7, <3>3
        <5> QED
          BY <1>1, <1>7, <1>9, <3>3, <4>1, <5>1
      <4> QED
        BY <1>1, <1>3, <2>1, <4>2, <4>3 DEF BodyOf
    <3> QED
      BY <1>6, <3>1, <3>2, <3>3
  <2>2. CASE Entry(x) \notin docs[p].subs
    <3>1. StageOf(x) = k /\ n \in Done(p) /\ n \in Advs(p)
      BY <1>1, <1>6, <1>8, <1>9, <2>2
    <3>2. n0 < n
      BY <1>0, <1>6, <1>9, <3>1, AdvsLegal
    <3>3. n0 \in Done(p)
      BY <1>4, <1>6, <3>1, <3>2 DEF AdvancesOf
    <3> QED
      BY <1>6, <2>2, <3>3
  <2> QED
    BY <2>1, <2>2
<1>10. ASSUME StageOf(x) = 0 \/ \E n \in Done(p)' : StageOf(n) = StageOf(x) PROVE docs[q].parent # 0
  <2>1. CASE StageOf(x) = k
    BY <1>0, <1>1, <1>3, <1>5, <2>1 DEF BodyAt
  <2>2. CASE StageOf(x) # k
    <3>1. Entry(x) \in docs[p].subs
      BY <1>6, <2>2
    <3>2. StageOf(x) = 0 \/ \E n \in Done(p) : StageOf(n) = StageOf(x)
      BY <1>6, <1>10, <2>2
    <3> QED
      BY <1>1, <1>3, <3>1, <3>2 DEF BodyOf
  <2> QED
    BY <2>1, <2>2
<1> QED
  BY <1>1, <1>6, <1>9, <1>10

\* and when the proposal is paired.
LEMMA PairedBody ==
  ASSUME BodyBase, BodyInv, NEW c \in Crawlers, Paired(c), NEW p \in Ids, Event(c).id = p,
         NEW x, Sub(x, p), Clean(x, p)', Entry(x) \in docs'[p].subs
  PROVE  /\ \A n \in Done(p)' : StageOf(x) < StageOf(n) => docs'[Body(x)].executed # 0
         /\ (StageOf(x) = 0 \/ \E n \in Done(p)' : StageOf(n) = StageOf(x)) => docs'[Body(x)].parent # 0
<1>0. TypeInv /\ EmptyInv /\ StepOf(c) /\ [Next]_vars /\ pc[c] = "paired"
  BY DEF BodyBase, ListBase, BaseInv, Next, StepOf, Step, Paired
<1>1. PICK q \in Ids : q = Body(x) /\ q # p /\ x \in DOMAIN history /\ x \in Nat
  BY <1>0, BodyVars
<1>2. Clean(x, p) /\ Whole(p)
  BY <1>0, CleanBefore
<1>3. BodyOf(x, p)
  BY <1>1, <1>2 DEF BodyInv
<1>4. As(p) = <<>>
  BY <1>0, <1>2 DEF BodyBase, AdvanceInv, WorkOf, Creating
<1>5. Done(p)' = {}
  <2>1. docs'[p].advances = docs[p].advances
    BY <1>0, FieldsKept DEF Paired, AdvanceStage, Save
  <2> QED
    BY <1>4, <2>1 DEF Done, As
<1>6. ASSUME StageOf(x) = 0 PROVE docs'[q].parent # 0
  <2>1. /\ pos[c] \in 1 .. head /\ pos[c] \in DOMAIN history /\ Event(c) = history[pos[c]]
        /\ Event(c).kind \in Creations
    BY <1>0, EventType DEF TypeInv, FitsEvent
  <2>2. x < pos[c]
    BY <1>0, <1>6, <2>1, SubLegal
  <2>3. docs[q].saved
    <3>1. p \in address[c]
      BY <1>0 DEF TypeInv
    <3>2. q \in address[c]
      BY <1>1, <1>2, <3>1 DEF Clean, Together
    <3> QED
      BY <1>1, <1>3, <2>2, <3>2 DEF BodyOf
  <2>4. docs \in [Ids -> DocType] /\ docs[p] \in DocType /\ docs[q] \in DocType
    BY <1>0 DEF TypeInv
  <2>5. PICK X : /\ docs'[p] = [docs[p] EXCEPT !.stage = mem[c].chain, !.subs = X \X {mem[c].chain}]
                 /\ q \in X => docs'[q] = [docs[q] EXCEPT !.parent = pos[c]]
    BY <1>1, <2>3 DEF Paired
  <2>6. docs'[p].subs = X \X {mem[c].chain}
    BY <2>4, <2>5 DEF DocType
  <2>7. q \in X
    BY <1>1, <2>6 DEF Entry
  <2>8. docs'[q].parent = pos[c]
    BY <2>4, <2>5, <2>7 DEF DocType
  <2> QED
    BY <2>1, <2>8
<1> QED
  BY <1>1, <1>5, <1>6

\* How a handler comes to the last step of an advance.
LEMMA EntersStage ==
  ASSUME TypeInv, NEW c \in Crawlers, StepOf(c), pc'[c] = "stage"
  PROVE  ExecuteSubs(c) /\ pc[c] = "execute" /\ pos' = pos
<1>1. (FindSubs(c) \/ ExecuteSubs(c)) \/ Advance(c)
  BY EntersStaging DEF Staging
<1>2. ~FindSubs(c) /\ ~Advance(c)
  BY DEF FindSubs, Advance, Goto, Return, TypeInv
<1> QED
  BY <1>1, <1>2 DEF ExecuteSubs, Goto

\* Only one handler of a whole proposal is at work.
LEMMA OneHandler ==
  ASSUME Solo, NEW p, Whole(p), NEW c \in Crawlers, NEW d \in Crawlers, Event(c).id = p, Event(d).id = p,
         pc[c] # "idle", pc[d] # "idle"
  PROVE  c = d
BY AloneFam DEF Whole

LEMMA OthersAt ==
  ASSUME BodyBase, BodyInv, NEW c \in Crawlers, StepOf(c), NEW d \in Crawlers, d # c,
         NEW p \in Ids, NEW x, Sub(x, p), Clean(x, p)'
  PROVE  BodyAt(d, x, p)'
<1>0. TypeInv /\ EmptyInv /\ Solo /\ StoredOnly /\ [Next]_vars
  BY DEF BodyBase, ListBase, BaseInv, ListsInv, Next, StepOf
<1>1. PICK q \in Ids : q = Body(x) /\ x \in DOMAIN history
  BY <1>0, BodyVars
<1>2. /\ pc'[d] = pc[d] /\ mem'[d] = mem[d] /\ Event(d)' = Event(d)
      /\ Body(x)' = q /\ Entry(x)' = Entry(x) /\ StageOf(x)' = StageOf(x)
  BY <1>0, <1>1, BodyVars
<1>3. Clean(x, p) /\ Whole(p)
  BY <1>0, CleanBefore
<1>4. BodyAt(d, x, p)
  BY <1>1, <1>3 DEF BodyInv
<1>5. /\ docs[q].executed # 0 => docs'[q].executed # 0
      /\ docs[q].parent # 0 => docs'[q].parent # 0
  BY <1>0, BodyStays
<1> SUFFICES ASSUME Event(d).id = p, pc[d] \in {"stage", "execute"}
             PROVE  BodyAt(d, x, p)'
  BY <1>2 DEF BodyAt
<1>6. docs'[p].subs = docs[p].subs
  <2>1. ~((AdvanceStage(c) \/ Paired(c)) /\ Event(c).id = p)
    BY <1>0, <1>3, OneHandler DEF AdvanceStage, Paired
  <2> QED
    BY <1>0, <2>1, ListKept
<1> QED
  BY <1>1, <1>2, <1>4, <1>5, <1>6 DEF BodyAt

LEMMA OwnAt ==
  ASSUME BodyBase, BodyInv, NEW c \in Crawlers, StepOf(c), NEW p \in Ids, NEW x, Sub(x, p), Clean(x, p)'
  PROVE  BodyAt(c, x, p)'
<1>0. TypeInv /\ EmptyInv /\ StoredOnly /\ ListsInv /\ [Next]_vars
  BY DEF BodyBase, ListBase, BaseInv, ListsInv, Next, StepOf
<1>1. PICK q \in Ids : q = Body(x) /\ q # p /\ x \in DOMAIN history /\ x \in Nat
  BY <1>0, BodyVars
<1>2. Body(x)' = q /\ Entry(x)' = Entry(x) /\ StageOf(x)' = StageOf(x) /\ UNCHANGED <<history, head>>
  BY <1>0, <1>1, BodyVars
<1>3. Clean(x, p) /\ Whole(p)
  BY <1>0, CleanBefore
<1>4. BodyOf(x, p) /\ BodyAt(c, x, p) /\ WorkOf(c, p)
  BY <1>1, <1>3 DEF BodyInv, BodyBase, AdvanceInv
<1> SUFFICES ASSUME Event(c)'.id = p, pc'[c] \in {"stage", "execute"}
             PROVE  BodyAt(c, x, p)'
  BY DEF BodyAt
<1>5. Event(c)' = Event(c) /\ Event(c).id = p /\ pos' = pos
  <2>1. pos' = pos
    BY <1>0, GoesOn
  <2> QED
    BY <1>2, <2>1 DEF Event
<1>6. ASSUME pc[c] \in Staging, StageOf(x) <= Event(c).stage
      PROVE  x <= head /\ docs[q].saved
  <2>1. /\ pos[c] \in 1 .. head /\ pos[c] \in DOMAIN history /\ Event(c) = history[pos[c]]
        /\ Event(c).kind = "Advanced" /\ head \in Nat
    BY <1>0, <1>6, EventType, HistoryType DEF TypeInv, FitsEvent, Staging
  <2>2. x < pos[c]
    <3>1. StageOf(x) \in Nat /\ Event(c).stage \in Nat
      BY <1>0, <1>6, SubType, EventType DEF Staging
    <3> QED
      BY <1>0, <1>5, <1>6, <2>1, <3>1, SubLegal
  <2>3. q \in address[c]
    <3>1. p \in address[c]
      BY <1>0, <1>5, <1>6 DEF TypeInv, Staging
    <3> QED
      BY <1>1, <1>3, <3>1 DEF Clean, Together
  <2> QED
    BY <1>1, <1>4, <2>1, <2>2, <2>3 DEF BodyOf
<1>7. CASE pc'[c] = "execute"
  <2>1. /\ FindSubs(c) /\ docs' = docs
        /\ mem'[c].open = {r \in SubsBefore(c) : docs[r].saved /\ docs[r].executed = 0}
    BY <1>0, <1>7, EntersExecute
  <2>2. pc[c] \in Staging /\ mem[c].doc.subs = docs[p].subs
    BY <1>4, <1>5, <2>1 DEF FindSubs, Staging, WorkOf
  <2>3. ASSUME Entry(x) \in docs[p].subs, StageOf(x) + 1 = Event(c).stage, q \notin mem'[c].open
        PROVE  docs[q].executed # 0
    <3>1. StageOf(x) \in Nat /\ Event(c).stage \in Nat
      BY <1>0, <2>2, SubType, EventType DEF Staging
    <3>2. docs[q].saved
      BY <1>6, <2>2, <2>3, <3>1
    <3>3. StageOf(x) = Event(c).stage - 1
      BY <2>3, <3>1
    <3>4. q \in SubsBefore(c)
      BY <1>1, <2>2, <2>3, <3>3 DEF SubsBefore, Entry
    <3> QED
      BY <2>1, <2>3, <3>2, <3>4
  <2> QED
    BY <1>2, <1>5, <1>7, <2>1, <2>3 DEF BodyAt
<1>8. CASE pc'[c] = "stage"
  <2>1. ExecuteSubs(c) /\ pc[c] = "execute"
    BY <1>0, <1>8, EntersStage
  <2>2. docs'[p].subs = docs[p].subs
    BY <1>0, <2>1, ListKept DEF AdvanceStage, Paired
  <2>3. docs \in [Ids -> DocType] /\ docs[q] \in DocType /\ pos[c] # 0
    <3>1. pos[c] \in 1 .. (Len(history) + 1)
      BY <1>0 DEF TypeInv
    <3> QED
      BY <1>0, <3>1 DEF TypeInv
  <2>4. ASSUME Entry(x) \in docs[p].subs, StageOf(x) + 1 = Event(c).stage
        PROVE  docs'[q].executed # 0
    <3>1. CASE q \in mem[c].open
      <4>1. docs'[q].executed = pos[c]
        BY <2>1, <2>3, <3>1 DEF ExecuteSubs, DocType
      <4> QED
        BY <2>3, <4>1
    <3>2. CASE q \notin mem[c].open
      <4>1. docs[q].executed # 0
        BY <1>1, <1>4, <1>5, <2>1, <2>4, <3>2 DEF BodyAt
      <4> QED
        BY <1>0, <4>1, BodyStays
    <3> QED
      BY <3>1, <3>2
  <2>5. ASSUME StageOf(x) = Event(c).stage
        PROVE  docs'[q].parent # 0
    <3>1. StageOf(x) \in Nat
      BY <1>0, SubType
    <3>2. x <= head /\ docs[q].saved
      BY <1>6, <2>1, <2>5, <3>1 DEF Staging
    <3>3. q \in SubNow(p, Event(c).stage)
      BY <1>0, <1>1, <2>5, <3>2, SubNowIs
    <3>4. PICK X : /\ X = {r \in SubNow(p, Event(c).stage) : docs[r].saved}
                   /\ docs'[q] = [docs[q] EXCEPT !.executed = IF q \in mem[c].open THEN pos[c] ELSE @,
                                                 !.parent = IF q \in X THEN pos[c] ELSE @]
      BY <1>5, <2>1 DEF ExecuteSubs
    <3>5. docs'[q].parent = pos[c]
      BY <2>3, <3>2, <3>3, <3>4 DEF DocType
    <3> QED
      BY <2>3, <3>5
  <2> QED
    BY <1>2, <1>5, <1>8, <2>2, <2>4, <2>5 DEF BodyAt
<1> QED
  BY <1>7, <1>8

LEMMA StepBody ==
  ASSUME BodyBase, BodyInv, NEW c \in Crawlers, StepOf(c), NEW p \in Ids, NEW x, Sub(x, p), Clean(x, p)'
  PROVE  BodyOf(x, p)' /\ \A d \in Crawlers : BodyAt(d, x, p)'
<1>0. TypeInv /\ EmptyInv /\ StoredOnly /\ [Next]_vars
  BY DEF BodyBase, ListBase, BaseInv, ListsInv, Next, StepOf
<1>1. PICK q \in Ids : q = Body(x) /\ x \in DOMAIN history
  BY <1>0, BodyVars
<1>2. /\ Body(x)' = q /\ Entry(x)' = Entry(x) /\ UNCHANGED address
      /\ \A n : StageOf(n)' = StageOf(n)
  BY <1>0, <1>1, BodyVars
<1>3. \A d \in Crawlers : BodyAt(d, x, p)'
  BY OthersAt, OwnAt
<1>4. \A d \in Crawlers : x < pos'[d] /\ q \in address[d] => docs'[q].saved
  BY <1>1, StepSaved
<1>5. ASSUME Entry(x) \in docs'[p].subs
      PROVE  /\ \A n \in Done(p)' : StageOf(x) < StageOf(n) => docs'[q].executed # 0
             /\ (StageOf(x) = 0 \/ \E n \in Done(p)' : StageOf(n) = StageOf(x)) => docs'[q].parent # 0
  <2>1. CASE (AdvanceStage(c) \/ Paired(c)) /\ Event(c).id = p
    BY <1>1, <1>5, <2>1, AdvanceBody, PairedBody
  <2>2. CASE ~((AdvanceStage(c) \/ Paired(c)) /\ Event(c).id = p)
    <3>1. docs'[p].subs = docs[p].subs /\ Done(p)' = Done(p)
      BY <1>0, <2>2, ListKept
    <3>2. BodyOf(x, p)
      <4>1. Clean(x, p)
        BY <1>0, CleanBefore
      <4> QED
        BY <1>1, <4>1 DEF BodyInv
    <3>3. /\ docs[q].executed # 0 => docs'[q].executed # 0
          /\ docs[q].parent # 0 => docs'[q].parent # 0
      BY <1>0, BodyStays
    <3> QED
      BY <1>1, <1>5, <3>1, <3>2, <3>3 DEF BodyOf
  <2> QED
    BY <2>1, <2>2
<1>6. BodyOf(x, p)'
  BY <1>2, <1>4, <1>5 DEF BodyOf
<1> QED
  BY <1>3, <1>6

LEMMA StepBodyInv ==
  ASSUME BodyBase, BodyInv, [Next]_vars
  PROVE  BodyInv'
<1>0. TypeInv
  BY DEF BodyBase, ListBase, BaseInv
<1>1. UNCHANGED history /\ \A p, x : Sub(x, p)' <=> Sub(x, p)
  <2>1. UNCHANGED history
    BY <1>0, MinedGrows
  <2> QED
    BY <2>1 DEF Sub
<1>2. CASE Mine \/ UNCHANGED vars
  <2>1. UNCHANGED <<history, address, docs, pos, pc, mem, spoiled, givenUp>>
    BY <1>2 DEF Mine, vars, given
  <2> SUFFICES ASSUME NEW p \in Ids, NEW x \in DOMAIN history, Sub(x, p), Clean(x, p)'
               PROVE  BodyOf(x, p)' /\ \A c \in Crawlers : BodyAt(c, x, p)'
    BY <1>1 DEF BodyInv
  <2>2. PICK q : q = Body(x)
    OBVIOUS
  <2>3. /\ Body(x)' = q /\ Entry(x)' = Entry(x) /\ \A n : StageOf(n)' = StageOf(n)
        /\ \A c \in Crawlers : Event(c)' = Event(c)
    BY <2>1, <2>2 DEF Body, Entry, StageOf, Event
  <2>4. BodyOf(x, p) /\ \A c \in Crawlers : BodyAt(c, x, p)
    BY <1>0, CleanBefore DEF BodyInv
  <2>5. \A c \in Crawlers : BodyAt(c, x, p)'
    BY <2>1, <2>2, <2>3, <2>4 DEF BodyAt
  <2>6. Done(p)' = Done(p)
    BY <2>1 DEF Done, As
  <2>7. BodyOf(x, p)'
    BY <2>1, <2>2, <2>3, <2>4, <2>6 DEF BodyOf
  <2> QED
    BY <2>5, <2>7
<1>3. ASSUME NEW c \in Crawlers, StepOf(c) PROVE BodyInv'
  BY <1>1, <1>3, StepBody DEF BodyInv
<1> QED
  BY <1>2, <1>3 DEF Next, StepOf

\* At rest all advances are stored.
LEMMA RestDone ==
  ASSUME TypeInv, AtRest, NEW p, AdvancesOf(p)
  PROVE  Done(p) = Advs(p)
<1>1. head \in Nat /\ \A n \in Advs(p) : n \in DOMAIN history /\ history[n].id = p /\ n <= head /\ n \in Nat
  <2>1. \A n \in Mined("Advanced", p) : n \in DOMAIN history /\ n \in Nat /\ n <= head
    BY MinedType
  <2> QED
    BY <2>1, HistoryType DEF Advs, Mined
<1>2. ASSUME NEW n \in Advs(p) PROVE n \in Done(p)
  <2>1. PICK c \in Crawlers : p \in address[c] /\ pos[c] = head + 1
    BY <1>1, Crawled DEF AtRest, Crawls
  <2>2. n < pos[c]
    BY <1>1, <2>1
  <2> QED
    BY <2>1, <2>2 DEF AdvancesOf
<1> QED
  BY <1>2 DEF AdvancesOf

LEMMA BodyInvFollows == BodyBase /\ BodyInv => SubsFollow
<1> SUFFICES ASSUME BodyBase, BodyInv, AtRest, NEW p \in Ids \ spoiled, NEW u \in docs[p].subs,
                    u[1] \notin givenUp, Together(p, u[1])
             PROVE  /\ u[2] < docs[p].stage => docs[u[1]].executed # 0
                    /\ docs[u[1]].parent # 0 /\ history[docs[u[1]].parent].id = p
  BY DEF SubsFollow
<1>0. TypeInv /\ ListsInv
  BY DEF BodyBase, ListBase, BaseInv
<1>1. Reached(u[2], p) /\ \E x \in DOMAIN history : Sub(x, p) /\ u = Entry(x)
  BY <1>0 DEF ListsInv, DocsListed, Listed
<1>2. PICK x \in DOMAIN history : Sub(x, p) /\ u = Entry(x)
  BY <1>1
<1>3. PICK q \in Ids : q = Body(x) /\ q = u[1] /\ u[2] = StageOf(x) /\ StageOf(x) \in Nat
  BY <1>0, <1>2, SubType DEF Entry
<1>4. BodyOf(x, p)
  BY <1>2, <1>3 DEF BodyInv, Clean
<1>5. AdvancesOf(p)
  BY DEF BodyBase, AdvanceInv, Whole, Fam
<1>6. Done(p) = Advs(p)
  BY <1>0, <1>5, RestDone
<1>7. ASSUME u[2] < docs[p].stage PROVE docs[q].executed # 0
  <2>1. Done(p) # {}
    BY <1>3, <1>5, <1>7 DEF AdvancesOf
  <2>2. PICK m \in Done(p) : \A n \in Done(p) : n <= m
    <3>1. head \in Nat /\ Done(p) \in SUBSET (1 .. head)
      BY <1>0, <1>6, MinedType DEF Advs
    <3> QED
      BY <2>1, <3>1, LatestMax
  <2>3. docs[p].stage = StageOf(m)
    BY <1>5, <2>2 DEF AdvancesOf, StageOf
  <2> QED
    BY <1>2, <1>3, <1>4, <1>7, <2>3 DEF BodyOf
<1>8. docs[q].parent # 0
  BY <1>1, <1>2, <1>3, <1>4, <1>6 DEF BodyOf, Reached
<1>9. history[docs[q].parent].id = p
  <2>1. PICK y \in DOMAIN history : Sub(y, history[docs[q].parent].id) /\ Body(y) = q
    BY <1>0, <1>8 DEF ListsInv, ParentsListed, PointsTo
  <2> QED
    BY <1>0, <1>2, <1>3, <2>1, OneSub
<1> QED
  BY <1>3, <1>7, <1>8, <1>9

LEMMA StepBodyBase ==
  ASSUME BodyBase, [Next]_vars
  PROVE  BodyBase'
BY StepListBase, StepAdvanceInv, NextListsInv DEF BodyBase

LEMMA InitBodyBase == Init => BodyBase
BY InitListBase, InitAdvanceInv, InitListsInv DEF BodyBase

\* A body is executed and points to its proposal before the proposal goes on to
\* list it for a stage behind: who stores an advance has found those of the
\* stage before stored, and, since it crawls the body too, has the creation of
\* a body behind it when it comes to its stage.
THEOREM SubsAlwaysFollow == Spec => []SubsFollow
<1>1. Init => BodyBase /\ BodyInv
  BY InitBodyBase, InitBodyInv
<1>2. BodyBase /\ BodyInv /\ [Next]_vars => BodyBase' /\ BodyInv'
  BY StepBodyBase, StepBodyInv
<1> QED
  BY <1>1, <1>2, BodyInvFollows, PTL DEF Spec

-----------------------------------------------------------------------------
(* Executions *)

\* What a handler is about to execute is not executed: who executes it in
\* between has spoiled it.
OpenInv ==
  \A c \in Crawlers : pc[c] = "execute" => \A q \in mem[c].open : q \in spoiled \/ docs[q].executed = 0

\* It is a sub-proposal of the handler's proposal.
LEMMA OpenSub ==
  ASSUME ListsInv, NEW c \in Crawlers, pc[c] = "execute", NEW q \in mem[c].open
  PROVE  \E x : Sub(x, Event(c).id) /\ Body(x) = q
<1>1. <<q, Event(c).stage - 1>> \in mem[c].doc.subs
  BY DEF ListsInv, OpenListed, SubsBefore
<1>2. PICK u : u = <<q, Event(c).stage - 1>> /\ Listed(u, Event(c).id)
  BY <1>1 DEF ListsInv, ReadListed, Staging
<1> QED
  BY <1>2 DEF Listed, Entry

LEMMA StepOpenInv ==
  ASSUME BodyBase, OpenInv, NEW c \in Crawlers, StepOf(c)
  PROVE  OpenInv'
<1>0. TypeInv /\ EmptyInv /\ Solo /\ StoredOnly /\ ListsInv /\ spoiled \subseteq spoiled'
  BY SpoiledGrows DEF BodyBase, ListBase, BaseInv, ListsInv
<1> SUFFICES ASSUME NEW d \in Crawlers, pc'[d] = "execute", NEW q \in mem'[d].open, q \notin spoiled'
             PROVE  docs'[q].executed = 0
  BY DEF OpenInv
<1>1. CASE d = c
  <2>1. docs' = docs /\ mem'[c].open = {r \in SubsBefore(c) : docs[r].saved /\ docs[r].executed = 0}
    BY <1>0, <1>1, EntersExecute
  <2>2. docs[q].executed = 0
    BY <1>1, <2>1
  <2> QED
    BY <2>1, <2>2
<1>2. CASE d # c
  <2>1. pc[d] = "execute" /\ q \in mem[d].open
    BY <1>0, <1>2, StepOthers DEF Others
  <2>2. docs[q].executed = 0
    BY <1>0, <2>1 DEF OpenInv
  <2>3. PICK x : Sub(x, Event(d).id) /\ Body(x) = q
    BY <1>0, <2>1, OpenSub
  <2>4. q \in Ids /\ q \in Fam(Event(d).id)
    BY <1>0, <2>3, SubType
  <2>5. ASSUME Execute(c), Event(c).id = q, docs[q].saved PROVE FALSE
    <3>1. q \in BeingExecuted(c)
      BY <2>1, <2>5 DEF BeingExecuted
    <3>2. spoiled' = spoiled \union BeingExecuted(c)
      BY <2>5 DEF Execute, Update, Doc
    <3> QED
      BY <3>1, <3>2
  <2>6. ASSUME ExecuteSubs(c), q \in mem[c].open PROVE FALSE
    <3>1. pc[c] = "execute"
      BY <2>6 DEF ExecuteSubs
    <3>2. PICK y : Sub(y, Event(c).id) /\ Body(y) = q
      BY <1>0, <2>6, <3>1, OpenSub
    <3>3. Event(c).id = Event(d).id
      BY <1>0, <2>3, <3>2, OneSub
    <3>4. q \in spoiled
      BY <1>0, <1>2, <2>1, <2>4, <3>1, <3>3, AloneFam
    <3> QED
      BY <1>0, <3>4
  <2> QED
    BY <1>0, <2>2, <2>4, <2>5, <2>6, ExecutedChange
<1> QED
  BY <1>1, <1>2

LEMMA NextOpenInv ==
  ASSUME BodyBase, OpenInv, [Next]_vars
  PROVE  OpenInv'
<1>1. CASE Mine \/ UNCHANGED vars
  BY <1>1 DEF Mine, vars, OpenInv
<1> QED
  BY <1>1, StepOpenInv DEF Next, StepOf

\* A handler that comes to execute what it has looked up finds it so still.
LEMMA OpenInvKeeps == BodyBase /\ OpenInv /\ [Next]_vars =>
  \A p \in Ids \ spoiled' : docs[p].executed # 0 => docs'[p].executed = docs[p].executed
<1> SUFFICES ASSUME BodyBase, OpenInv, [Next]_vars, NEW q \in Ids \ spoiled', docs[q].executed # 0
             PROVE  docs'[q].executed = docs[q].executed
  OBVIOUS
<1>0. TypeInv /\ EmptyInv /\ StoredOnly
  BY DEF BodyBase, ListBase, BaseInv, ListsInv
<1>1. CASE Mine \/ UNCHANGED vars
  BY <1>1 DEF Mine, vars
<1>2. ASSUME NEW c \in Crawlers, StepOf(c) PROVE docs'[q].executed = docs[q].executed
  <2>1. ~(ExecuteSubs(c) /\ q \in mem[c].open)
    BY <1>2, SpoiledGrows DEF OpenInv, ExecuteSubs
  <2> QED
    BY <1>0, <1>2, <2>1, ExecutedChange
<1> QED
  BY <1>1, <1>2 DEF Next, StepOf

\* No second execution: a handler executes only bodies that are not executed,
\* and between its look at them and that nobody else does without spoiling them.
THEOREM ExecutionsStay == Spec => ExecutionStays
<1>1. Init => BodyBase /\ OpenInv
  BY InitBodyBase DEF Init, OpenInv
<1>2. BodyBase /\ OpenInv /\ [Next]_vars => BodyBase' /\ OpenInv'
  BY StepBodyBase, NextOpenInv
<1>3. BodyBase /\ OpenInv /\ [Next]_vars =>
        [\A p \in Ids \ spoiled' : docs[p].executed # 0 => docs'[p].executed = docs[p].executed]_vars
  BY OpenInvKeeps
<1> QED
  BY <1>1, <1>2, <1>3, PTL DEF Spec, ExecutionStays
=============================================================================
