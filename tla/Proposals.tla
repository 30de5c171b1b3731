------------------------------- MODULE Proposals -------------------------------
(***************************************************************************)
(* The Proposal documents, as proposalHandler.ts makes and changes them from *)
(* the events of a staged plugin (SPP), of the plugins of its stages, and of *)
(* a Harmony voting plugin: creation with its incremental id, the pairing of *)
(* a proposal with the sub-proposals of its stages, edits, results, stages,  *)
(* cancellation, execution and closing. Votes are in module Votes.           *)
(*                                                                          *)
(* Each crawler gives the events of the plugins it is started for (a poller  *)
(* those of all, a sync job those of one) to the handlers in the order of    *)
(* the chain, and again from an earlier one on; the chain grows meanwhile,   *)
(* and some handlers ask it for what holds now. An event is named by its     *)
(* place in the history. The title, the actions and the metadata of a        *)
(* proposal are the event they come from.                                    *)
(***************************************************************************)
EXTENDS Integers, Sequences, FiniteSets

CONSTANTS
  Ids,          \* the proposals
  Histories,    \* what the chain may come to hold: sequences of events
  Crawlers,
  Addresses,    \* what the crawlers may be started for: [Crawlers -> sets of
                \* proposals], the proposals of the plugins of a crawler
  FaultKinds,   \* of "crash", "fail" (a call in a handler), "redeliver"
  MaxFaults     \* bound: how many faults

Kinds == {"Created", "HarmonyCreated", "Edited", "Executed", "Canceled", "Advanced",
          "Reported", "Closed"}
Creations == {"Created", "HarmonyCreated"}

\* "of" is the proposal a created one is a sub-proposal of, or itself; "stage"
\* is the stage of a sub-proposal, the new stage, or the stage of a result.
Events == [kind : Kinds, id : Ids, of : Ids, stage : Nat, block : Nat]

\* The plugins' contracts: a proposal is created once, before all else that is
\* about it; its stages follow one another from 1 on; the sub-proposals of a
\* stage are made before it begins, those of stage 0 before the proposal.
Legal(h) ==
  \A i, j \in DOMAIN h :
    /\ i < j => h[i].block <= h[j].block
    /\ h[i].kind \in Creations /\ h[j].kind \in Creations /\ h[i].id = h[j].id => i = j
    /\ h[i].kind \notin Creations =>
         \E n \in DOMAIN h : n < i /\ h[n].kind \in Creations /\ h[n].id = h[i].id
    /\ h[i].kind = "Advanced" =>
         \/ h[i].stage = 1
         \/ \E n \in DOMAIN h : /\ n < i /\ h[n].kind = "Advanced" /\ h[n].id = h[i].id
                               /\ h[n].stage + 1 = h[i].stage
    /\ h[i].kind = "Advanced" /\ h[j].kind = "Advanced" /\ h[i].id = h[j].id =>
         (i < j <=> h[i].stage < h[j].stage)
    /\ h[i].kind = "Created" /\ h[i].id # h[i].of /\ h[j].id = h[i].of =>
         /\ h[j].kind = "Advanced" /\ h[j].stage >= h[i].stage => i < j
         /\ h[j].kind \in Creations /\ h[i].stage = 0 => i < j

\* Creations of one plugin. A stage of a staged plugin has bodies of its own.
SamePlugin(e, f) ==
  /\ e.kind \in Creations /\ e.kind = f.kind /\ (e.id = e.of) = (f.id = f.of)
  /\ e.id # e.of => e.stage = f.stage

\* A crawler is given all proposals of a plugin or none, and every plugin has a
\* crawler.
Covered(h, address) ==
  \A i, j \in DOMAIN h :
    /\ \E c \in Crawlers : h[i].id \in address[c]
    /\ SamePlugin(h[i], h[j]) => \A c \in Crawlers : h[i].id \in address[c] <=> h[j].id \in address[c]

ASSUME ProposalConstants ==
  /\ Histories \subseteq Seq(Events) /\ \A h \in Histories : Legal(h)
  /\ Crawlers # {} /\ Addresses \subseteq [Crawlers -> SUBSET Ids]
  /\ FaultKinds \subseteq {"crash", "fail", "redeliver"} /\ MaxFaults \in Nat

VARIABLES
  history,   \* the events of the chain, those still to come included
  first,     \* what getProposal calls the first stage
  address,   \* the proposals of the plugins each crawler is started for
  head,      \* how many of the events are mined
  docs,      \* the Proposal document of each proposal
  pos,       \* the event each crawler gives to its handler next
  pc,        \* where the handler is
  mem,       \* what the handler keeps: the incremental id it has computed, the
             \* document it has read, a stage or a result of the chain, and
             \* the sub-proposals it is about to execute
  failed,    \* events whose handler last failed or found no proposal
  spoiled,   \* proposals one of whose handlers ever failed, or met another's
  raced,     \* two creations have been computing incremental ids at once
  givenUp,   \* proposals that were ever given up because their number was taken
  faults

given == <<history, first, address>>
vars == <<given, head, docs, pos, pc, mem, failed, spoiled, raced, givenUp, faults>>

\* A document. Edit, execution and cancellation are the event they come from,
\* or 0; subs the sub-proposals with their stages; advances the events whose
\* stage execution is stored, and results the events with the result of each.
Fresh(n) == [saved |-> TRUE, num |-> n, content |-> 0, stage |-> 0, subs |-> {},
             advances |-> <<>>, results |-> <<>>, executed |-> 0, canceled |-> 0,
             parent |-> 0, closed |-> FALSE]
NoDoc == [Fresh(0) EXCEPT !.saved = FALSE]

Blank == [num |-> 0, doc |-> NoDoc, chain |-> 0, open |-> {}]

Places == {"idle", "number", "taken", "save", "pair", "paired", "push", "subs", "execute", "stage"}

Init ==
  /\ history \in Histories /\ head = 0
  /\ first \in IF \E n \in DOMAIN history : history[n].kind = "Advanced" THEN {0, 1} ELSE {0}
  /\ address \in {a \in Addresses : Covered(history, a)}
  /\ docs = [p \in Ids |-> NoDoc]
  /\ pos = [c \in Crawlers |-> 1] /\ pc = [c \in Crawlers |-> "idle"]
  /\ mem = [c \in Crawlers |-> Blank]
  /\ failed = {} /\ spoiled = {} /\ raced = FALSE /\ givenUp = {} /\ faults = 0

-----------------------------------------------------------------------------
(* The chain *)

\* A block is mined, with all its events.
Mine ==
  /\ head < Len(history)
  /\ head' = CHOOSE n \in (head + 1) .. Len(history) :
       /\ history[n].block = history[head + 1].block
       /\ n = Len(history) \/ history[n + 1].block # history[n].block
  /\ UNCHANGED <<given, docs, pos, pc, mem, failed, spoiled, faults, raced, givenUp>>

Mined(kind, p) == {n \in 1 .. head : history[n].kind = kind /\ history[n].id = p}

Latest(S) == CHOOSE n \in S \union {0} : \A m \in S : m <= n

\* getProposal().currentStage. The events count the stages from 0; whether this
\* does, the code cannot tell.
CurrentStage(p) ==
  first + (LET a == Latest(Mined("Advanced", p)) IN IF a = 0 THEN 0 ELSE history[a].stage)

\* Pairing takes it to count from 1.
StageNow(p) == IF CurrentStage(p) = 0 THEN 0 ELSE CurrentStage(p) - 1

\* getBodyProposalId: the sub-proposal of a stage.
SubNow(p, s) ==
  {history[n].id : n \in {x \in 1 .. head : /\ history[x].kind = "Created" /\ history[x].of = p
                                            /\ history[x].id # p /\ history[x].stage = s}}

\* getBodyResult: each report of a body replaces its last one.
ResultNow(p, s) == Latest({n \in Mined("Reported", p) : history[n].stage = s})

-----------------------------------------------------------------------------
(* The handler at work for a crawler *)

Event(c) == history[pos[c]]
Doc(c) == docs[Event(c).id]

\* The next log of the crawler's plugins is an event of one of the kinds.
Idle(c, kinds) ==
  pc[c] = "idle" /\ pos[c] <= head /\ Event(c).id \in address[c] /\ Event(c).kind \in kinds

\* The logs are asked for by address: a crawler passes over those of the
\* plugins it is not started for.
Skip(c) ==
  /\ pc[c] = "idle" /\ pos[c] <= head /\ Event(c).id \notin address[c]
  /\ pos' = [pos EXCEPT ![c] = @ + 1]
  /\ UNCHANGED <<given, head, docs, pc, mem, failed, spoiled, faults, raced, givenUp>>

\* The handler goes on, with what it keeps in mind.
Goto(c, place, m) ==
  /\ pc' = [pc EXCEPT ![c] = place]
  /\ mem' = [mem EXCEPT ![c] = m]
  /\ UNCHANGED <<pos, failed>>

\* The handler returns; "dropped" if it did nothing of what the event asks for.
Return(c, dropped) ==
  /\ pc' = [pc EXCEPT ![c] = "idle"] /\ mem' = [mem EXCEPT ![c] = Blank]
  /\ pos' = [pos EXCEPT ![c] = @ + 1]
  /\ failed' = IF dropped THEN failed \union {pos[c]} ELSE failed \ {pos[c]}

\* The proposals a handler is at work on: those of a stage go with it.
Group(n) ==
  {history[n].id} \union
  {q \in Ids : \E x \in DOMAIN history : /\ history[x].kind = "Created"
                                         /\ {q, history[n].id} = {history[x].id, history[x].of}}

Overlap(c) ==
  spoiled' = IF \E d \in Crawlers \ {c} : pc[d] # "idle" /\ Group(pos[d]) \intersect Group(pos[c]) # {}
             THEN spoiled \union Group(pos[c]) ELSE spoiled

-----------------------------------------------------------------------------
(* Creation *)

\* The creations of the plugin whose creation event n is.
Siblings(n) == {x \in 1 .. head : SamePlugin(history[x], history[n])}

\* findLastSavedProposal: of an earlier block, with the highest incremental id.
LastSaved(n) ==
  LET S == {x \in Siblings(n) : docs[history[x].id].saved /\ history[x].block < history[n].block}
  IN {x \in S : \A y \in S : docs[history[y].id].num <= docs[history[x].id].num}

\* Mutant: the logs are read from the block behind.
BeforeBehind(x, n) == {y \in Siblings(n) : y < n /\ (x = 0 \/ history[y].block > history[x].block)}

\* The creations of the plugin in the logs from the block of x on, before n.
Before(x, n) == {y \in Siblings(n) : y < n /\ (x = 0 \/ history[y].block >= history[x].block)}

\* A creation begins where its document is not stored yet; what it is built of
\* stays the event.
Begin(c, kind, place, m) ==
  /\ Idle(c, {kind})
  /\ \/ /\ Doc(c).saved
        /\ Return(c, FALSE) /\ UNCHANGED <<spoiled, raced>>
     \/ /\ ~Doc(c).saved
        /\ Goto(c, place, m) /\ Overlap(c)
        /\ raced' = (raced \/ \E d \in Crawlers : pc[d] \in {"number", "taken", "save"})
  /\ UNCHANGED <<given, head, docs, faults, givenUp>>

\* proposalCreated. The ids of these plugins are hashes.
Create(c) == Begin(c, "Created", "number", Blank)

\* harmonyProposalCreated: the id counts the proposals from 1 and is the
\* incremental id.
HarmonyCreate(c) ==
  Begin(c, "HarmonyCreated", "save", [Blank EXCEPT !.num = Cardinality(Before(0, pos[c])) + 1])

\* findIncrementalId: the last saved proposal's, and as many more as there are
\* creations since the first of its block.
FindIncrementalId(c) ==
  LET n == pos[c] IN
  /\ pc[c] = "number"
  /\ \/ \E x \in LastSaved(n) :
          Goto(c, "taken", [mem[c] EXCEPT !.num =
            docs[history[x].id].num + Cardinality(Before(x, n))])
     \/ /\ LastSaved(n) = {}
        /\ Goto(c, "save", [mem[c] EXCEPT !.num = Cardinality(Before(0, n))])
  /\ UNCHANGED <<given, head, docs, spoiled, faults, raced, givenUp>>

\* Mutant: whether the number is taken is not asked.
TakenNever(n, k) == FALSE

\* A proposal of the plugin has the number.
Taken(n, k) == \E x \in Siblings(n) : docs[history[x].id].saved /\ docs[history[x].id].num = k

\* If the number is taken, the proposal is given up.
AskTaken(c) ==
  /\ pc[c] = "taken"
  /\ \/ Taken(pos[c], mem[c].num) /\ Return(c, TRUE) /\ givenUp' = givenUp \union {Event(c).id}
     \/ ~Taken(pos[c], mem[c].num) /\ Goto(c, "save", mem[c]) /\ UNCHANGED givenUp
  /\ UNCHANGED <<given, head, docs, spoiled, faults, raced>>

\* The upsert: a document another handler has inserted gets the created
\* content and the number again, and keeps the rest.
Save(c) ==
  LET p == Event(c).id IN
  /\ pc[c] = "save"
  /\ docs' = [docs EXCEPT ![p] = IF @.saved THEN [@ EXCEPT !.num = mem[c].num, !.content = 0]
                                 ELSE Fresh(mem[c].num)]
  /\ Goto(c, "pair", Blank)
  /\ UNCHANGED <<given, head, spoiled, faults, raced, givenUp>>

\* pairSppProposals: the stage of a sub-proposal is its plugin's, that of a
\* staged one is asked of the chain. (A plugin that is neither has no stages.)
Pair(c) ==
  /\ pc[c] = "pair"
  /\ Goto(c, "paired", [Blank EXCEPT !.chain =
       IF Event(c).id = Event(c).of THEN StageNow(Event(c).id) ELSE Event(c).stage])
  /\ UNCHANGED <<given, head, docs, spoiled, faults, raced, givenUp>>

\* The document's sub-proposals become those of the stage, and the stored ones
\* point to it.
Paired(c) ==
  LET p == Event(c).id
      subs == IF p = Event(c).of THEN SubNow(p, mem[c].chain) ELSE {}
  IN
  /\ pc[c] = "paired"
  /\ docs' = [q \in Ids |->
       IF q = p THEN [docs[p] EXCEPT !.stage = mem[c].chain, !.subs = subs \X {mem[c].chain}]
       ELSE IF q \in subs /\ docs[q].saved THEN [docs[q] EXCEPT !.parent = pos[c]]
       ELSE docs[q]]
  /\ Return(c, FALSE)
  /\ UNCHANGED <<given, head, spoiled, faults, raced, givenUp>>

-----------------------------------------------------------------------------
(* Handlers of one transaction. If the proposal is not stored they return.   *)

\* The event's proposal is stored, and becomes doc; met are the proposals that
\* another handler is at work on.
Update(c, doc, met) ==
  /\ IF Doc(c).saved
     THEN /\ docs' = [docs EXCEPT ![Event(c).id] = doc] /\ Return(c, FALSE)
          /\ spoiled' = spoiled \union met
     ELSE Return(c, TRUE) /\ spoiled' = spoiled \union Group(pos[c]) /\ UNCHANGED docs
  /\ UNCHANGED <<given, head, faults, raced, givenUp>>

\* Mutant: an edited proposal is not edited again.
EditOnce(c) ==
  Idle(c, {"Edited"}) /\ Update(c, [Doc(c) EXCEPT !.content = IF @ = 0 THEN pos[c] ELSE @], {})

\* proposalEdited
Edit(c) == Idle(c, {"Edited"}) /\ Update(c, [Doc(c) EXCEPT !.content = pos[c]], {})

\* The proposal, if proposalAdvanced has found it open and is about to execute
\* it with its stage.
BeingExecuted(c) ==
  {Event(c).id} \intersect UNION {mem[d].open : d \in {x \in Crawlers : pc[x] = "execute"}}

\* Mutant: the last execution wins.
ExecuteAgain(c) ==
  Idle(c, {"Executed"}) /\ Update(c, [Doc(c) EXCEPT !.executed = pos[c]], BeingExecuted(c))

\* proposalExecuted: an executed proposal is left alone.
Execute(c) ==
  /\ Idle(c, {"Executed"})
  /\ Update(c, [Doc(c) EXCEPT !.executed = IF @ = 0 THEN pos[c] ELSE @], BeingExecuted(c))

\* proposalCanceled
Cancel(c) == Idle(c, {"Canceled"}) /\ Update(c, [Doc(c) EXCEPT !.canceled = pos[c]], {})

\* harmonyProposalClosed: the document is found, but the update asks for one
\* whose _id, an ObjectId, is the document's id, a text of another form. The
\* error of that is caught.
Close(c) == Idle(c, {"Closed"}) /\ Update(c, Doc(c), {})

-----------------------------------------------------------------------------
(* proposalResultReport: the body's result is asked of the chain *)

Report(c) ==
  /\ Idle(c, {"Reported"})
  /\ \/ /\ ~Doc(c).saved
        /\ Return(c, TRUE) /\ spoiled' = spoiled \union Group(pos[c])
     \/ /\ Doc(c).saved
        /\ Goto(c, "push", [Blank EXCEPT !.doc = Doc(c),
                              !.chain = ResultNow(Event(c).id, Event(c).stage)])
        /\ Overlap(c)
  /\ UNCHANGED <<given, head, docs, faults, raced, givenUp>>

\* Mutant: a result of the body that is stored is not stored for another event.
StoredForBody(results, n, r) == \E i \in DOMAIN results : results[i].result = r

\* The event's entry with this very result.
Stored(results, n, r) == \E i \in DOMAIN results : results[i] = [event |-> n, result |-> r]

\* The result is appended, unless the document as it was read has it.
PushResult(c) ==
  LET r == [event |-> pos[c], result |-> mem[c].chain] IN
  /\ pc[c] = "push"
  /\ docs' = IF Stored(mem[c].doc.results, pos[c], mem[c].chain) THEN docs
             ELSE [docs EXCEPT ![Event(c).id].results = Append(@, r)]
  /\ Return(c, FALSE)
  /\ UNCHANGED <<given, head, spoiled, faults, raced, givenUp>>

-----------------------------------------------------------------------------
(* proposalAdvanced *)

Advance(c) ==
  /\ Idle(c, {"Advanced"})
  /\ \/ /\ ~Doc(c).saved
        /\ Return(c, TRUE) /\ spoiled' = spoiled \union Group(pos[c])
     \/ /\ Doc(c).saved
        /\ Goto(c, "subs", [Blank EXCEPT !.doc = Doc(c)]) /\ Overlap(c)
  /\ UNCHANGED <<given, head, docs, faults, raced, givenUp>>

\* Mutant: the stage before is taken for the new one.
SubsBeforeNone(c) == {q \in Ids : <<q, Event(c).stage>> \in mem[c].doc.subs}

\* The sub-proposals of the stage before, in the document as it was read.
SubsBefore(c) == {q \in Ids : <<q, Event(c).stage - 1>> \in mem[c].doc.subs}

\* Those of them that are stored and not executed are looked up.
FindSubs(c) ==
  /\ pc[c] = "subs"
  /\ Goto(c, "execute", [mem[c] EXCEPT !.open =
       {q \in SubsBefore(c) : docs[q].saved /\ docs[q].executed = 0}])
  /\ UNCHANGED <<given, head, docs, spoiled, faults, raced, givenUp>>

\* They are executed with the proposal's event, and the sub-proposals of the
\* new stage point to the proposal.
ExecuteSubs(c) ==
  LET new == {q \in SubNow(Event(c).id, Event(c).stage) : docs[q].saved} IN
  /\ pc[c] = "execute"
  /\ docs' = [q \in Ids |->
       [docs[q] EXCEPT !.executed = IF q \in mem[c].open THEN pos[c] ELSE @,
                       !.parent = IF q \in new THEN pos[c] ELSE @]]
  /\ Goto(c, "stage", mem[c])
  /\ UNCHANGED <<given, head, spoiled, faults, raced, givenUp>>

\* Mutant: the stage is set although its execution is stored.
AdvancedNever(doc, n) == FALSE

Advanced(doc, n) == \E i \in DOMAIN doc.advances : doc.advances[i] = n

\* The stage and the lists of the document as it was read, the new entries
\* appended, unless they are there.
AdvanceStage(c) ==
  LET e == Event(c) IN
  /\ pc[c] = "stage"
  /\ docs' = IF Advanced(mem[c].doc, pos[c]) THEN docs
             ELSE [docs EXCEPT ![e.id].stage = e.stage,
                     ![e.id].subs = mem[c].doc.subs \union (SubNow(e.id, e.stage) \X {e.stage}),
                     ![e.id].advances = Append(mem[c].doc.advances, pos[c])]
  /\ Return(c, FALSE)
  /\ UNCHANGED <<given, head, spoiled, faults, raced, givenUp>>

-----------------------------------------------------------------------------
(* Faults *)

Fault(k) == k \in FaultKinds /\ faults < MaxFaults /\ faults' = faults + 1

\* The process dies in a handler, and the crawler comes back to the event.
Crash(c) ==
  /\ pc[c] # "idle" /\ Fault("crash")
  /\ Goto(c, "idle", Blank)
  /\ spoiled' = spoiled \union Group(pos[c])
  /\ UNCHANGED <<given, head, docs, raced, givenUp>>

\* A call in a handler fails: the error is caught, the event passes for handled.
HandlerFails(c) ==
  /\ pc[c] # "idle" \/ Idle(c, Kinds)
  /\ Fault("fail")
  /\ Return(c, TRUE)
  /\ spoiled' = spoiled \union Group(pos[c])
  /\ UNCHANGED <<given, head, docs, raced, givenUp>>

\* Mutant: off by one.
RedeliverBefore(c) ==
  /\ pc[c] = "idle" /\ Fault("redeliver")
  /\ \E n \in 0 .. (pos[c] - 1) : pos' = [pos EXCEPT ![c] = n]
  /\ UNCHANGED <<given, head, docs, pc, mem, failed, spoiled, raced, givenUp>>

\* A crawl starts at an earlier event.
Redeliver(c) ==
  /\ pc[c] = "idle" /\ Fault("redeliver")
  /\ \E n \in 1 .. (pos[c] - 1) : pos' = [pos EXCEPT ![c] = n]
  /\ UNCHANGED <<given, head, docs, pc, mem, failed, spoiled, raced, givenUp>>

-----------------------------------------------------------------------------

Step(c) ==
  \/ Skip(c) \/ Create(c) \/ HarmonyCreate(c) \/ FindIncrementalId(c) \/ AskTaken(c) \/ Save(c)
  \/ Pair(c) \/ Paired(c)
  \/ Edit(c) \/ Execute(c) \/ Cancel(c) \/ Close(c)
  \/ Report(c) \/ PushResult(c) \/ Advance(c) \/ FindSubs(c) \/ ExecuteSubs(c)
  \/ AdvanceStage(c)

Next == Mine \/ \E c \in Crawlers : Step(c) \/ Crash(c) \/ HandlerFails(c) \/ Redeliver(c)

Spec == Init /\ [][Next]_vars

-----------------------------------------------------------------------------
(* Properties *)

Places0 == 0 .. Len(history)

TypeOK ==
  /\ history \in Seq(Events) /\ first \in {0, 1} /\ address \in [Crawlers -> SUBSET Ids]
  /\ head \in 0 .. Len(history)
  /\ pos \in [Crawlers -> 1 .. (Len(history) + 1)] /\ pc \in [Crawlers -> Places]
  /\ \A c \in Crawlers : pos[c] <= head + 1 /\ (pc[c] # "idle" => pos[c] <= head)
  /\ \A c \in Crawlers : mem[c].num \in Nat /\ mem[c].chain \in Nat /\ mem[c].open \subseteq Ids
  /\ \A d \in {docs[p] : p \in Ids} \union {mem[c].doc : c \in Crawlers} :
       /\ DOMAIN d = DOMAIN NoDoc
       /\ d.saved \in BOOLEAN /\ d.closed \in BOOLEAN /\ d.num \in Nat /\ d.stage \in Nat
       /\ {d.content, d.executed, d.canceled, d.parent} \subseteq Places0
       /\ d.subs \subseteq Ids \X Nat
       /\ d.advances \in Seq(DOMAIN history)
       /\ d.results \in Seq([event : DOMAIN history, result : DOMAIN history])
  /\ failed \subseteq DOMAIN history /\ spoiled \subseteq Ids /\ raced \in BOOLEAN /\ faults \in Nat
  /\ givenUp \subseteq Ids

CreationOf(p) == {n \in DOMAIN history : history[n].kind \in Creations /\ history[n].id = p}

\* No two proposals of a plugin have the same incremental id, whatever fails
\* and is given again, as long as two crawlers never compute one at once.
IncrementalUnique ==
  ~raced => \A p, q \in Ids : docs[p].saved /\ docs[q].saved /\ p # q =>
    \A i \in CreationOf(p), j \in CreationOf(q) : j \in Siblings(i) => docs[p].num # docs[q].num

\* All crawlers have handled what is mined.
AtRest == \A c \in Crawlers : pc[c] = "idle" /\ pos[c] = head + 1

\* Until a creation is cut short or disturbed, no proposal is given up, and the
\* proposals of a plugin have their incremental ids in the order of the chain.
\* (Ids can be left out: behind a block with several proposals.)
IncrementalOrder ==
  spoiled = {} /\ ~raced =>
    /\ \A n \in failed : history[n].kind \notin Creations
    /\ \A i, j \in DOMAIN history :
         /\ i < j /\ j \in Siblings(i) /\ docs[history[i].id].saved /\ docs[history[j].id].saved
         => docs[history[i].id].num < docs[history[j].id].num

\* At rest a proposal has the content of its last edit, if the handler of that
\* did its work last time: whatever was delivered again, failed or overlapped.
ContentFollows ==
  AtRest => \A p \in Ids : LET e == Latest(Mined("Edited", p)) IN
    docs[p].saved /\ e \notin failed => docs[p].content = e

\* At rest a proposal none of whose handlers failed or met another is at the
\* stage of its last advance, and has the execution of each stage once.
StageFollows ==
  AtRest => \A p \in Ids \ spoiled : LET a == Mined("Advanced", p) IN
    /\ a # {} => docs[p].stage = history[Latest(a)].stage
    /\ {docs[p].advances[i] : i \in DOMAIN docs[p].advances} = a
    /\ Len(docs[p].advances) = Cardinality(a)

\* Whoever crawls p crawls q, and so meets the events of both in one order.
Together(p, q) == \A c \in Crawlers : p \in address[c] => q \in address[c]

\* At rest the sub-proposals a proposal lists for the stages behind it are
\* executed, and the ones it lists point to it, if no crawler handles the
\* proposal's events but not those of the body. (Such a one may look for a
\* sub-proposal before it is stored, and nothing looks for it again.)
SubsFollow ==
  AtRest => \A p \in Ids \ spoiled :
    \A sub \in {u \in docs[p].subs : u[1] \notin givenUp /\ Together(p, u[1])} :
    /\ sub[2] < docs[p].stage => docs[sub[1]].executed # 0
    /\ docs[sub[1]].parent # 0 /\ history[docs[sub[1]].parent].id = p

\* At rest each report has a result, and of the results of a body the last one
\* is what the chain says.
ResultsFollow ==
  AtRest => \A p \in Ids \ spoiled : \A n \in Mined("Reported", p) :
    LET mine == {i \in DOMAIN docs[p].results :
                   history[docs[p].results[i].event].stage = history[n].stage}
    IN /\ \E i \in mine : docs[p].results[i].event = n
       /\ docs[p].results[Latest(mine)].result = ResultNow(p, history[n].stage)

\* The first execution stored, be it the proposal's own or that of its stage,
\* is never replaced, unless a handler of the proposal failed or met another.
ExecutionStays ==
  [][\A p \in Ids \ spoiled' :
       docs[p].executed # 0 => docs'[p].executed = docs[p].executed]_vars
=============================================================================
