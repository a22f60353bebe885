------------------------- MODULE ObjectProofs -------------------------
(***************************************************************************)
(* Proofs about module Objects, for any federates, attributes, names and   *)
(* bounds: an attribute has one writer, names are unique but for the races *)
(* named, and discovery is right from first to last.                       *)
(***************************************************************************)
EXTENDS Objects, TLAPS

-----------------------------------------------------------------------------
(* The inductive invariants.                                               *)

Ops == {"register", "update", "delete"}

\* Two batches, one after the other.
Both(c, T, d, U) == Batch(c, T) \o Batch(d, U)

\* What a call tells other federates first.
First(h) == IF call[h].op = "delete" THEN "remove" ELSE "discover"

\* What a session may have to send: discoveries come before reflections, which
\* only updates have, and a deletion sends removals alone.
Queued(h) ==
    \E T, U \in SUBSET Federates :
       /\ out[h] = Both(First(h), T, "reflect", U)
       /\ call[h].op # "update" => U = {}

\* Where a handler is tells which call it serves, and that nothing is queued
\* before it has returned.
Shaped(h) ==
    /\ pc[h] = "idle" => call[h] = NoCall
    /\ pc[h] # "idle" => call[h].obj \in Objects /\ call[h].op \in Ops
    /\ pc[h] \in {"name", "insert", "candidates"} => call[h].op = "register"
    /\ pc[h] \in {"route", "filter", "look"} => call[h].op = "update"
    /\ pc[h] = "mark" => call[h].op \in {"register", "update"}
    /\ pc[h] = "unmark" => call[h].op = "delete"
    /\ pc[h] # "send" => out[h] = <<>>
    /\ pc[h] = "send" => Queued(h) /\ out[h] # <<>>

CallShape == \A h \in Federates : Shaped(h)

\* A registration that has not inserted its instance yet.
Pending(h) == pc[h] \in {"name", "insert"}

\* A call on an instance that was there when the call began.
Serving(h) == call[h].op \in {"register", "update"} /\ ~Pending(h)

\* How calls and instances go together: the handle of a pending registration
\* is nobody else's; a deleted instance is gone, and its deleter is crossed
\* with it; the calls that a deletion overtakes are late, and the instance is
\* crossed with everybody.
PendingFree(h) ==
    Pending(h) => /\ ~Exists(call[h].obj)
                  /\ \A g \in Federates \ {h} : call[g].obj # call[h].obj

DeletedGone(h) ==
    call[h].op = "delete" =>
       /\ ~Exists(call[h].obj)
       /\ <<h, call[h].obj>> \in crossed
       /\ \A g \in Federates \ {h} :
             call[g].op = "delete" => call[g].obj # call[h].obj

Overtaken(h) ==
    Serving(h) /\ ~Exists(call[h].obj) =>
       /\ call[h].late
       /\ \A f \in Federates : <<f, call[h].obj>> \in crossed

Placed ==
    \A h \in Federates : /\ call[h].obj < next_object_id
                         /\ PendingFree(h)
                         /\ DeletedGone(h)
                         /\ Overtaken(h)

\* The writer of an attribute owns it as long as the instance exists.
WriterOwns ==
    \A h \in Federates, o \in Objects, a \in Attributes :
       Updates(h, o, a) /\ Exists(o) => instances[o].owners[a] = h

\* A registration about to insert under a name it asked for.
Claims(g, name) == pc[g] = "insert" /\ call[g].name = name /\ name # None

\* It has passed the check: who else claims the name, or has inserted it
\* since, raced it or was given the name without asking.
Passed(name) ==
    /\ \A g, k \in Federates : Claims(g, name) /\ Claims(k, name) /\ g # k => name \in raced
    /\ \A g \in Federates, o \in Existing :
          Claims(g, name) /\ instances[o].name = name => name \in raced \cup {AutoName[o]}

NamesPassed == \A name \in Requested : Passed(name)

\* The session of h has o's discovery, or its removal, to send to f.
Telling(h, o, f) == call[h].obj = o /\ Due(h, "discover", f)

Removing(h, o, f) == call[h].obj = o /\ Due(h, "remove", f)

\* DiscoveryExact for one federate and one instance.
Exact(f, o) ==
    /\ \A g, h \in Federates : Telling(g, o, f) /\ Telling(h, o, f) => g = h
    /\ o \in known[f] => \A h \in Federates : ~Telling(h, o, f)
    /\ o \in discovered[f] <=> \/ \E h \in Federates : Telling(h, o, f)
                               \/ /\ o \in known[f]
                                  /\ \A h \in Federates : ~Removing(h, o, f)

\* Nobody has heard of an instance whose registration has not inserted it.
Unborn(o) == \/ ~(o < next_object_id)
             \/ \E h \in Federates : Pending(h) /\ call[h].obj = o

BornFirst ==
    \A f \in Federates, o \in Objects :
       Unborn(o) => o \notin known[f] /\ <<f, o>> \notin crossed

\* An instance that exists is marked exactly even when a local deletion
\* crossed another call.
ExactWhileThere ==
    \A f \in members, o \in Objects :
       Exists(o) \/ <<f, o>> \notin crossed => Exact(f, o)

\* Who knows an instance that is gone is about to be told.
Ending(h, o, f) == /\ call[h].op = "delete" /\ call[h].obj = o
                   /\ pc[h] = "unmark" \/ Due(h, "remove", f)

GhostsDue ==
    \A f \in members, o \in Objects :
       (o \in known[f] /\ <<f, o>> \notin crossed) =>
          Exists(o) \/ \E h \in Federates : Ending(h, o, f)

\* An early subscriber still subscribes, is a candidate once the candidates
\* are read, and is marked once they are marked.
EarlyKept ==
    /\ \A o \in Objects : \A f \in early[o] : subscribed[f] # {}
    /\ \A h \in Federates : call[h].op = "register" =>
          /\ h \notin early[call[h].obj]
          /\ pc[h] = "mark" => early[call[h].obj] \subseteq call[h].to
    /\ \A o \in Existing :
          (\A h \in Federates : call[h].op = "register" /\ call[h].obj = o => pc[h] = "send")
             => \A f \in early[o] \cap members : o \in discovered[f]

\* Who is to get a reflection of an update that is not late is marked.
ReflectsMarked ==
    \A h \in Federates : ~call[h].late =>
       \A f \in members : Due(h, "reflect", f) => call[h].obj \in discovered[f]

IInv == /\ TypeOK /\ CallShape /\ Placed
        /\ WriterOwns /\ SingleWriter
        /\ NamesPassed /\ NamesUnique
        /\ BornFirst /\ ExactWhileThere /\ GhostsDue /\ EarlyKept /\ ReflectsMarked

-----------------------------------------------------------------------------
(* Types.                                                                  *)

Steps == {"idle", "name", "insert", "candidates", "mark", "route", "filter",
          "look", "unmark", "send"}

\* A batch of callbacks is a sequence of at most one.
LEMMA BatchTyped ==
    ASSUME NEW cb \in {"discover", "reflect", "remove"}, NEW T \in SUBSET Federates
    PROVE  Batch(cb, T) \in Seq(Batches)
<1>1. [cb |-> cb, to |-> T] \in Batches
  BY Zenon DEF Batches
<1>2. \A b \in Batches : <<b>> \in Seq(Batches)
  OBVIOUS
<1>3. <<>> \in Seq(Batches)
  OBVIOUS
<1>4. QED  BY <1>1, <1>2, <1>3, Zenon DEF Batch

\* NoCall is a call.
LEMMA NoCallTyped == NoCall \in Calls
BY Zenon DEF NoCall, Calls

\* Returning from a handler keeps the types of what sessions hold.
LEMMA ReturnTypes ==
    ASSUME TypeOK, NEW h \in Federates, NEW due \in Seq(Batches), Return(h, due)
    PROVE  /\ out' \in [Federates -> Seq(Batches)]
           /\ pc' \in [Federates -> Steps]
           /\ call' \in [Federates -> Calls]
<1>1. out' \in [Federates -> Seq(Batches)]
  BY Zenon DEF TypeOK, Return
<1>2. pc' \in [Federates -> Steps]
  BY Zenon DEF TypeOK, Return, Goto, Steps
<1>3. call' \in [Federates -> Calls]
  BY NoCallTyped, Zenon DEF TypeOK, Return
<1>4. QED  BY <1>1, <1>2, <1>3, Zenon

\* Moving on inside a handler does too.
LEMMA GotoTypes ==
    ASSUME TypeOK, NEW h \in Federates, NEW step \in Steps, Goto(h, step)
    PROVE  pc' \in [Federates -> Steps]
BY Zenon DEF TypeOK, Goto, Steps

\* Who subscribes to some attributes is a set of federates.
LEMMA SubscribersTyped ==
    ASSUME NEW attrs, NEW h PROVE SubscribersFor(attrs, h) \in SUBSET Federates
BY Zenon DEF SubscribersFor

\* What is left of the head batch, and the batches after it, are batches.
LEMMA LeftTyped ==
    ASSUME NEW s \in Seq(Batches), s # <<>>, NEW f
    PROVE  /\ Head(s) \in Batches
           /\ Batch(Head(s).cb, Head(s).to \ {f}) \o Tail(s) \in Seq(Batches)
<1>1. Head(s) \in Batches /\ Tail(s) \in Seq(Batches)
  OBVIOUS
<1>2. Head(s).cb \in {"discover", "reflect", "remove"} /\ Head(s).to \in SUBSET Federates
  BY <1>1, Zenon DEF Batches
<1>3. Batch(Head(s).cb, Head(s).to \ {f}) \in Seq(Batches)
  BY <1>2, BatchTyped, Zenon
<1>4. QED  BY <1>1, <1>3

\* TypeOK for the variables of the federation.
WorldOK ==
    /\ members \subseteq Federates
    /\ instances \in [Objects -> Instances \cup {None}]
    /\ \A o \in Existing : o < next_object_id
    /\ next_object_id \in 1 .. MaxObject + 1
    /\ subscribed \in [Federates -> SUBSET Attributes]
    /\ discovered \in [Federates -> SUBSET Objects]

\* TypeOK for what sessions hold.
CallsOK ==
    /\ pc \in [Federates -> Steps]
    /\ call \in [Federates -> Calls]
    /\ out \in [Federates -> Seq(Batches)]

\* TypeOK for the history.
HistoryOK ==
    /\ known \in [Federates -> SUBSET Objects]
    /\ early \in [Objects -> SUBSET Federates]
    /\ crossed \subseteq Federates \X Objects

\* The types, part by part: the world, the calls, the history.
LEMMA Typed == TypeOK <=> WorldOK /\ CallsOK /\ HistoryOK
BY Zenon DEF TypeOK, WorldOK, CallsOK, HistoryOK, Steps

\* The types hold in the initial state.
LEMMA TypesInit == Init => TypeOK
<1> SUFFICES ASSUME Init PROVE TypeOK
  OBVIOUS
<1>1. WorldOK
  BY MaxObjectAssumption DEF Init, WorldOK, Existing, Exists
<1>2. CallsOK
  BY NoCallTyped DEF Init, CallsOK, Steps
<1>3. HistoryOK
  BY Zenon DEF Init, HistoryOK
<1>4. QED  BY <1>1, <1>2, <1>3, Typed, Zenon

\* A new instance is one.
LEMMA NewInstanceTyped ==
    ASSUME TypeOK, NEW h \in Federates, call[h].obj \in Objects
    PROVE  NewInstance(h) \in Instances /\ NewInstance(h) # None
<1>1. call[h].name \in Requested \cup {None}
  BY Zenon DEF TypeOK, Calls
<1>2. NewInstance(h) \in Instances
  BY <1>1, Zenon DEF NewInstance, Instances
<1>3. QED  BY <1>2, InstanceAssumption, Zenon

\* Every step keeps the types of the federation's variables.
LEMMA WorldNext == TypeOK /\ CallShape /\ Placed /\ Next => WorldOK'
<1> SUFFICES ASSUME TypeOK, CallShape, Placed, NEW h \in Federates,
                    Registration(h) \/ Updating(h) \/ Deletion(h)
                      \/ Ownership(h) \/ Surroundings(h)
             PROVE  WorldOK'
  BY Zenon DEF Next
<1>t. WorldOK
  BY Typed, Zenon
<1>0. ASSUME UNCHANGED worldVars PROVE WorldOK'
  BY <1>t, <1>0, Zenon DEF WorldOK, worldVars, Existing, Exists
<1>m. ASSUME NEW c, NEW o \in Objects, Mark(c, o),
             UNCHANGED <<members, instances, next_object_id, subscribed>>
      PROVE  WorldOK'
  <2>1. discovered' \in [Federates -> SUBSET Objects]
    BY <1>t, <1>m, Zenon DEF WorldOK, Mark
  <2>2. QED  BY <1>t, <1>m, <2>1, Zenon DEF WorldOK, Existing, Exists
<1>o. ASSUME NEW o \in Objects, NEW w \in [Attributes -> Federates \cup {None}],
             Exists(o), instances' = [instances EXCEPT ![o].owners = w],
             UNCHANGED <<members, next_object_id, subscribed, discovered>>
      PROVE  WorldOK'
  <2>1. instances[o] \in Instances
    BY <1>t, <1>o, Zenon DEF WorldOK, Exists
  <2>2. [instances[o] EXCEPT !.owners = w] \in Instances
    BY <2>1, <1>o, Zenon DEF Instances
  <2>3. instances' \in [Objects -> Instances \cup {None}]
    BY <1>t, <1>o, <2>2, Zenon DEF WorldOK
  <2>4. \A p \in Objects : Exists(p)' => Exists(p)
    BY <1>t, <1>o, Zenon DEF WorldOK, Exists
  <2>5. QED  BY <1>t, <1>o, <2>3, <2>4, Zenon DEF WorldOK, Existing
<1>1. CASE Registration(h)
  <2>1. ASSUME NEW name \in Requested \cup {None}, RegisterDraws(h, name) PROVE WorldOK'
    <3>1. next_object_id' \in 1 .. MaxObject + 1 /\ next_object_id < next_object_id'
      BY <1>t, <2>1, MaxObjectAssumption DEF WorldOK, RegisterDraws, Objects
    <3>2. \A o \in Existing' : o < next_object_id'
      BY <1>t, <2>1, <3>1 DEF WorldOK, RegisterDraws, Existing, Exists, Objects
    <3>3. QED  BY <1>t, <2>1, <3>1, <3>2, Zenon DEF WorldOK, RegisterDraws
  <2>2. CASE RegisterName(h)
    BY <2>2, <1>0, Zenon DEF RegisterName
  <2>3. CASE RegisterInserts(h)
    <3>1. call[h].obj \in Objects
      BY <2>3, Zenon DEF RegisterInserts, CallShape, Shaped
    <3>2. NewInstance(h) \in Instances
      BY <3>1, NewInstanceTyped, Zenon
    <3>3. instances' \in [Objects -> Instances \cup {None}]
      BY <1>t, <2>3, <3>2, Zenon DEF RegisterInserts, WorldOK
    <3>4. \A o \in Existing' : o < next_object_id
      BY <1>t, <2>3, <3>1, Zenon DEF RegisterInserts, WorldOK, Placed, Existing, Exists
    <3>5. QED  BY <1>t, <2>3, <3>3, <3>4, Zenon DEF RegisterInserts, WorldOK
  <2>4. CASE RegisterCandidates(h)
    BY <2>4, <1>0, Zenon DEF RegisterCandidates
  <2>5. CASE RegisterMarks(h)
    <3>1. call[h].obj \in Objects
      BY <2>5, Zenon DEF RegisterMarks, CallShape, Shaped
    <3>2. QED  BY <2>5, <3>1, <1>m, Zenon DEF RegisterMarks
  <2>6. QED  BY <1>1, <2>1, <2>2, <2>3, <2>4, <2>5, Zenon DEF Registration
<1>2. CASE Updating(h)
  <2>1. ASSUME NEW o \in Objects, NEW attrs \in SUBSET Attributes,
               UpdateChecks(h, o, attrs)
        PROVE  WorldOK'
    BY <2>1, <1>0, Zenon DEF UpdateChecks
  <2>2. CASE UpdateRoutes(h)
    BY <2>2, <1>0, Zenon DEF UpdateRoutes
  <2>3. CASE UpdateFilters(h)
    BY <2>3, <1>0, Zenon DEF UpdateFilters
  <2>4. CASE UpdateLooks(h)
    BY <2>4, <1>0, Zenon DEF UpdateLooks
  <2>5. CASE UpdateMarks(h)
    <3>1. call[h].obj \in Objects
      BY <2>5, Zenon DEF UpdateMarks, CallShape, Shaped
    <3>2. QED  BY <2>5, <3>1, <1>m, Zenon DEF UpdateMarks
  <2>6. QED  BY <1>2, <2>1, <2>2, <2>3, <2>4, <2>5, Zenon DEF Updating
<1>3. CASE Deletion(h)
  <2>1. ASSUME NEW o \in Objects, DeleteRemoves(h, o) PROVE WorldOK'
    <3>1. instances' \in [Objects -> Instances \cup {None}]
      BY <1>t, <2>1, Zenon DEF DeleteRemoves, WorldOK
    <3>2. \A p \in Objects : Exists(p)' => Exists(p)
      BY <1>t, <2>1, Zenon DEF DeleteRemoves, WorldOK, Exists
    <3>3. QED  BY <1>t, <2>1, <3>1, <3>2, Zenon DEF DeleteRemoves, WorldOK, Existing
  <2>2. ASSUME NEW o \in Objects, LocalDelete(h, o) PROVE WorldOK'
    <3>1. discovered' \in [Federates -> SUBSET Objects]
      BY <1>t, <2>2, Zenon DEF LocalDelete, WorldOK
    <3>2. QED  BY <1>t, <2>2, <3>1, Zenon DEF LocalDelete, WorldOK, Existing, Exists
  <2>3. CASE DeleteUnmarks(h)
    <3>1. discovered' \in [Federates -> SUBSET Objects]
      BY <1>t, <2>3, Zenon DEF DeleteUnmarks, WorldOK
    <3>2. QED  BY <1>t, <2>3, <3>1, Zenon DEF DeleteUnmarks, WorldOK, Existing, Exists
  <2>4. QED  BY <1>3, <2>1, <2>2, <2>3, Zenon DEF Deletion
<1>4. CASE Ownership(h)
  <2> SUFFICES ASSUME NEW o \in Objects, NEW attrs \in SUBSET Attributes,
                      Acquire(h, o, attrs) \/ Divest(h, o, attrs)
               PROVE  WorldOK'
    BY <1>4, Zenon DEF Ownership
  <2> DEFINE w == instances[o].owners
  <2>1. Exists(o) /\ w \in [Attributes -> Federates \cup {None}]
    BY <1>t, Zenon DEF Acquire, Divest, WorldOK, Exists, Instances
  <2>2. /\ Acquired(w, h, attrs) \in [Attributes -> Federates \cup {None}]
        /\ Divested(w, h, attrs) \in [Attributes -> Federates \cup {None}]
    BY <2>1, Zenon DEF Acquired, Divested
  <2>3. CASE Acquire(h, o, attrs)
    <3>1. instances' = [instances EXCEPT ![o].owners = Acquired(w, h, attrs)]
      BY <2>3, Zenon DEF Acquire
    <3>2. QED  BY <1>o, <2>1, <2>2, <2>3, <3>1, Zenon DEF Acquire
  <2>4. CASE Divest(h, o, attrs)
    <3>1. instances' = [instances EXCEPT ![o].owners = Divested(w, h, attrs)]
      BY <2>4, Zenon DEF Divest
    <3>2. QED  BY <1>o, <2>1, <2>2, <2>4, <3>1, Zenon DEF Divest
  <2>5. QED  BY <2>3, <2>4, Zenon
<1>5. CASE Surroundings(h)
  <2>1. ASSUME NEW attrs \in SUBSET Attributes,
               Subscribe(h, attrs) \/ Unsubscribe(h, attrs)
        PROVE  WorldOK'
    <3>1. subscribed' \in [Federates -> SUBSET Attributes]
      BY <1>t, <2>1, Zenon DEF Subscribe, Unsubscribe, WorldOK
    <3>2. QED  BY <1>t, <2>1, <3>1, Zenon DEF Subscribe, Unsubscribe, WorldOK, Existing, Exists
  <2>2. CASE Resign(h)
    BY <1>t, <2>2, Zenon DEF Resign, WorldOK, Existing, Exists
  <2>3. ASSUME NEW f \in Federates, Send(h, f) PROVE WorldOK'
    BY <2>3, <1>0, Zenon DEF Send
  <2>4. QED  BY <1>5, <2>1, <2>2, <2>3, Zenon DEF Surroundings
<1>6. QED  BY <1>1, <1>2, <1>3, <1>4, <1>5, Zenon

-----------------------------------------------------------------------------
(* What a step of one session does to the calls of all.                    *)

\* The steps of the session of h.
StepOf(h) == \/ Registration(h)
             \/ Updating(h)
             \/ Deletion(h)
             \/ Ownership(h)
             \/ Surroundings(h)

\* A call that is served on, at most marked late.
Alike(g) ==
    /\ pc'[g] = pc[g]
    /\ out'[g] = out[g]
    /\ \/ call'[g] = call[g]
       \/ call[g].obj \in Objects /\ call'[g] = [call[g] EXCEPT !.late = TRUE]

\* Returning touches the session's own call alone.
LEMMA ReturnEffect ==
    ASSUME TypeOK, NEW h \in Federates, NEW due, Return(h, due)
    PROVE  /\ out'[h] = due
           /\ due = <<>> => pc'[h] = "idle" /\ call'[h] = NoCall
           /\ due # <<>> => pc'[h] = "send" /\ call'[h] = call[h]
           /\ \A g \in Federates \ {h} : Alike(g)
<1>1. out'[h] = due /\ \A g \in Federates \ {h} : out'[g] = out[g]
  BY Zenon DEF TypeOK, Return
<1>2. CASE due = <<>>
  <2>1. pc' = [pc EXCEPT ![h] = "idle"] /\ call' = [call EXCEPT ![h] = NoCall]
    BY <1>2, Zenon DEF Return, Goto
  <2>2. QED  BY <1>1, <1>2, <2>1, Zenon DEF TypeOK, Alike
<1>3. CASE due # <<>>
  <2>1. pc' = [pc EXCEPT ![h] = "send"] /\ call' = call
    BY <1>3, Zenon DEF Return, Goto
  <2>2. QED  BY <1>1, <1>3, <2>1, Zenon DEF TypeOK, Alike
<1>4. QED  BY <1>2, <1>3, Zenon

\* Moving on inside a handler does too.
LEMMA GotoEffect ==
    ASSUME TypeOK, NEW h \in Federates, NEW step, Goto(h, step), UNCHANGED out,
           \A g \in Federates \ {h} : call'[g] = call[g]
    PROVE  /\ pc'[h] = step
           /\ out'[h] = out[h]
           /\ \A g \in Federates \ {h} : Alike(g)
BY Zenon DEF TypeOK, Goto, Alike

\* A step of one session leaves the calls of the others alike.
LEMMA OthersAlike ==
    ASSUME TypeOK, CallShape, NEW h \in Federates, StepOf(h)
    PROVE  \A g \in Federates \ {h} : Alike(g)
<1>c. call \in [Federates -> Calls] /\ pc \in [Federates -> Steps]
  BY Zenon DEF TypeOK, Steps
<1>u. ASSUME UNCHANGED <<pc, call, out>> PROVE \A g \in Federates \ {h} : Alike(g)
  BY <1>u, Zenon DEF Alike
<1>1. CASE Registration(h)
  <2>1. ASSUME NEW name \in Requested \cup {None}, RegisterDraws(h, name)
        PROVE  \A g \in Federates \ {h} : Alike(g)
    <3>1. \A g \in Federates \ {h} : call'[g] = call[g]
      BY <1>c, <2>1, Zenon DEF RegisterDraws
    <3>2. QED  BY <2>1, <3>1, GotoEffect, Zenon DEF RegisterDraws
  <2>2. CASE RegisterName(h)
    BY <2>2, ReturnEffect, GotoEffect, Zenon DEF RegisterName
  <2>3. CASE RegisterInserts(h)
    BY <2>3, GotoEffect, Zenon DEF RegisterInserts
  <2>4. CASE RegisterCandidates(h)
    <3>1. \A g \in Federates \ {h} : call'[g] = call[g]
      BY <1>c, <2>4, Zenon DEF RegisterCandidates
    <3>2. QED  BY <2>4, <3>1, GotoEffect, Zenon DEF RegisterCandidates
  <2>5. CASE RegisterMarks(h)
    BY <2>5, ReturnEffect, Zenon DEF RegisterMarks
  <2>6. QED  BY <1>1, <2>1, <2>2, <2>3, <2>4, <2>5, Zenon DEF Registration
<1>2. CASE Updating(h)
  <2>1. ASSUME NEW o \in Objects, NEW attrs \in SUBSET Attributes,
               UpdateChecks(h, o, attrs)
        PROVE  \A g \in Federates \ {h} : Alike(g)
    <3>1. \A g \in Federates \ {h} : call'[g] = call[g]
      BY <1>c, <2>1, Zenon DEF UpdateChecks
    <3>2. QED  BY <2>1, <3>1, GotoEffect, Zenon DEF UpdateChecks
  <2>2. CASE UpdateRoutes(h)
    <3>1. \A g \in Federates \ {h} : call'[g] = call[g]
      BY <1>c, <2>2, Zenon DEF UpdateRoutes
    <3>2. QED  BY <2>2, <3>1, GotoEffect, Zenon DEF UpdateRoutes
  <2>3. CASE UpdateFilters(h)
    <3>1. Return(h, <<>>) \/ (Goto(h, "look") /\ UNCHANGED <<call, out>>)
      BY <2>3, Zenon DEF UpdateFilters
    <3>2. QED  BY <3>1, ReturnEffect, GotoEffect, Zenon
  <2>4. CASE UpdateLooks(h)
    <3>1. \/ Return(h, Batch("reflect", call[h].to \cap members))
          \/ Goto(h, "mark") /\ UNCHANGED <<call, out>>
      BY <2>4, Zenon DEF UpdateLooks
    <3>2. QED  BY <3>1, ReturnEffect, GotoEffect, Zenon
  <2>5. CASE UpdateMarks(h)
    BY <2>5, ReturnEffect, Zenon DEF UpdateMarks
  <2>6. QED  BY <1>2, <2>1, <2>2, <2>3, <2>4, <2>5, Zenon DEF Updating
<1>3. CASE Deletion(h)
  <2>1. ASSUME NEW o \in Objects, DeleteRemoves(h, o), NEW g \in Federates \ {h}
        PROVE  Alike(g)
    <3>1. pc'[g] = pc[g] /\ out' = out
      BY <1>c, <2>1, Zenon DEF DeleteRemoves, Goto
    <3>2. call'[g] = IF call[g].obj = o THEN [call[g] EXCEPT !.late = TRUE] ELSE call[g]
      BY <2>1, Zenon DEF DeleteRemoves, Busy
    <3>3. QED  BY <3>1, <3>2, Zenon DEF Alike
  <2>2. ASSUME NEW o \in Objects, LocalDelete(h, o), NEW g \in Federates \ {h}
        PROVE  Alike(g)
    <3>1. call'[g] = IF call[g].obj = o THEN [call[g] EXCEPT !.late = TRUE] ELSE call[g]
      BY <2>2, Zenon DEF LocalDelete, Busy
    <3>2. QED  BY <2>2, <3>1, Zenon DEF LocalDelete, Alike
  <2>3. CASE DeleteUnmarks(h)
    BY <2>3, ReturnEffect, Zenon DEF DeleteUnmarks
  <2>4. QED  BY <1>3, <2>1, <2>2, <2>3, Zenon DEF Deletion
<1>4. CASE Ownership(h)
  BY <1>4, <1>u, Zenon DEF Ownership, Acquire, Divest
<1>5. CASE Surroundings(h)
  <2>1. ASSUME NEW attrs, Subscribe(h, attrs) \/ Unsubscribe(h, attrs)
        PROVE  \A g \in Federates \ {h} : Alike(g)
    BY <2>1, <1>u, Zenon DEF Subscribe, Unsubscribe
  <2>2. CASE Resign(h)
    BY <2>2, <1>u, Zenon DEF Resign, callVars
  <2>3. ASSUME NEW f \in Federates, Send(h, f) PROVE \A g \in Federates \ {h} : Alike(g)
    BY <2>3, ReturnEffect, Zenon DEF Send
  <2>4. QED  BY <1>5, <2>1, <2>2, <2>3, Zenon DEF Surroundings
<1>6. QED  BY <1>1, <1>2, <1>3, <1>4, <1>5, Zenon DEF StepOf

-----------------------------------------------------------------------------
(* Batches.                                                                *)

\* Due, for any queue of batches.
DueIn(s, cb, f) == \E i \in DOMAIN s : s[i].cb = cb /\ f \in s[i].to

\* Two sequences of one element are one of two.
LEMMA Joined == ASSUME NEW b, NEW e PROVE <<b>> \o <<e>> = <<b, e>>
<1> DEFINE s == <<b>> \o <<e>>
           t == <<b, e>>
<1>1. <<b>> \in Seq({b, e}) /\ <<e>> \in Seq({b, e}) /\ t \in Seq({b, e})
  OBVIOUS
<1>2. s \in Seq({b, e}) /\ Len(s) = 2 /\ s[1] = b /\ s[2] = e
  BY <1>1
<1>3. t[1] = b /\ t[2] = e
  OBVIOUS
<1>4. DOMAIN s = 1 .. 2 /\ DOMAIN t = 1 .. 2
  BY <1>2
<1>5. s = [i \in 1 .. 2 |-> s[i]] /\ t = [i \in 1 .. 2 |-> t[i]]
  BY <1>2, <1>4
<1>6. \A i \in 1 .. 2 : i = 1 \/ i = 2
  OBVIOUS
<1> HIDE DEF s, t
<1>7. s = t
  BY <1>2, <1>3, <1>5, <1>6, Zenon
<1>8. QED  BY <1>7, Zenon DEF s, t

\* What a batch, or two, have for a federate.
LEMMA DueShort ==
    ASSUME NEW b, NEW e, NEW cb, NEW f
    PROVE  /\ ~DueIn(<<>>, cb, f)
           /\ DueIn(<<b>>, cb, f) <=> b.cb = cb /\ f \in b.to
           /\ DueIn(<<b, e>>, cb, f)
                <=> (b.cb = cb /\ f \in b.to) \/ (e.cb = cb /\ f \in e.to)
<1> DEFINE t == <<b, e>>
<1>1. DOMAIN t = {1, 2} /\ t[1] = b /\ t[2] = e
  OBVIOUS
<1> HIDE DEF t
<1>2. DueIn(t, cb, f) <=> (b.cb = cb /\ f \in b.to) \/ (e.cb = cb /\ f \in e.to)
  BY <1>1, Zenon DEF DueIn
<1>3. DueIn(<<b>>, cb, f) <=> b.cb = cb /\ f \in b.to
  BY DEF DueIn
<1>4. ~DueIn(<<>>, cb, f)
  BY DEF DueIn
<1>5. QED  BY <1>2, <1>3, <1>4, Zenon DEF t

\* Two batches as a sequence.
LEMMA TwoBatches ==
    ASSUME NEW c, NEW T, NEW d, NEW U, NEW b, NEW e,
           b = [cb |-> c, to |-> T], e = [cb |-> d, to |-> U]
    PROVE  /\ b.cb = c /\ b.to = T /\ e.cb = d /\ e.to = U
           /\ T = {} => Batch(c, T) = <<>>
           /\ U = {} => Batch(d, U) = <<>>
           /\ U # {} => Batch(d, U) = <<e>>
           /\ (T = {} /\ U = {}) => Both(c, T, d, U) = <<>>
           /\ (T = {} /\ U # {}) => Both(c, T, d, U) = <<e>>
           /\ (T # {} /\ U = {}) => Both(c, T, d, U) = <<b>>
           /\ (T # {} /\ U # {}) => Both(c, T, d, U) = <<b, e>>
<1>0. b.cb = c /\ b.to = T /\ e.cb = d /\ e.to = U
  OBVIOUS
<1>1. /\ T = {} => Batch(c, T) = <<>>
      /\ U = {} => Batch(d, U) = <<>>
      /\ T # {} => Batch(c, T) = <<b>>
      /\ U # {} => Batch(d, U) = <<e>>
  BY Zenon DEF Batch
<1>2. <<>> \o <<>> = <<>> /\ <<>> \o <<e>> = <<e>> /\ <<b>> \o <<>> = <<b>>
  OBVIOUS
<1>3. QED  BY <1>0, <1>1, <1>2, Joined, Zenon DEF Both

\* What two batches have for a federate.
LEMMA DueBatches ==
    ASSUME NEW c, NEW T, NEW d, NEW U, NEW cb, NEW f
    PROVE  DueIn(Both(c, T, d, U), cb, f)
             <=> (cb = c /\ f \in T) \/ (cb = d /\ f \in U)
<1> DEFINE s == Both(c, T, d, U)
<1> HIDE DEF s
<1>p. PICK b, e : b = [cb |-> c, to |-> T] /\ e = [cb |-> d, to |-> U]
  BY Zenon
<1>0. /\ b.cb = c /\ b.to = T /\ e.cb = d /\ e.to = U
      /\ (T = {} /\ U = {}) => s = <<>>
      /\ (T = {} /\ U # {}) => s = <<e>>
      /\ (T # {} /\ U = {}) => s = <<b>>
      /\ (T # {} /\ U # {}) => s = <<b, e>>
  BY <1>p, TwoBatches DEF s
<1>1. /\ ~DueIn(<<>>, cb, f)
      /\ DueIn(<<b>>, cb, f) <=> b.cb = cb /\ f \in b.to
      /\ DueIn(<<e>>, cb, f) <=> e.cb = cb /\ f \in e.to
      /\ DueIn(<<b, e>>, cb, f)
           <=> (b.cb = cb /\ f \in b.to) \/ (e.cb = cb /\ f \in e.to)
  BY DueShort, Zenon
<1>2. DueIn(s, cb, f) <=> (cb = c /\ f \in T) \/ (cb = d /\ f \in U)
  BY <1>0, <1>1, Zenon
<1>3. QED  BY <1>2, Zenon DEF s

\* What is left of a queue when its first batch has been sent to f.
Left(s, f) == Batch(Head(s).cb, Head(s).to \ {f}) \o Tail(s)

\* Sending to f from queue s sends cb and leaves rest.
Sends(s, f, cb, rest) == Head(s).cb = cb /\ Left(s, f) = rest

\* Sending one callback of the first of two batches leaves the rest of it and
\* the second.
LEMMA LeftBatches ==
    ASSUME NEW c, NEW T, NEW d, NEW U, NEW f, T # {} \/ U # {},
           f \in Head(Both(c, T, d, U)).to
    PROVE  \/ f \in T /\ Sends(Both(c, T, d, U), f, c, Both(c, T \ {f}, d, U))
           \/ T = {} /\ f \in U /\ Sends(Both(c, T, d, U), f, d, Both(c, T, d, U \ {f}))
<1> DEFINE s == Both(c, T, d, U)
<1> HIDE DEF s
<1> SUFFICES \/ /\ f \in T
                /\ Head(s).cb = c
                /\ Left(s, f) = Both(c, T \ {f}, d, U)
             \/ /\ T = {} /\ f \in U
                /\ Head(s).cb = d
                /\ Left(s, f) = Both(c, T, d, U \ {f})
  BY Zenon DEF s, Sends
<1>s. f \in Head(s).to
  BY Zenon DEF s
<1>p. PICK b, e : b = [cb |-> c, to |-> T] /\ e = [cb |-> d, to |-> U]
  BY Zenon
<1>0. /\ b.cb = c /\ b.to = T /\ e.cb = d /\ e.to = U
      /\ T = {} => Batch(c, T) = <<>>
      /\ U = {} => Batch(d, U) = <<>>
      /\ U # {} => Batch(d, U) = <<e>>
      /\ (T = {} /\ U = {}) => s = <<>>
      /\ (T = {} /\ U # {}) => s = <<e>>
      /\ (T # {} /\ U = {}) => s = <<b>>
      /\ (T # {} /\ U # {}) => s = <<b, e>>
  BY <1>p, TwoBatches DEF s
<1>1. \A x, V : /\ Batch(x, V) \o <<>> = Batch(x, V)
                /\ <<>> \o Batch(x, V) = Batch(x, V)
  BY DEF Batch
<1>2. CASE T # {} /\ U = {}
  <2>0. s = <<b>>
    BY <1>0, <1>2, Zenon
  <2>1. Head(s) = b /\ Tail(s) = <<>>
    BY <2>0
  <2>2. QED  BY <1>s, <1>0, <1>2, <2>1, Zenon DEF Left, Both
<1>3. CASE T = {} /\ U # {}
  <2>0. s = <<e>>
    BY <1>0, <1>3, Zenon
  <2>1. Head(s) = e /\ Tail(s) = <<>>
    BY <2>0
  <2>2. Batch(d, U \ {f}) \o <<>> = <<>> \o Batch(d, U \ {f})
    BY <1>1, Zenon
  <2>3. QED  BY <1>s, <1>0, <1>3, <2>1, <2>2, Zenon DEF Left, Both
<1>4. CASE T # {} /\ U # {}
  <2>0. s = <<b, e>>
    BY <1>0, <1>4, Zenon
  <2>1. Head(s) = b /\ Tail(s) = <<e>>
    BY <2>0
  <2>2. QED  BY <1>s, <1>0, <1>4, <2>1, Zenon DEF Left, Both
<1>5. CASE T = {} /\ U = {}
  BY <1>0, <1>5, Zenon
<1>6. QED  BY <1>2, <1>3, <1>4, <1>5, Zenon

\* A single batch is a pair of which the other is empty.
LEMMA OneBatch ==
    ASSUME NEW c, NEW T, NEW d
    PROVE  /\ Batch(c, T) = Both(c, T, d, {})
           /\ Batch(d, T) = Both(c, {}, d, T)
           /\ <<>> = Both(c, {}, d, {})
<1>1. Batch(c, T) = Both(c, T, d, {})
  BY DEF Batch, Both
<1>2. Batch(d, T) = Both(c, {}, d, T)
  BY DEF Batch, Both
<1>3. <<>> = Both(c, {}, d, {})
  BY DEF Batch, Both
<1>4. QED  BY <1>1, <1>2, <1>3, Zenon

-----------------------------------------------------------------------------
(* The shape of calls.                                                     *)

\* Objects have handles from 1 on, so a session without a call has none.
LEMMA NoCallApart ==
    /\ NoCall.obj = 0 /\ NoCall.obj \notin Objects /\ NoCall.op = "none"
    /\ NoCall.late = FALSE /\ NoCall.name = None
BY MaxObjectAssumption DEF NoCall, Objects

\* Marking a call late changes nothing else of it.
LEMMA LateAlike ==
    ASSUME NEW c \in Calls
    PROVE  LET d == [c EXCEPT !.late = TRUE]
           IN  /\ d \in Calls /\ d.late
               /\ d.op = c.op /\ d.obj = c.obj /\ d.name = c.name
               /\ d.attrs = c.attrs /\ d.to = c.to
BY Zenon DEF Calls

\* What Alike keeps.
LEMMA AlikeCall ==
    ASSUME TypeOK, NEW g \in Federates, Alike(g)
    PROVE  /\ pc'[g] = pc[g] /\ out'[g] = out[g]
           /\ call'[g] \in Calls
           /\ call'[g].op = call[g].op /\ call'[g].obj = call[g].obj
           /\ call'[g].name = call[g].name /\ call'[g].attrs = call[g].attrs
           /\ call'[g].to = call[g].to
           /\ call[g].late => call'[g].late
           /\ call'[g] = call[g] \/ call[g].obj \in Objects
<1>1. call[g] \in Calls
  BY Zenon DEF TypeOK
<1>2. CASE call'[g] = call[g]
  BY <1>1, <1>2, Zenon DEF Alike
<1>3. CASE call[g].obj \in Objects /\ call'[g] = [call[g] EXCEPT !.late = TRUE]
  BY <1>1, <1>3, LateAlike, Zenon DEF Alike
<1>4. QED  BY <1>2, <1>3, Zenon DEF Alike

\* A call left alike keeps its shape.
LEMMA AlikeShaped ==
    ASSUME TypeOK, NEW g \in Federates, Alike(g), Shaped(g)
    PROVE  Shaped(g)'
<1>1. /\ pc'[g] = pc[g] /\ out'[g] = out[g]
      /\ call'[g].op = call[g].op /\ call'[g].obj = call[g].obj
      /\ call'[g] = call[g] \/ call[g].obj \in Objects
  BY AlikeCall, Zenon
<1>2. pc[g] = "idle" => call'[g] = NoCall
  BY <1>1, NoCallApart, Zenon DEF Shaped
<1>3. Queued(g) => Queued(g)'
  BY <1>1, Zenon DEF Queued, First
<1>4. QED  BY <1>1, <1>2, <1>3, Zenon DEF Shaped

\* A session that has returned has the shape of one that has.
LEMMA ReturnShaped ==
    ASSUME TypeOK, NEW h \in Federates, call[h].obj \in Objects, call[h].op \in Ops,
           NEW T \in SUBSET Federates, NEW U \in SUBSET Federates,
           call[h].op # "update" => U = {},
           NEW due, due = Both(First(h), T, "reflect", U),
           Return(h, due)
    PROVE  Shaped(h)' /\ CallsOK'
<1>1. /\ out'[h] = due
      /\ due = <<>> => pc'[h] = "idle" /\ call'[h] = NoCall
      /\ due # <<>> => pc'[h] = "send" /\ call'[h] = call[h]
  BY ReturnEffect, Zenon
<1>2. ASSUME due = <<>> PROVE Shaped(h)'
  BY <1>1, <1>2, Zenon DEF Shaped
<1>3. ASSUME due # <<>> PROVE Shaped(h)'
  <2>1. Queued(h)'
    BY <1>1, <1>3, Zenon DEF Queued, First
  <2>2. QED  BY <1>1, <1>3, <2>1, Zenon DEF Shaped
<1>4. due \in Seq(Batches)
  <2>1. Batch(First(h), T) \in Seq(Batches) /\ Batch("reflect", U) \in Seq(Batches)
    BY BatchTyped, Zenon DEF First
  <2>2. QED  BY <2>1 DEF Both
<1>5. CallsOK'
  BY <1>4, ReturnTypes, Zenon DEF CallsOK
<1>6. QED  BY <1>2, <1>3, <1>5, Zenon

\* A session that moves on inside a handler, with the call it serves.
LEMMA GotoShaped ==
    ASSUME TypeOK, NEW h \in Federates, NEW step \in Steps \ {"idle", "send"},
           NEW c \in Calls, c.obj \in Objects, c.op \in Ops,
           step \in {"name", "insert", "candidates"} => c.op = "register",
           step \in {"route", "filter", "look"} => c.op = "update",
           step = "mark" => c.op \in {"register", "update"},
           step = "unmark" => c.op = "delete",
           out[h] = <<>>, call'[h] = c, Goto(h, step), UNCHANGED out
    PROVE  Shaped(h)' /\ pc' \in [Federates -> Steps]
<1>1. pc' = [pc EXCEPT ![h] = step]
  BY Zenon DEF Goto
<1>2. pc'[h] = step /\ pc' \in [Federates -> Steps]
  BY <1>1, Zenon DEF TypeOK, Steps
<1>3. step # "idle" /\ step # "send"
  OBVIOUS
<1>4. QED  BY <1>2, <1>3, Zenon DEF Shaped

\* The sets that are told are sets of federates.
LEMMA ToldTyped ==
    ASSUME TypeOK, NEW h \in Federates, NEW o
    PROVE  /\ call[h].to \in SUBSET Federates
           /\ call[h].to \cap members \in SUBSET Federates
           /\ NewlyDiscovered(call[h].to, o) \in SUBSET Federates
           /\ HadDiscovered(h, o) \in SUBSET Federates
<1>1. call[h].to \in SUBSET Federates /\ members \in SUBSET Federates
  BY Zenon DEF TypeOK, Calls
<1>2. QED  BY <1>1, Zenon DEF NewlyDiscovered, HadDiscovered

\* A handler that moves on with the call it has.
LEMMA MovedOn ==
    ASSUME TypeOK, NEW h \in Federates, Shaped(h), pc[h] # "send",
           NEW step \in Steps \ {"idle", "send"},
           NEW c \in Calls, c.obj \in Objects, c.op \in Ops,
           step \in {"name", "insert", "candidates"} => c.op = "register",
           step \in {"route", "filter", "look"} => c.op = "update",
           step = "mark" => c.op \in {"register", "update"},
           step = "unmark" => c.op = "delete",
           call' = [call EXCEPT ![h] = c], Goto(h, step), UNCHANGED out
    PROVE  Shaped(h)' /\ CallsOK'
<1>1. call \in [Federates -> Calls] /\ out \in [Federates -> Seq(Batches)]
  BY Zenon DEF TypeOK
<1>2. call'[h] = c /\ call' \in [Federates -> Calls]
  BY <1>1, Zenon
<1>3. out[h] = <<>>
  BY Zenon DEF Shaped
<1>4. Shaped(h)' /\ pc' \in [Federates -> Steps]
  BY <1>2, <1>3, GotoShaped, Zenon
<1>5. QED  BY <1>1, <1>2, <1>4, Zenon DEF CallsOK

\* Every step of register_object_instance leaves its call well shaped.
LEMMA RegistrationShaped ==
    ASSUME TypeOK, CallShape, NEW h \in Federates, Registration(h)
    PROVE  Shaped(h)' /\ CallsOK'
<1>c. /\ call \in [Federates -> Calls] /\ call[h] \in Calls /\ Shaped(h)
      /\ call = [call EXCEPT ![h] = call[h]]
  BY Zenon DEF TypeOK, CallShape
<1>1. ASSUME NEW name \in Requested \cup {None}, RegisterDraws(h, name)
      PROVE  Shaped(h)' /\ CallsOK'
  <2> DEFINE c == [NoCall EXCEPT !.op = "register", !.obj = next_object_id, !.name = name]
             step == IF name = None THEN "insert" ELSE "name"
  <2>1. next_object_id \in Objects
    BY <1>1, Zenon DEF RegisterDraws
  <2>2. c \in Calls /\ c.obj \in Objects /\ c.op = "register"
    BY <2>1, Zenon DEF NoCall, Calls
  <2>3. call' = [call EXCEPT ![h] = c] /\ Goto(h, step) /\ UNCHANGED out /\ pc[h] = "idle"
    BY <1>1, Zenon DEF RegisterDraws, Ask
  <2> HIDE DEF c
  <2>4. step \in {"insert", "name"}
    OBVIOUS
  <2> HIDE DEF step
  <2>5. QED  BY <1>c, <2>2, <2>3, <2>4, MovedOn, Zenon DEF Steps, Ops
<1>2. CASE RegisterName(h)
  <2>1. pc[h] = "name" /\ call[h].op = "register" /\ call[h].obj \in Objects
    BY <1>2, <1>c, Zenon DEF RegisterName, Shaped
  <2>2. CASE Return(h, <<>>)
    <3>1. <<>> = Both(First(h), {}, "reflect", {})
      BY OneBatch, Zenon
    <3>2. QED  BY <2>1, <2>2, <3>1, ReturnShaped, Zenon DEF Ops
  <2>3. CASE Goto(h, "insert") /\ UNCHANGED <<call, out>>
    BY <1>c, <2>1, <2>3, MovedOn, Zenon DEF Steps, Ops
  <2>4. QED  BY <1>2, <2>2, <2>3, Zenon DEF RegisterName
<1>3. CASE RegisterInserts(h)
  <2>1. pc[h] = "insert" /\ call[h].op = "register" /\ call[h].obj \in Objects
    BY <1>3, <1>c, Zenon DEF RegisterInserts, Shaped
  <2>2. Goto(h, "candidates") /\ UNCHANGED <<call, out>>
    BY <1>3, Zenon DEF RegisterInserts
  <2>3. QED  BY <1>c, <2>1, <2>2, MovedOn, Zenon DEF Steps, Ops
<1>4. CASE RegisterCandidates(h)
  <2> DEFINE c == [call[h] EXCEPT !.to = SubscribersFor(Attributes, h)]
  <2>1. pc[h] = "candidates" /\ call[h].op = "register" /\ call[h].obj \in Objects
    BY <1>4, <1>c, Zenon DEF RegisterCandidates, Shaped
  <2>2. c \in Calls /\ c.obj \in Objects /\ c.op = "register"
    BY <1>c, <2>1, SubscribersTyped, Zenon DEF Calls
  <2>3. call' = [call EXCEPT ![h] = c] /\ Goto(h, "mark") /\ UNCHANGED out
    BY <1>4, Zenon DEF RegisterCandidates
  <2> HIDE DEF c
  <2>4. QED  BY <1>c, <2>1, <2>2, <2>3, MovedOn, Zenon DEF Steps, Ops
<1>5. CASE RegisterMarks(h)
  <2> DEFINE T == NewlyDiscovered(call[h].to, call[h].obj)
  <2>1. call[h].op = "register" /\ call[h].obj \in Objects
    BY <1>5, <1>c, Zenon DEF RegisterMarks, Shaped
  <2>2. Batch("discover", T) = Both("discover", T, "reflect", {})
    BY OneBatch, Zenon
  <2>3. First(h) = "discover" /\ T \in SUBSET Federates /\ call[h].op \in Ops
    BY <2>1, ToldTyped, Zenon DEF First, Ops
  <2>4. Return(h, Batch("discover", T))
    BY <1>5, Zenon DEF RegisterMarks
  <2> HIDE DEF T
  <2>5. QED  BY <2>1, <2>2, <2>3, <2>4, ReturnShaped, Zenon
<1>6. QED  BY <1>1, <1>2, <1>3, <1>4, <1>5, Zenon DEF Registration

\* So does every step of update_attribute_values.
LEMMA UpdatingShaped ==
    ASSUME TypeOK, CallShape, NEW h \in Federates, Updating(h)
    PROVE  Shaped(h)' /\ CallsOK'
<1>c. /\ call \in [Federates -> Calls] /\ call[h] \in Calls /\ Shaped(h)
      /\ call = [call EXCEPT ![h] = call[h]]
  BY Zenon DEF TypeOK, CallShape
<1>1. ASSUME NEW o \in Objects, NEW attrs \in SUBSET Attributes,
             UpdateChecks(h, o, attrs)
      PROVE  Shaped(h)' /\ CallsOK'
  <2> DEFINE c == [NoCall EXCEPT !.op = "update", !.obj = o, !.attrs = attrs]
  <2>1. c \in Calls /\ c.obj \in Objects /\ c.op = "update"
    BY <1>1, Zenon DEF NoCall, Calls
  <2>2. call' = [call EXCEPT ![h] = c] /\ Goto(h, "route") /\ UNCHANGED out /\ pc[h] = "idle"
    BY <1>1, Zenon DEF UpdateChecks, Ask
  <2> HIDE DEF c
  <2>3. QED  BY <1>c, <2>1, <2>2, MovedOn, Zenon DEF Steps, Ops
<1>2. CASE UpdateRoutes(h)
  <2> DEFINE c == [call[h] EXCEPT !.to = SubscribersFor(call[h].attrs, h)]
  <2>1. pc[h] = "route" /\ call[h].op = "update" /\ call[h].obj \in Objects
    BY <1>2, <1>c, Zenon DEF UpdateRoutes, Shaped
  <2>2. c \in Calls /\ c.obj \in Objects /\ c.op = "update"
    BY <1>c, <2>1, SubscribersTyped, Zenon DEF Calls
  <2>3. call' = [call EXCEPT ![h] = c] /\ Goto(h, "filter") /\ UNCHANGED out
    BY <1>2, Zenon DEF UpdateRoutes
  <2> HIDE DEF c
  <2>4. QED  BY <1>c, <2>1, <2>2, <2>3, MovedOn, Zenon DEF Steps, Ops
<1>3. CASE UpdateFilters(h)
  <2>1. pc[h] = "filter" /\ call[h].op = "update" /\ call[h].obj \in Objects
    BY <1>3, <1>c, Zenon DEF UpdateFilters, Shaped
  <2>2. CASE Return(h, <<>>)
    <3>1. <<>> = Both(First(h), {}, "reflect", {})
      BY OneBatch, Zenon
    <3>2. QED  BY <2>1, <2>2, <3>1, ReturnShaped, Zenon DEF Ops
  <2>3. CASE Goto(h, "look") /\ UNCHANGED <<call, out>>
    BY <1>c, <2>1, <2>3, MovedOn, Zenon DEF Steps, Ops
  <2>4. QED  BY <1>3, <2>2, <2>3, Zenon DEF UpdateFilters
<1>4. CASE UpdateLooks(h)
  <2> DEFINE U == call[h].to \cap members
  <2>1. pc[h] = "look" /\ call[h].op = "update" /\ call[h].obj \in Objects
    BY <1>4, <1>c, Zenon DEF UpdateLooks, Shaped
  <2>2. CASE Return(h, Batch("reflect", U))
    <3>1. Batch("reflect", U) = Both(First(h), {}, "reflect", U)
      BY OneBatch
    <3>2. U \in SUBSET Federates
      BY ToldTyped, Zenon
    <3> HIDE DEF U
    <3>3. QED  BY <2>1, <2>2, <3>1, <3>2, ReturnShaped, Zenon DEF Ops
  <2>3. CASE Goto(h, "mark") /\ UNCHANGED <<call, out>>
    BY <1>c, <2>1, <2>3, MovedOn, Zenon DEF Steps, Ops
  <2>4. QED  BY <1>4, <2>2, <2>3, Zenon DEF UpdateLooks
<1>5. CASE UpdateMarks(h)
  <2> DEFINE T == NewlyDiscovered(call[h].to, call[h].obj)
             U == call[h].to \cap members
  <2>1. call[h].op = "update" /\ call[h].obj \in Objects
    BY <1>5, <1>c, Zenon DEF UpdateMarks, Shaped
  <2>2. First(h) = "discover" /\ call[h].op \in Ops
    BY <2>1, Zenon DEF First, Ops
  <2>3. T \in SUBSET Federates /\ U \in SUBSET Federates
    BY ToldTyped, Zenon
  <2>4. Return(h, Both("discover", T, "reflect", U))
    BY <1>5, Zenon DEF UpdateMarks, Both
  <2> HIDE DEF T, U
  <2>5. QED  BY <2>1, <2>2, <2>3, <2>4, ReturnShaped, Zenon
<1>6. QED  BY <1>1, <1>2, <1>3, <1>4, <1>5, Zenon DEF Updating

\* The calls on o, when o is deleted or forgotten, are late; the session
\* without a call is not one of them.
LEMMA LateCalls ==
    ASSUME TypeOK, CallShape, NEW h \in Federates, NEW o \in Objects, LocalDelete(h, o)
    PROVE  /\ call' \in [Federates -> Calls]
           /\ call'[h] = call[h]
           /\ \A g \in Federates : call[g].obj = o => call'[g].late
           /\ \A g \in Federates : call[g].obj # o => call'[g] = call[g]
<1>1. \A g \in Federates : call[g] \in Calls
  BY Zenon DEF TypeOK
<1>2. call' = [g \in Federates |-> IF call[g].obj = o THEN [call[g] EXCEPT !.late = TRUE]
                                                      ELSE call[g]]
  BY Zenon DEF LocalDelete, Busy
<1>3. call[h].obj # o
  BY NoCallApart, Zenon DEF LocalDelete, Ask, CallShape, Shaped
<1>4. call' \in [Federates -> Calls]
  BY <1>1, <1>2, LateAlike, Zenon
<1>5. \A g \in Federates : call[g].obj = o => call'[g].late
  BY <1>1, <1>2, LateAlike, Zenon
<1>6. \A g \in Federates : call[g].obj # o => call'[g] = call[g]
  BY <1>2, Zenon
<1>7. QED  BY <1>3, <1>4, <1>5, <1>6, Zenon

\* delete_object_instance takes over its own call, and marks as late the calls
\* of the others about the same instance.
LEMMA DeleteCalls ==
    ASSUME TypeOK, CallShape, NEW h \in Federates, NEW o \in Objects, DeleteRemoves(h, o)
    PROVE  /\ call' \in [Federates -> Calls]
           /\ call'[h] = [NoCall EXCEPT !.op = "delete", !.obj = o]
           /\ \A g \in Federates \ {h} : call[g].obj = o => call'[g].late
           /\ \A g \in Federates \ {h} : call[g].obj # o => call'[g] = call[g]
<1> DEFINE c == [NoCall EXCEPT !.op = "delete", !.obj = o]
<1>1. \A g \in Federates : call[g] \in Calls
  BY Zenon DEF TypeOK
<1>2. c \in Calls
  BY Zenon DEF NoCall, Calls
<1> HIDE DEF c
<1>3. call' = [g \in Federates |->
                 IF g = h THEN c
                 ELSE IF call[g].obj = o THEN [call[g] EXCEPT !.late = TRUE]
                 ELSE call[g]]
  <2>1. call[h].obj # o
    BY NoCallApart, Zenon DEF DeleteRemoves, Ask, CallShape, Shaped
  <2>2. h \notin Busy(o) /\ \A g \in Federates : g \in Busy(o) <=> call[g].obj = o
    BY <2>1, Zenon DEF Busy
  <2>3. call' = [g \in Federates |-> CASE g = h -> c
                                     [] g \in Busy(o) -> [call[g] EXCEPT !.late = TRUE]
                                     [] OTHER -> call[g]]
    BY Zenon DEF DeleteRemoves, c
  <2>4. \A g \in Federates :
           (CASE g = h -> c
              [] g \in Busy(o) -> [call[g] EXCEPT !.late = TRUE]
              [] OTHER -> call[g])
           = IF g = h THEN c
             ELSE IF call[g].obj = o THEN [call[g] EXCEPT !.late = TRUE]
             ELSE call[g]
    BY <2>2, Zenon
  <2>5. QED  BY <2>3, <2>4, Zenon
<1>4. call' \in [Federates -> Calls]
  BY <1>1, <1>2, <1>3, LateAlike, Zenon
<1>5. \A g \in Federates \ {h} : call[g].obj = o => call'[g].late
  BY <1>1, <1>3, LateAlike, Zenon
<1>6. \A g \in Federates \ {h} : call[g].obj # o => call'[g] = call[g]
  BY <1>3, Zenon
<1>7. call'[h] = c
  BY <1>3, Zenon
<1>8. QED  BY <1>4, <1>5, <1>6, <1>7, Zenon DEF c

\* Every step of delete_object_instance leaves its call well shaped.
LEMMA DeletionShaped ==
    ASSUME TypeOK, CallShape, NEW h \in Federates, Deletion(h)
    PROVE  Shaped(h)' /\ CallsOK'
<1>c. /\ call \in [Federates -> Calls] /\ call[h] \in Calls /\ Shaped(h)
      /\ pc \in [Federates -> Steps] /\ out \in [Federates -> Seq(Batches)]
  BY Zenon DEF TypeOK, CallShape, Steps
<1>1. ASSUME NEW o \in Objects, DeleteRemoves(h, o) PROVE Shaped(h)' /\ CallsOK'
  <2> DEFINE c == [NoCall EXCEPT !.op = "delete", !.obj = o]
  <2>1. c \in Calls /\ c.obj \in Objects /\ c.op = "delete"
    BY <1>1, Zenon DEF NoCall, Calls
  <2>2. call'[h] = c /\ call' \in [Federates -> Calls]
    BY <1>1, DeleteCalls, Zenon
  <2>3. Goto(h, "unmark") /\ UNCHANGED out /\ pc[h] = "idle"
    BY <1>1, Zenon DEF DeleteRemoves, Ask
  <2>4. out[h] = <<>>
    BY <1>c, <2>3, Zenon DEF Shaped
  <2> HIDE DEF c
  <2>5. Shaped(h)' /\ pc' \in [Federates -> Steps]
    BY <2>1, <2>2, <2>3, <2>4, GotoShaped, Zenon DEF Steps, Ops
  <2>6. QED  BY <1>c, <2>2, <2>3, <2>5, Zenon DEF CallsOK
<1>2. ASSUME NEW o \in Objects, LocalDelete(h, o) PROVE Shaped(h)' /\ CallsOK'
  <2>1. call' \in [Federates -> Calls] /\ call'[h] = call[h] /\ UNCHANGED <<pc, out>>
    BY <1>2, LateCalls, Zenon DEF LocalDelete
  <2>2. Shaped(h)'
    BY <1>c, <2>1, Zenon DEF Shaped, Queued, First
  <2>3. QED  BY <1>c, <2>1, <2>2, Zenon DEF CallsOK
<1>3. CASE DeleteUnmarks(h)
  <2> DEFINE T == HadDiscovered(h, call[h].obj)
  <2>1. call[h].op = "delete" /\ call[h].obj \in Objects
    BY <1>3, <1>c, Zenon DEF DeleteUnmarks, Shaped
  <2>2. Batch("remove", T) = Both("remove", T, "reflect", {})
    BY OneBatch, Zenon
  <2>3. First(h) = "remove" /\ call[h].op \in Ops
    BY <2>1, Zenon DEF First, Ops
  <2>4. T \in SUBSET Federates
    BY ToldTyped, Zenon
  <2>5. Return(h, Batch("remove", T))
    BY <1>3, Zenon DEF DeleteUnmarks
  <2> HIDE DEF T
  <2>6. QED  BY <2>1, <2>2, <2>3, <2>4, <2>5, ReturnShaped, Zenon
<1>4. QED  BY <1>1, <1>2, <1>3, Zenon DEF Deletion

\* What sending one callback leaves in the queue.
LEMMA SendEffect ==
    ASSUME TypeOK, CallShape, NEW h \in Federates, NEW f \in Federates, Send(h, f)
    PROVE  \E T, U, V, W \in SUBSET Federates :
              /\ out[h] = Both(First(h), T, "reflect", U)
              /\ call[h].op # "update" => U = {}
              /\ \/ f \in T /\ V = T \ {f} /\ W = U /\ Head(out[h]).cb = First(h)
                 \/ T = {} /\ f \in U /\ V = T /\ W = U \ {f} /\ Head(out[h]).cb = "reflect"
              /\ Return(h, Both(First(h), V, "reflect", W))
<1>1. Queued(h) /\ out[h] # <<>> /\ f \in Head(out[h]).to
  BY Zenon DEF Send, CallShape, Shaped
<1>2. PICK T, U \in SUBSET Federates :
         /\ out[h] = Both(First(h), T, "reflect", U)
         /\ call[h].op # "update" => U = {}
  BY <1>1, Zenon DEF Queued
<1>3. Return(h, Left(out[h], f))
  BY Zenon DEF Send, Left
<1>4. \/ /\ f \in T
         /\ Head(out[h]).cb = First(h)
         /\ Left(out[h], f) = Both(First(h), T \ {f}, "reflect", U)
      \/ /\ T = {} /\ f \in U
         /\ Head(out[h]).cb = "reflect"
         /\ Left(out[h], f) = Both(First(h), T, "reflect", U \ {f})
  <2>1. T # {} \/ U # {}
    BY <1>1, <1>2, OneBatch, Zenon
  <2>2. f \in Head(Both(First(h), T, "reflect", U)).to
    BY <1>1, <1>2, Zenon
  <2>3. \/ /\ f \in T
           /\ Sends(Both(First(h), T, "reflect", U), f, First(h),
                    Both(First(h), T \ {f}, "reflect", U))
        \/ /\ T = {} /\ f \in U
           /\ Sends(Both(First(h), T, "reflect", U), f, "reflect",
                    Both(First(h), T, "reflect", U \ {f}))
    BY <2>1, <2>2, LeftBatches, Zenon
  <2>4. QED  BY <1>2, <2>3, Zenon DEF Sends
<1>5. T \ {f} \in SUBSET Federates /\ U \ {f} \in SUBSET Federates
  OBVIOUS
<1>6. QED  BY <1>2, <1>3, <1>4, <1>5, Zenon

\* So do ownership, subscriptions, local deletion, delivery and resigning.
LEMMA SurroundingsShaped ==
    ASSUME TypeOK, CallShape, NEW h \in Federates, Ownership(h) \/ Surroundings(h)
    PROVE  Shaped(h)' /\ CallsOK'
<1>c. Shaped(h) /\ CallsOK
  BY Typed, Zenon DEF CallShape
<1>1. ASSUME UNCHANGED <<pc, call, out>> PROVE Shaped(h)' /\ CallsOK'
  BY <1>c, <1>1, Zenon DEF Shaped, Queued, First, CallsOK
<1>2. CASE Ownership(h)
  BY <1>2, <1>1, Zenon DEF Ownership, Acquire, Divest
<1>3. ASSUME NEW attrs, Subscribe(h, attrs) \/ Unsubscribe(h, attrs)
      PROVE  Shaped(h)' /\ CallsOK'
  BY <1>3, <1>1, Zenon DEF Subscribe, Unsubscribe
<1>4. CASE Resign(h)
  BY <1>4, <1>1, Zenon DEF Resign, callVars
<1>5. ASSUME NEW f \in Federates, Send(h, f) PROVE Shaped(h)' /\ CallsOK'
  <2>1. call[h].op \in Ops /\ call[h].obj \in Objects
    BY <1>c, <1>5, Zenon DEF Send, Shaped
  <2>2. PICK V, W \in SUBSET Federates :
           /\ call[h].op # "update" => W = {}
           /\ Return(h, Both(First(h), V, "reflect", W))
    BY <1>5, SendEffect, Zenon
  <2>3. QED  BY <2>1, <2>2, ReturnShaped, Zenon
<1>6. QED  BY <1>2, <1>3, <1>4, <1>5, Zenon DEF Surroundings

\* Every step leaves every call well shaped.
LEMMA ShapeNext ==
    ASSUME TypeOK, CallShape, NEW h \in Federates, StepOf(h)
    PROVE  CallShape' /\ CallsOK'
<1>1. Shaped(h)' /\ CallsOK'
  BY RegistrationShaped, UpdatingShaped, DeletionShaped, SurroundingsShaped, Zenon
     DEF StepOf
<1>2. \A g \in Federates \ {h} : Shaped(g)'
  BY OthersAlike, AlikeShaped, Zenon DEF CallShape
<1>3. QED  BY <1>1, <1>2, Zenon DEF CallShape

\* Every step keeps the types of the history.
LEMMA HistoryNext ==
    ASSUME TypeOK, CallShape, NEW h \in Federates, StepOf(h)
    PROVE  HistoryOK'
<1>t. HistoryOK /\ members \subseteq Federates /\ next_object_id \in Nat
  <2>1. next_object_id \in 1 .. MaxObject + 1
    BY Zenon DEF TypeOK
  <2>2. QED  BY <2>1, Typed, MaxObjectAssumption DEF WorldOK
<1>u. ASSUME UNCHANGED historyVars PROVE HistoryOK'
  BY <1>t, <1>u, Zenon DEF HistoryOK, historyVars
<1>1. CASE Registration(h)
  <2>1. ASSUME NEW name, RegisterDraws(h, name) PROVE HistoryOK'
    <3>1. early' \in [Objects -> SUBSET Federates]
      BY <1>t, <2>1, SubscribersTyped, Zenon DEF HistoryOK, RegisterDraws
    <3>2. QED  BY <1>t, <2>1, <3>1, Zenon DEF HistoryOK, RegisterDraws
  <2>2. CASE RegisterName(h)
    BY <1>t, <2>2, Zenon DEF HistoryOK, RegisterName
  <2>3. QED  BY <1>1, <1>u, <2>1, <2>2, Zenon
             DEF Registration, RegisterInserts, RegisterCandidates, RegisterMarks
<1>2. CASE Updating(h)
  BY <1>2, <1>u, Zenon DEF Updating, UpdateChecks, UpdateRoutes, UpdateFilters,
                           UpdateLooks, UpdateMarks
<1>3. CASE Deletion(h)
  <2>1. ASSUME NEW o \in Objects, DeleteRemoves(h, o) PROVE HistoryOK'
    <3>1. known' \in [Federates -> SUBSET Objects]
      BY <1>t, <2>1, Zenon DEF HistoryOK, DeleteRemoves
    <3>2. (IF Busy(o) # {} THEN Federates ELSE {h}) \X {o} \subseteq Federates \X Objects
      BY <2>1, Zenon
    <3>3. crossed' \subseteq Federates \X Objects
      BY <1>t, <2>1, <3>2, Zenon DEF HistoryOK, DeleteRemoves
    <3>4. QED  BY <1>t, <2>1, <3>1, <3>3, Zenon DEF HistoryOK, DeleteRemoves
  <2>2. ASSUME NEW o \in Objects, LocalDelete(h, o) PROVE HistoryOK'
    <3>1. known' \in [Federates -> SUBSET Objects] /\ early' \in [Objects -> SUBSET Federates]
      BY <1>t, <2>2, Zenon DEF HistoryOK, LocalDelete
    <3>2. <<h, o>> \in Federates \X Objects
      BY <2>2, Zenon
    <3>3. crossed' \subseteq Federates \X Objects
      BY <1>t, <2>2, <3>2, Zenon DEF HistoryOK, LocalDelete
    <3>4. QED  BY <3>1, <3>3, Zenon DEF HistoryOK
  <2>3. CASE DeleteUnmarks(h)
    BY <1>u, <2>3, Zenon DEF DeleteUnmarks
  <2>4. QED  BY <1>3, <2>1, <2>2, <2>3, Zenon DEF Deletion
<1>4. CASE Ownership(h)
  BY <1>4, <1>u, Zenon DEF Ownership, Acquire, Divest
<1>5. CASE Surroundings(h)
  <2>1. ASSUME NEW attrs, Subscribe(h, attrs) PROVE HistoryOK'
    BY <1>u, <2>1, Zenon DEF Subscribe
  <2>2. ASSUME NEW attrs, Unsubscribe(h, attrs) PROVE HistoryOK'
    <3>1. early' \in [Objects -> SUBSET Federates]
      BY <1>t, <2>2, Zenon DEF HistoryOK, Unsubscribe
    <3>2. QED  BY <1>t, <2>2, <3>1, Zenon DEF HistoryOK, Unsubscribe
  <2>3. CASE Resign(h)
    BY <1>u, <2>3, Zenon DEF Resign
  <2>4. ASSUME NEW f \in Federates, Send(h, f) PROVE HistoryOK'
    <3>1. call[h].obj \in Objects
      BY <2>4, Zenon DEF Send, CallShape, Shaped
    <3>2. known' \in [Federates -> SUBSET Objects]
      BY <1>t, <2>4, <3>1, Zenon DEF HistoryOK, Send, Heard
    <3>3. QED  BY <1>t, <2>4, <3>2, Zenon DEF HistoryOK, Send
  <2>5. QED  BY <1>5, <2>1, <2>2, <2>3, <2>4, Zenon DEF Surroundings
<1>6. QED  BY <1>1, <1>2, <1>3, <1>4, <1>5, Zenon DEF StepOf

\* Every step keeps the types.
LEMMA TypesNext ==
    ASSUME TypeOK, CallShape, Placed, NEW h \in Federates, StepOf(h)
    PROVE  TypeOK'
<1>1. WorldOK'
  BY WorldNext, Zenon DEF Next, StepOf
<1>2. CallsOK' /\ HistoryOK'
  BY ShapeNext, HistoryNext, Zenon
<1>3. QED  BY <1>1, <1>2, Zenon DEF TypeOK, WorldOK, CallsOK, HistoryOK, Steps

-----------------------------------------------------------------------------
(* Calls and instances.                                                    *)

\* A call that has ended, or is served on.
Kept(g) ==
    \/ pc'[g] = "idle" /\ call'[g] = NoCall
    \/ /\ Pending(g)' <=> Pending(g)
       /\ call'[g].op = call[g].op /\ call'[g].obj = call[g].obj
       /\ call'[g].name = call[g].name /\ call'[g].attrs = call[g].attrs
       /\ call[g].late => call'[g].late

\* A step that begins no call, leaves every instance where it is, and takes
\* no attribute from a federate whose session is serving a call.
Quiet ==
    /\ \A g \in Federates : Kept(g)
    /\ \A o \in Objects, a \in Attributes, g \in Federates :
          (Exists(o) /\ instances[o].owners[a] = g /\ pc[g] # "idle")
             => instances'[o].owners[a] = g
    /\ \A o \in Objects : /\ Exists(o)' <=> Exists(o)
                          /\ Exists(o) => instances'[o].name = instances[o].name
    /\ next_object_id' = next_object_id
    /\ crossed \subseteq crossed'

\* A session that does not move keeps what its call has pending.
LEMMA AlikeKept == ASSUME TypeOK, NEW g \in Federates, Alike(g) PROVE Kept(g)
BY AlikeCall, Zenon DEF Kept, Pending

\* A call that goes on to its callbacks, or ends, keeps it as well.
LEMMA ReturnKept ==
    ASSUME TypeOK, NEW h \in Federates, NEW due, Return(h, due), pc[h] # "insert",
           pc[h] # "name" \/ due = <<>>
    PROVE  Kept(h)
<1>1. CASE due = <<>>
  BY <1>1, ReturnEffect, Zenon DEF Kept
<1>2. CASE due # <<>>
  <2>1. pc'[h] = "send" /\ call'[h] = call[h]
    BY <1>2, ReturnEffect, Zenon
  <2>2. Pending(h)' <=> Pending(h)
    BY <1>2, <2>1, Zenon DEF Pending
  <2>3. QED  BY <2>1, <2>2, Zenon DEF Kept
<1>3. QED  BY <1>1, <1>2, Zenon

\* A handler that moves on with its call keeps it.
LEMMA GotoKept ==
    ASSUME TypeOK, NEW h \in Federates, NEW step, Goto(h, step),
           step \in {"name", "insert"} <=> Pending(h), NEW T,
           call' = call \/ call' = [call EXCEPT ![h].to = T]
    PROVE  Kept(h)
<1>1. pc'[h] = step
  BY Zenon DEF TypeOK, Goto
<1>2. call[h] \in Calls /\ (call'[h] = call[h] \/ call'[h] = [call[h] EXCEPT !.to = T])
  BY Zenon DEF TypeOK
<1>3. ASSUME NEW c \in Calls
      PROVE  LET d == [c EXCEPT !.to = T]
             IN  /\ d.op = c.op /\ d.obj = c.obj /\ d.name = c.name
                 /\ d.attrs = c.attrs /\ d.late = c.late
  BY Zenon DEF Calls
<1>4. /\ call'[h].op = call[h].op /\ call'[h].obj = call[h].obj
      /\ call'[h].name = call[h].name /\ call'[h].attrs = call[h].attrs
      /\ call'[h].late = call[h].late
  BY <1>2, <1>3, Zenon DEF TypeOK
<1>5. QED  BY <1>1, <1>4, Zenon DEF Kept, Pending

\* An ownership service takes what nobody owns, or gives up what is the caller's.
LEMMA Reowned ==
    ASSUME TypeOK, NEW h \in Federates, Ownership(h)
    PROVE  \E o \in Objects, w \in [Attributes -> Federates \cup {None}] :
              /\ Exists(o)
              /\ instances' = [instances EXCEPT ![o].owners = w]
              /\ \A a \in Attributes : \/ w[a] = instances[o].owners[a]
                                       \/ instances[o].owners[a] \in {h, None}
              /\ pc[h] = "idle"
              /\ UNCHANGED <<members, next_object_id, subscribed, discovered,
                             pc, call, out, historyVars>>
<1>1. PICK o \in Objects, attrs \in SUBSET Attributes :
         Acquire(h, o, attrs) \/ Divest(h, o, attrs)
  BY Zenon DEF Ownership
<1> DEFINE old == instances[o].owners
<1>2. Exists(o) /\ old \in [Attributes -> Federates \cup {None}]
  BY <1>1, Zenon DEF Acquire, Divest, TypeOK, Exists, Instances
<1>3. PICK w : /\ w = Acquired(old, h, attrs) \/ w = Divested(old, h, attrs)
               /\ instances' = [instances EXCEPT ![o].owners = w]
               /\ pc[h] = "idle"
               /\ UNCHANGED <<members, next_object_id, subscribed, discovered,
                              pc, call, out, historyVars>>
  BY <1>1, Zenon DEF Acquire, Divest, Ask
<1>4. /\ w \in [Attributes -> Federates \cup {None}]
      /\ \A a \in Attributes : w[a] = old[a] \/ old[a] \in {h, None}
  BY <1>2, <1>3, Zenon DEF Acquired, Divested
<1>5. QED  BY <1>2, <1>3, <1>4, Zenon

\* The steps that are not quiet begin a call, or insert an instance.
LEMMA QuietSteps ==
    ASSUME TypeOK, CallShape, NEW h \in Federates, StepOf(h)
    PROVE  \/ \E name \in Requested \cup {None} : RegisterDraws(h, name)
           \/ RegisterInserts(h)
           \/ \E o \in Objects, attrs \in SUBSET Attributes : UpdateChecks(h, o, attrs)
           \/ \E o \in Objects : DeleteRemoves(h, o)
           \/ Quiet
<1>o. \A g \in Federates \ {h} : Kept(g)
  BY OthersAlike, AlikeKept, Zenon
<1>q. ASSUME Kept(h), UNCHANGED <<instances, next_object_id, crossed>> PROVE Quiet
  BY <1>o, <1>q, Zenon DEF Quiet, Exists
<1>1. CASE Registration(h)
  <2>1. CASE RegisterName(h)
    <3>1. pc[h] = "name" /\ Pending(h)
      BY <2>1, Zenon DEF RegisterName, Pending
    <3>2. CASE Return(h, <<>>)
      <4>1. Kept(h)
        BY <3>1, <3>2, ReturnKept, Zenon
      <4>2. QED  BY <1>q, <2>1, <4>1, Zenon DEF RegisterName, worldVars
    <3>3. CASE Goto(h, "insert") /\ UNCHANGED call
      <4>1. Kept(h)
        BY <3>1, <3>3, GotoKept, Zenon
      <4>2. QED  BY <1>q, <2>1, <4>1, Zenon DEF RegisterName, worldVars
    <3>4. QED  BY <2>1, <3>2, <3>3, Zenon DEF RegisterName
  <2>2. CASE RegisterCandidates(h)
    <3>1. pc[h] = "candidates" /\ ~Pending(h)
      BY <2>2, Zenon DEF RegisterCandidates, Pending
    <3>2. Kept(h)
      BY <2>2, <3>1, GotoKept, Zenon DEF RegisterCandidates
    <3>3. QED  BY <1>q, <2>2, <3>2, Zenon DEF RegisterCandidates, worldVars, historyVars
  <2>3. CASE RegisterMarks(h)
    <3>1. pc[h] = "mark"
      BY <2>3, Zenon DEF RegisterMarks
    <3>2. Kept(h)
      BY <2>3, <3>1, ReturnKept, Zenon DEF RegisterMarks
    <3>3. QED  BY <1>q, <2>3, <3>2, Zenon DEF RegisterMarks, historyVars
  <2>4. QED  BY <1>1, <2>1, <2>2, <2>3, Zenon DEF Registration
<1>2. CASE Updating(h)
  <2>1. CASE UpdateRoutes(h)
    <3>1. pc[h] = "route" /\ ~Pending(h)
      BY <2>1, Zenon DEF UpdateRoutes, Pending
    <3>2. Kept(h)
      BY <2>1, <3>1, GotoKept, Zenon DEF UpdateRoutes
    <3>3. QED  BY <1>q, <2>1, <3>2, Zenon DEF UpdateRoutes, worldVars, historyVars
  <2>2. CASE UpdateFilters(h)
    <3>1. pc[h] = "filter" /\ ~Pending(h)
      BY <2>2, Zenon DEF UpdateFilters, Pending
    <3>2. CASE Return(h, <<>>)
      <4>1. Kept(h)
        BY <3>1, <3>2, ReturnKept, Zenon
      <4>2. QED  BY <1>q, <2>2, <4>1, Zenon DEF UpdateFilters, worldVars, historyVars
    <3>3. CASE Goto(h, "look") /\ UNCHANGED call
      <4>1. Kept(h)
        BY <3>1, <3>3, GotoKept, Zenon
      <4>2. QED  BY <1>q, <2>2, <4>1, Zenon DEF UpdateFilters, worldVars, historyVars
    <3>4. QED  BY <2>2, <3>2, <3>3, Zenon DEF UpdateFilters
  <2>3. CASE UpdateLooks(h)
    <3>1. pc[h] = "look" /\ ~Pending(h)
      BY <2>3, Zenon DEF UpdateLooks, Pending
    <3>2. CASE Return(h, Batch("reflect", call[h].to \cap members))
      <4>1. Kept(h)
        BY <3>1, <3>2, ReturnKept, Zenon
      <4>2. QED  BY <1>q, <2>3, <4>1, Zenon DEF UpdateLooks, worldVars, historyVars
    <3>3. CASE Goto(h, "mark") /\ UNCHANGED call
      <4>1. Kept(h)
        BY <3>1, <3>3, GotoKept, Zenon
      <4>2. QED  BY <1>q, <2>3, <4>1, Zenon DEF UpdateLooks, worldVars, historyVars
    <3>4. QED  BY <2>3, <3>2, <3>3, Zenon DEF UpdateLooks
  <2>4. CASE UpdateMarks(h)
    <3>1. pc[h] = "mark"
      BY <2>4, Zenon DEF UpdateMarks
    <3>2. Kept(h)
      BY <2>4, <3>1, ReturnKept, Zenon DEF UpdateMarks
    <3>3. QED  BY <1>q, <2>4, <3>2, Zenon DEF UpdateMarks, historyVars
  <2>5. QED  BY <1>2, <2>1, <2>2, <2>3, <2>4, Zenon DEF Updating
<1>3. CASE Deletion(h)
  <2>1. ASSUME NEW o \in Objects, LocalDelete(h, o) PROVE Quiet
    <3>1. call'[h] = call[h] /\ UNCHANGED pc
      BY <2>1, LateCalls, Zenon DEF LocalDelete
    <3>2. Kept(h)
      BY <3>1, Zenon DEF Kept, Pending
    <3>3. UNCHANGED <<instances, next_object_id>> /\ crossed \subseteq crossed'
      BY <2>1, Zenon DEF LocalDelete
    <3>4. QED  BY <1>o, <3>2, <3>3, Zenon DEF Quiet, Exists
  <2>2. CASE DeleteUnmarks(h)
    <3>1. pc[h] = "unmark"
      BY <2>2, Zenon DEF DeleteUnmarks
    <3>2. Kept(h)
      BY <2>2, <3>1, ReturnKept, Zenon DEF DeleteUnmarks
    <3>3. QED  BY <1>q, <2>2, <3>2, Zenon DEF DeleteUnmarks, historyVars
  <2>3. QED  BY <1>3, <2>1, <2>2, Zenon DEF Deletion
<1>4. CASE Ownership(h)
  <2>1. PICK o \in Objects, w \in [Attributes -> Federates \cup {None}] :
           /\ Exists(o)
           /\ instances' = [instances EXCEPT ![o].owners = w]
           /\ \A a \in Attributes : \/ w[a] = instances[o].owners[a]
                                    \/ instances[o].owners[a] \in {h, None}
           /\ pc[h] = "idle"
           /\ UNCHANGED <<pc, call, next_object_id, crossed>>
    BY <1>4, Reowned, Zenon DEF callVars, historyVars
  <2>3. instances \in [Objects -> Instances \cup {None}] /\ instances[o] \in Instances
    BY <2>1, Zenon DEF TypeOK, Exists
  <2>4. /\ [instances[o] EXCEPT !.owners = w].name = instances[o].name
        /\ [instances[o] EXCEPT !.owners = w].owners = w
        /\ [instances[o] EXCEPT !.owners = w] # None
    BY <2>3, InstanceAssumption, Zenon DEF Instances
  <2>5. Kept(h)
    BY <2>1, Zenon DEF Kept, Pending
  <2>6. ASSUME NEW p \in Objects, NEW a \in Attributes, NEW g \in Federates,
               instances[p].owners[a] = g, pc[g] # "idle"
        PROVE  instances'[p].owners[a] = g
    <3>1. g \notin {h, None}
      BY <2>1, <2>6, NoneAssumption, Zenon
    <3>2. CASE p = o
      BY <2>1, <2>3, <2>4, <2>6, <3>1, <3>2, Zenon
    <3>3. CASE p # o
      BY <2>1, <2>3, <2>6, <3>3, Zenon
    <3>4. QED  BY <3>2, <3>3, Zenon
  <2>7. \A p \in Objects : /\ Exists(p)' <=> Exists(p)
                           /\ Exists(p) => instances'[p].name = instances[p].name
    BY <2>1, <2>3, <2>4, Zenon DEF Exists
  <2>8. \A g \in Federates : Kept(g)
    BY <1>o, <2>5, Zenon
  <2>9. next_object_id' = next_object_id /\ crossed \subseteq crossed'
    BY <2>1, Zenon
  <2>f. \A p \in Objects, a \in Attributes, g \in Federates :
           instances[p].owners[a] = g /\ pc[g] # "idle" => instances'[p].owners[a] = g
    BY <2>6
  <2>10. Quiet
    BY <2>f, <2>7, <2>8, <2>9 DEF Quiet
  <2>11. QED  BY <2>10, Zenon
<1>5. CASE Surroundings(h)
  <2>1. ASSUME UNCHANGED <<pc, call, instances, next_object_id, crossed>> PROVE Quiet
    <3>1. Kept(h)
      BY <2>1, Zenon DEF Kept, Pending
    <3>2. QED  BY <1>q, <2>1, <3>1, Zenon
  <2>2. ASSUME NEW attrs, Subscribe(h, attrs) \/ Unsubscribe(h, attrs) PROVE Quiet
    BY <2>1, <2>2, Zenon DEF Subscribe, Unsubscribe, historyVars
  <2>3. CASE Resign(h)
    BY <2>1, <2>3, Zenon DEF Resign, callVars, historyVars
  <2>4. ASSUME NEW f \in Federates, Send(h, f) PROVE Quiet
    <3>1. pc[h] = "send"
      BY <2>4, Zenon DEF Send
    <3>2. Kept(h)
      BY <2>4, <3>1, ReturnKept, Zenon DEF Send
    <3>3. QED  BY <1>q, <2>4, <3>2, Zenon DEF Send, worldVars
  <2>5. QED  BY <1>5, <2>2, <2>3, <2>4, Zenon DEF Surroundings
<1>6. QED  BY <1>1, <1>2, <1>3, <1>4, <1>5, Zenon DEF StepOf

\* A call of a session is on no object, or on one.
LEMMA CallObject ==
    ASSUME TypeOK, CallShape, NEW g \in Federates
    PROVE  /\ call[g].obj \in Objects \/ (call[g].obj = 0 /\ call[g] = NoCall)
           /\ call[g].op # "none" => call[g].obj \in Objects
           /\ Pending(g) => call[g].obj \in Objects /\ call[g].op = "register"
<1>1. Shaped(g)
  BY Zenon DEF CallShape
<1>2. CASE pc[g] = "idle"
  BY <1>1, <1>2, NoCallApart, Zenon DEF Shaped, Pending
<1>3. CASE pc[g] # "idle"
  BY <1>1, <1>3, Zenon DEF Shaped, Pending
<1>4. QED  BY <1>2, <1>3, Zenon

\* A step that neither draws, inserts, checks nor removes keeps every call
\* where it is placed.
LEMMA PlacedQuiet == ASSUME TypeOK, CallShape, Placed, Quiet PROVE Placed'
<1> SUFFICES ASSUME NEW k \in Federates
             PROVE  /\ call'[k].obj < next_object_id'
                    /\ PendingFree(k)' /\ DeletedGone(k)' /\ Overtaken(k)'
  BY Zenon DEF Placed
<1>n. next_object_id' = next_object_id /\ 0 < next_object_id
  BY MaxObjectAssumption DEF Quiet, TypeOK
<1>k. /\ call[k].obj < next_object_id
      /\ PendingFree(k) /\ DeletedGone(k) /\ Overtaken(k) /\ Kept(k)
  BY Zenon DEF Placed, Quiet
<1>g. \A g \in Federates : \/ call'[g].obj = 0 /\ call'[g].op = "none"
                           \/ call'[g].obj = call[g].obj /\ call'[g].op = call[g].op
  BY NoCallApart, Zenon DEF Quiet, Kept
<1>1. CASE pc'[k] = "idle" /\ call'[k] = NoCall
  <2>1. ~Pending(k)' /\ ~Serving(k)' /\ call'[k].op # "delete" /\ call'[k].obj = 0
    BY <1>1, NoCallApart, Zenon DEF Pending, Serving
  <2>2. QED  BY <1>n, <2>1, Zenon DEF PendingFree, DeletedGone, Overtaken
<1>2. CASE /\ Pending(k)' <=> Pending(k)
           /\ call'[k].op = call[k].op /\ call'[k].obj = call[k].obj
           /\ call[k].late => call'[k].late
  <2>1. call'[k].obj < next_object_id'
    BY <1>k, <1>n, <1>2, Zenon
  <2>o. call[k].obj \in Objects \/ call[k].op = "none"
    BY CallObject, NoCallApart, Zenon
  <2>p. /\ Pending(k) => call[k].obj \in Objects
        /\ call[k].obj \in Objects => call[k].obj # 0
    BY CallObject DEF Objects
  <2>e. call[k].obj \in Objects => (Exists(call[k].obj)' <=> Exists(call[k].obj))
    BY <1>2, Zenon DEF Quiet, Exists
  <2>2. PendingFree(k)'
    <3> SUFFICES ASSUME Pending(k)'
                 PROVE  /\ ~Exists(call[k].obj)'
                        /\ \A g \in Federates \ {k} : call'[g].obj # call'[k].obj
      BY Zenon DEF PendingFree
    <3>1. Pending(k)
      BY <1>2, Zenon
    <3>2. QED  BY <3>1, <1>k, <1>g, <1>2, <2>p, <2>e, Zenon DEF PendingFree
  <2>3. DeletedGone(k)'
    <3> SUFFICES ASSUME call[k].op = "delete" PROVE DeletedGone(k)'
      BY <1>2, Zenon DEF DeletedGone
    <3>1. call[k].obj \in Objects
      BY <2>o, Zenon
    <3>2. /\ ~Exists(call[k].obj) /\ <<k, call[k].obj>> \in crossed
          /\ \A g \in Federates \ {k} : call[g].op = "delete" => call[g].obj # call[k].obj
      BY <1>k, Zenon DEF DeletedGone
    <3>3. \A g \in Federates \ {k} : call'[g].op = "delete" => call'[g].obj # call'[k].obj
      BY <1>g, <1>2, <3>2, Zenon
    <3>4. <<k, call'[k].obj>> \in crossed'
      BY <1>2, <3>2, Zenon DEF Quiet
    <3>5. ~Exists(call[k].obj)'
      BY <2>e, <3>1, <3>2, Zenon
    <3>6. QED  BY <3>3, <3>4, <3>5, Zenon DEF DeletedGone
  <2>4. Overtaken(k)'
    <3> SUFFICES ASSUME Serving(k)', ~Exists(call[k].obj)' PROVE Overtaken(k)'
      BY Zenon DEF Overtaken
    <3>1. Serving(k)
      BY <1>2, Zenon DEF Serving
    <3>2. call[k].obj \in Objects
      BY <3>1, <2>o, Zenon DEF Serving
    <3>3. call[k].late /\ \A f \in Federates : <<f, call[k].obj>> \in crossed
      BY <1>k, <2>e, <3>1, <3>2, Zenon DEF Overtaken
    <3>4. call'[k].late
      BY <1>2, <3>3, Zenon
    <3>5. \A f \in Federates : <<f, call'[k].obj>> \in crossed'
      BY <1>2, <3>3, Zenon DEF Quiet
    <3>6. QED  BY <3>4, <3>5, Zenon DEF Overtaken
  <2>5. QED  BY <2>1, <2>2, <2>3, <2>4, Zenon
<1>3. QED  BY <1>k, <1>1, <1>2, Zenon DEF Kept

\* What the step of another session keeps of k, when k's instance is there as
\* before and the session's new call is on another, or only on the same when
\* that does not matter.
LEMMA PlacedOther ==
    ASSUME TypeOK, CallShape, NEW h \in Federates, NEW k \in Federates \ {h}, Alike(k),
           \A g \in Federates \ {h} : Alike(g),
           PendingFree(k), DeletedGone(k), Overtaken(k),
           call[k].obj \in Objects => (Exists(call[k].obj)' <=> Exists(call[k].obj)),
           crossed \subseteq crossed',
           Pending(k) => call'[h].obj # call[k].obj,
           call[k].op = "delete" /\ call'[h].op = "delete" => call'[h].obj # call[k].obj
    PROVE  PendingFree(k)' /\ DeletedGone(k)' /\ Overtaken(k)'
<1>1. \A g \in Federates \ {h} : /\ call'[g].obj = call[g].obj /\ call'[g].op = call[g].op
                                 /\ pc'[g] = pc[g] /\ (call[g].late => call'[g].late)
  BY AlikeCall, Zenon
<1>2. /\ Pending(k)' <=> Pending(k)
      /\ Serving(k)' <=> Serving(k)
  BY <1>1, Zenon DEF Pending, Serving
<1>3. call[k].obj \in Objects \/ (call[k].op = "none" /\ ~Pending(k))
  BY CallObject, NoCallApart, Zenon
<1>e. call'[k].obj = call[k].obj /\ call'[k].op = call[k].op /\ (call[k].late => call'[k].late)
  BY <1>1, Zenon
<1>4. PendingFree(k)'
  <2> SUFFICES ASSUME Pending(k) PROVE PendingFree(k)'
    BY <1>2, Zenon DEF PendingFree
  <2>1. ~Exists(call[k].obj)'
    BY <1>3, Zenon DEF PendingFree
  <2>2. \A g \in Federates \ {k} : call'[g].obj # call'[k].obj
    BY <1>1, <1>e, Zenon DEF PendingFree
  <2>3. QED  BY <2>1, <2>2, Zenon DEF PendingFree
<1>5. DeletedGone(k)'
  <2> SUFFICES ASSUME call[k].op = "delete" PROVE DeletedGone(k)'
    BY <1>e, Zenon DEF DeletedGone
  <2>1. ~Exists(call[k].obj)'
    BY <1>3, Zenon DEF DeletedGone
  <2>2. <<k, call'[k].obj>> \in crossed'
    BY <1>e, Zenon DEF DeletedGone
  <2>3. \A g \in Federates \ {k} : call'[g].op = "delete" => call'[g].obj # call'[k].obj
    BY <1>1, <1>e, Zenon DEF DeletedGone
  <2>4. QED  BY <2>1, <2>2, <2>3, Zenon DEF DeletedGone
<1>6. Overtaken(k)'
  <2> SUFFICES ASSUME Serving(k), ~Exists(call[k].obj)' PROVE Overtaken(k)'
    BY <1>2, Zenon DEF Overtaken
  <2>1. ~Exists(call[k].obj)
    BY <1>3, Zenon DEF Serving
  <2>2. call'[k].late /\ \A f \in Federates : <<f, call'[k].obj>> \in crossed'
    BY <1>e, <2>1, Zenon DEF Overtaken
  <2>3. QED  BY <2>2, Zenon DEF Overtaken
<1>7. QED  BY <1>4, <1>5, <1>6, Zenon

\* A handle that is drawn is above every handle a call holds.
LEMMA PlacedDraws ==
    ASSUME TypeOK, CallShape, Placed, NEW h \in Federates, NEW name, RegisterDraws(h, name),
           \A g \in Federates \ {h} : Alike(g)
    PROVE  Placed'
<1> DEFINE n == next_object_id
<1>1. /\ call'[h].obj = n /\ call'[h].op = "register"
      /\ n \in Objects /\ instances' = instances /\ crossed' = crossed
  <2>1. call'[h] = [NoCall EXCEPT !.op = "register", !.obj = n, !.name = name]
    BY Zenon DEF RegisterDraws, TypeOK
  <2>2. call'[h].obj = n /\ call'[h].op = "register"
    BY <2>1, Zenon DEF NoCall
  <2>3. QED  BY <2>2, Zenon DEF RegisterDraws
<1>2. next_object_id' = n + 1 /\ n \in Nat /\ \A g \in Federates : call[g].obj \in Nat
  BY MaxObjectAssumption DEF RegisterDraws, TypeOK, Calls, Objects
<1>3. \A g \in Federates \ {h} : call'[g].obj = call[g].obj
  BY AlikeCall, Zenon
<1>4. \A g \in Federates : call[g].obj < n
  BY Zenon DEF Placed
<1>5. \A g \in Federates : call'[g].obj < next_object_id'
  BY <1>1, <1>2, <1>3, <1>4
<1>6. \A g \in Federates \ {h} : call[g].obj # n
  BY <1>2, <1>4
<1>7. PendingFree(h)'
  <2>1. ~Exists(n)
    BY <1>1, <1>2 DEF TypeOK, Existing
  <2>2. QED  BY <1>1, <1>3, <1>6, <2>1, Zenon DEF PendingFree, Exists
<1>8. DeletedGone(h)'
  BY <1>1, Zenon DEF DeletedGone
<1>9. Pending(h)'
  BY Zenon DEF RegisterDraws, Goto, TypeOK, Pending
<1>10. Overtaken(h)'
  BY <1>9, Zenon DEF Overtaken, Serving
<1>11. ASSUME NEW k \in Federates \ {h} PROVE PendingFree(k)' /\ DeletedGone(k)' /\ Overtaken(k)'
  <2>1. Exists(call[k].obj)' <=> Exists(call[k].obj)
    BY <1>1, <1>3, Zenon DEF Exists
  <2>2. PendingFree(k) /\ DeletedGone(k) /\ Overtaken(k) /\ Alike(k)
    BY Zenon DEF Placed
  <2>3. call'[h].obj # call[k].obj
    BY <1>1, <1>6, Zenon
  <2> HIDE DEF n
  <2>4. QED  BY <1>1, <2>1, <2>2, <2>3, PlacedOther, Zenon
<1>12. QED  BY <1>5, <1>7, <1>8, <1>10, <1>11, Zenon DEF Placed

\* The instance that is inserted is pending in no other call.
LEMMA PlacedInserts ==
    ASSUME TypeOK, CallShape, Placed, NEW h \in Federates, RegisterInserts(h),
           \A g \in Federates \ {h} : Alike(g)
    PROVE  Placed'
<1>1. /\ Pending(h) /\ call[h].op = "register" /\ call[h].obj \in Objects
      /\ call' = call /\ crossed' = crossed /\ next_object_id' = next_object_id
  BY CallObject, Zenon DEF RegisterInserts, Pending, historyVars
<1>2. ~Pending(h)'
  BY Zenon DEF RegisterInserts, Goto, TypeOK, Pending
<1>3. /\ Exists(call[h].obj)'
      /\ \A o \in Objects : o # call[h].obj => instances'[o] = instances[o]
  BY <1>1, NewInstanceTyped, Zenon DEF RegisterInserts, TypeOK, Exists
<1>4. PendingFree(h)' /\ DeletedGone(h)' /\ Overtaken(h)'
  BY <1>1, <1>2, <1>3, Zenon DEF PendingFree, DeletedGone, Overtaken
<1>5. ASSUME NEW k \in Federates \ {h} PROVE PendingFree(k)' /\ DeletedGone(k)' /\ Overtaken(k)'
  <2>1. call[k].obj # call[h].obj
    BY <1>1, Zenon DEF Placed, PendingFree
  <2>2. call[k].obj \in Objects => (Exists(call[k].obj)' <=> Exists(call[k].obj))
    BY <1>1, <1>3, <2>1, Zenon DEF Exists
  <2>3. PendingFree(k) /\ DeletedGone(k) /\ Overtaken(k) /\ Alike(k)
    BY Zenon DEF Placed
  <2>4. call'[h].obj # call[k].obj
    BY <1>1, <2>1, Zenon
  <2>5. QED  BY <1>1, <2>2, <2>3, <2>4, PlacedOther, Zenon
<1>6. QED  BY <1>1, <1>4, <1>5, Zenon DEF Placed

\* An update that passes its check is about an instance that exists.
LEMMA PlacedChecks ==
    ASSUME TypeOK, CallShape, Placed, NEW h \in Federates, NEW o \in Objects, NEW attrs,
           UpdateChecks(h, o, attrs), \A g \in Federates \ {h} : Alike(g)
    PROVE  Placed'
<1>1. call'[h].obj = o /\ call'[h].op = "update"
  <2>1. call'[h] = [NoCall EXCEPT !.op = "update", !.obj = o, !.attrs = attrs]
    BY Zenon DEF UpdateChecks, TypeOK
  <2>2. QED  BY <2>1, Zenon DEF NoCall
<1>2. /\ Exists(o) /\ instances' = instances /\ crossed' = crossed
      /\ next_object_id' = next_object_id
  BY Zenon DEF UpdateChecks, worldVars, historyVars
<1>3. ~Pending(h)'
  BY Zenon DEF UpdateChecks, Goto, TypeOK, Pending
<1>4. o < next_object_id
  BY <1>2, Zenon DEF TypeOK, Existing
<1>5. PendingFree(h)' /\ DeletedGone(h)' /\ Overtaken(h)'
  BY <1>1, <1>2, <1>3, Zenon DEF PendingFree, DeletedGone, Overtaken, Exists
<1>6. ASSUME NEW k \in Federates \ {h}
      PROVE  PendingFree(k)' /\ DeletedGone(k)' /\ Overtaken(k)' /\ call'[k].obj < next_object_id'
  <2>1. PendingFree(k) /\ DeletedGone(k) /\ Overtaken(k) /\ Alike(k) /\ call[k].obj < next_object_id
    BY Zenon DEF Placed
  <2>2. Exists(call[k].obj)' <=> Exists(call[k].obj)
    BY <1>2, <2>1, AlikeCall, Zenon DEF Exists
  <2>3. Pending(k) => call'[h].obj # call[k].obj
    BY <1>1, <1>2, <2>1, Zenon DEF PendingFree
  <2>4. call'[k].obj < next_object_id'
    BY <1>2, <2>1, AlikeCall, Zenon
  <2>5. call'[h].op # "delete"
    BY <1>1, Zenon
  <2>6. QED  BY <1>2, <2>1, <2>2, <2>3, <2>4, <2>5, PlacedOther, Zenon
<1>7. QED  BY <1>1, <1>2, <1>4, <1>5, <1>6, Zenon DEF Placed

\* A removal overtakes every other call about the instance.
LEMMA PlacedRemoves ==
    ASSUME TypeOK, CallShape, Placed, NEW h \in Federates, NEW o \in Objects,
           DeleteRemoves(h, o), \A g \in Federates \ {h} : Alike(g)
    PROVE  Placed'
<1>1. call'[h].obj = o /\ call'[h].op = "delete"
  <2>1. call'[h] = [NoCall EXCEPT !.op = "delete", !.obj = o]
    BY DeleteCalls, Zenon
  <2>2. QED  BY <2>1, Zenon DEF NoCall
<1>2. /\ Exists(o) /\ ~Exists(o)'
      /\ \A p \in Objects : p # o => instances'[p] = instances[p]
      /\ crossed \subseteq crossed' /\ <<h, o>> \in crossed'
      /\ Busy(o) # {} => \A f \in Federates : <<f, o>> \in crossed'
      /\ next_object_id' = next_object_id
  <2>1. /\ Exists(o) /\ ~Exists(o)' /\ next_object_id' = next_object_id
        /\ \A p \in Objects : p # o => instances'[p] = instances[p]
    BY Zenon DEF DeleteRemoves, TypeOK, Exists
  <2>2. /\ crossed \subseteq crossed' /\ <<h, o>> \in crossed'
        /\ Busy(o) # {} => \A f \in Federates : <<f, o>> \in crossed'
    BY Zenon DEF DeleteRemoves
  <2>3. QED  BY <2>1, <2>2, Zenon
<1>3. ~Pending(h)'
  BY Zenon DEF DeleteRemoves, Goto, TypeOK, Pending
<1>4. o < next_object_id
  BY <1>2, Zenon DEF TypeOK, Existing
<1>5. \A g \in Federates \ {h} : call[g].op = "delete" => call[g].obj # o
  BY <1>2, Zenon DEF Placed, DeletedGone
<1>6. PendingFree(h)' /\ DeletedGone(h)' /\ Overtaken(h)'
  <2>1. \A g \in Federates \ {h} : call'[g].op = "delete" => call'[g].obj # o
    BY <1>5, AlikeCall
  <2>2. PendingFree(h)' /\ Overtaken(h)'
    BY <1>1, <1>3, Zenon DEF PendingFree, Overtaken, Serving
  <2>3. DeletedGone(h)'
    BY <1>1, <1>2, <2>1, Zenon DEF DeletedGone, Exists
  <2>4. QED  BY <2>2, <2>3, Zenon
<1>7. ASSUME NEW k \in Federates \ {h}
      PROVE  PendingFree(k)' /\ DeletedGone(k)' /\ Overtaken(k)' /\ call'[k].obj < next_object_id'
  <2>1. PendingFree(k) /\ DeletedGone(k) /\ Overtaken(k) /\ Alike(k) /\ call[k].obj < next_object_id
    BY Zenon DEF Placed
  <2>a. call'[k].obj = call[k].obj /\ call'[k].op = call[k].op /\ pc'[k] = pc[k]
    BY <2>1, AlikeCall, Zenon
  <2>2. call'[k].obj < next_object_id'
    BY <1>2, <2>1, <2>a, Zenon
  <2>3. CASE call[k].obj # o
    <3>1. call[k].obj \in Objects => (Exists(call[k].obj)' <=> Exists(call[k].obj))
      BY <1>2, <2>a, <2>3, Zenon DEF Exists
    <3>2. QED  BY <1>1, <1>2, <2>1, <2>2, <2>3, <3>1, PlacedOther, Zenon
  <2>4. CASE call[k].obj = o
    <3>1. ~Pending(k)' /\ call'[k].op # "delete"
      BY <1>2, <1>5, <2>1, <2>4, <2>a, Zenon DEF PendingFree, Pending
    <3>2. call'[k].late
      BY <2>4, DeleteCalls, Zenon
    <3>3. \A f \in Federates : <<f, call'[k].obj>> \in crossed'
      BY <1>2, <2>4, <2>a, Zenon DEF Busy
    <3>4. QED  BY <2>2, <3>1, <3>2, <3>3, Zenon DEF PendingFree, DeletedGone, Overtaken
  <2>5. QED  BY <2>3, <2>4, Zenon
<1>8. QED  BY <1>1, <1>2, <1>4, <1>6, <1>7, Zenon DEF Placed

\* Every step keeps types, shapes and places.
LEMMA PlacedNext ==
    ASSUME TypeOK, CallShape, Placed, NEW h \in Federates, StepOf(h)
    PROVE  TypeOK' /\ CallShape' /\ Placed'
<1>1. Placed'
  BY OthersAlike, QuietSteps, PlacedQuiet, PlacedDraws, PlacedInserts, PlacedChecks,
     PlacedRemoves, Zenon
<1>2. QED  BY <1>1, TypesNext, ShapeNext, Zenon

-----------------------------------------------------------------------------
(* One writer.                                                             *)

Writers == WriterOwns /\ SingleWriter

\* Nobody writes in the initial state.
LEMMA WritersInit == Init => Writers
<1> SUFFICES ASSUME Init PROVE Writers
  OBVIOUS
<1>1. \A h \in Federates : call[h].op # "update"
  BY NoCallApart, Zenon DEF Init
<1>2. QED  BY <1>1, Zenon DEF Writers, WriterOwns, SingleWriter, Updates

\* Every step keeps one writer for each attribute of an instance.
LEMMA WritersNext ==
    ASSUME TypeOK, CallShape, Placed, Writers, NEW h \in Federates, StepOf(h)
    PROVE  Writers'
<1>a. \A g \in Federates \ {h}, o \in Objects, a \in Attributes :
         Updates(g, o, a)' => Updates(g, o, a)
  BY OthersAlike, AlikeCall, Zenon DEF Updates
<1>s. ASSUME \A o \in Objects, a \in Attributes : ~Updates(h, o, a)' PROVE SingleWriter'
  <2> SUFFICES ASSUME NEW g \in Federates, NEW k \in Federates, NEW p \in Objects,
                      NEW a \in Attributes, Updates(g, p, a)', Updates(k, p, a)'
               PROVE  g = k
    BY Zenon DEF SingleWriter
  <2>1. g # h /\ k # h
    BY <1>s, Zenon
  <2>2. Updates(g, p, a) /\ Updates(k, p, a)
    BY <1>a, <2>1, Zenon
  <2>3. QED  BY <2>2, Zenon DEF Writers, SingleWriter
<1>w. ASSUME NEW g \in Federates, NEW o \in Objects, NEW a \in Attributes,
             Updates(g, o, a), Exists(o)
      PROVE  instances[o].owners[a] = g
  BY <1>w, Zenon DEF Writers, WriterOwns
<1>1. ASSUME NEW name, RegisterDraws(h, name) PROVE Writers'
  <2>1. call'[h] = [NoCall EXCEPT !.op = "register", !.obj = next_object_id, !.name = name]
    BY <1>1, Zenon DEF RegisterDraws, TypeOK
  <2>2. call'[h].op # "update"
    BY <2>1, Zenon DEF NoCall
  <2>3. \A o \in Objects, a \in Attributes : ~Updates(h, o, a)'
    BY <2>2, Zenon DEF Updates
  <2>4. instances' = instances
    BY <1>1, Zenon DEF RegisterDraws
  <2>5. ASSUME NEW g \in Federates, NEW o \in Objects, NEW a \in Attributes,
               Updates(g, o, a)', Exists(o)'
        PROVE  instances'[o].owners[a] = g
    <3>1. Updates(g, o, a) /\ Exists(o)
      BY <1>a, <2>3, <2>4, <2>5, Zenon DEF Exists
    <3>2. WriterOwns
      BY Zenon DEF Writers
    <3>3. QED  BY <2>4, <3>1, <3>2, Zenon DEF WriterOwns
  <2>6. QED  BY <1>s, <2>3, <2>5, Zenon DEF Writers, WriterOwns
<1>2. CASE RegisterInserts(h)
  <2>1. Pending(h) /\ call[h].op = "register" /\ call[h].obj \in Objects /\ call' = call
    BY <1>2, CallObject, Zenon DEF RegisterInserts, Pending
  <2>2. \A o \in Objects, a \in Attributes : ~Updates(h, o, a)'
    BY <2>1, Zenon DEF Updates
  <2>3. \A o \in Objects : o # call[h].obj => instances'[o] = instances[o]
    BY <1>2, Zenon DEF RegisterInserts, TypeOK
  <2>4. \A g \in Federates \ {h} : call[g].obj # call[h].obj
    BY <2>1, Zenon DEF Placed, PendingFree
  <2>5. ASSUME NEW g \in Federates, NEW o \in Objects, NEW a \in Attributes,
               Updates(g, o, a)', Exists(o)'
        PROVE  instances'[o].owners[a] = g
    <3>1. g # h /\ Updates(g, o, a) /\ o # call[h].obj
      BY <1>a, <2>2, <2>4, <2>5, Zenon DEF Updates
    <3>2. instances'[o] = instances[o] /\ Exists(o)
      BY <2>3, <2>5, <3>1, Zenon DEF Exists
    <3>3. WriterOwns
      BY Zenon DEF Writers
    <3>4. QED  BY <3>1, <3>2, <3>3 DEF WriterOwns
  <2>6. QED  BY <1>s, <2>2, <2>5, Zenon DEF Writers, WriterOwns
<1>3. ASSUME NEW o \in Objects, NEW attrs, UpdateChecks(h, o, attrs) PROVE Writers'
  <2>1. call'[h] = [NoCall EXCEPT !.op = "update", !.obj = o, !.attrs = attrs]
    BY <1>3, Zenon DEF UpdateChecks, TypeOK
  <2>2. call'[h].obj = o /\ call'[h].attrs = attrs
    BY <2>1, Zenon DEF NoCall
  <2>3. instances' = instances /\ Exists(o) /\ \A a \in attrs : instances[o].owners[a] = h
    BY <1>3, Zenon DEF UpdateChecks, OwnsAll, worldVars
  <2>4. \A p \in Objects, a \in Attributes :
           Updates(h, p, a)' => p = o /\ instances[o].owners[a] = h
    BY <2>2, <2>3, Zenon DEF Updates
  <2>5. WriterOwns'
    <3> SUFFICES ASSUME NEW g \in Federates, NEW p \in Objects, NEW a \in Attributes,
                        Updates(g, p, a)', Exists(p)
                 PROVE  instances[p].owners[a] = g
      BY <2>3, Zenon DEF WriterOwns, Exists
    <3>1. CASE g = h
      BY <2>4, <3>1, Zenon
    <3>2. CASE g # h
      BY <1>a, <1>w, <3>2, Zenon
    <3>3. QED  BY <3>1, <3>2, Zenon
  <2>6. SingleWriter'
    <3> SUFFICES ASSUME NEW g \in Federates, NEW k \in Federates, NEW p \in Objects,
                        NEW a \in Attributes, Updates(g, p, a)', Updates(k, p, a)'
                 PROVE  g = k
      BY Zenon DEF SingleWriter
    <3>1. CASE g # h /\ k # h
      BY <1>a, <3>1, Zenon DEF Writers, SingleWriter
    <3>2. CASE g = h \/ k = h
      <4>1. p = o
        BY <2>4, <3>2, Zenon
      <4>2. \A i \in Federates : Updates(i, p, a)' => instances[o].owners[a] = i
        <5> SUFFICES ASSUME NEW i \in Federates, Updates(i, p, a)'
                     PROVE  instances[o].owners[a] = i
          OBVIOUS
        <5>1. CASE i = h
          BY <2>4, <5>1, Zenon
        <5>2. CASE i # h
          <6>1. Updates(i, p, a)
            BY <1>a, <5>2, Zenon
          <6>2. QED  BY <1>w, <2>3, <4>1, <6>1, Zenon
        <5>3. QED  BY <5>1, <5>2, Zenon
      <4>3. QED  BY <4>2, Zenon
    <3>3. QED  BY <3>1, <3>2, Zenon
  <2>7. QED  BY <2>5, <2>6, Zenon DEF Writers
<1>4. ASSUME NEW o \in Objects, DeleteRemoves(h, o) PROVE Writers'
  <2>1. call'[h] = [NoCall EXCEPT !.op = "delete", !.obj = o]
    BY <1>4, DeleteCalls, Zenon
  <2>2. call'[h].op # "update"
    BY <2>1, Zenon DEF NoCall
  <2>3. \A p \in Objects, a \in Attributes : ~Updates(h, p, a)'
    BY <2>2, Zenon DEF Updates
  <2>4. \A p \in Objects : Exists(p)' => instances'[p] = instances[p] /\ Exists(p)
    BY <1>4, Zenon DEF DeleteRemoves, TypeOK, Exists
  <2>5. WriterOwns'
    <3> SUFFICES ASSUME NEW g \in Federates, NEW p \in Objects, NEW a \in Attributes,
                        Updates(g, p, a)', Exists(p)'
                 PROVE  instances'[p].owners[a] = g
      BY Zenon DEF WriterOwns
    <3>1. Updates(g, p, a)
      BY <1>a, <2>3, Zenon
    <3>2. instances'[p] = instances[p] /\ Exists(p)
      BY <2>4, Zenon
    <3>3. QED  BY <1>w, <3>1, <3>2, Zenon
  <2>6. QED  BY <1>s, <2>3, <2>5, Zenon DEF Writers
<1>5. CASE Quiet
  <2>1. \A g \in Federates, o \in Objects, a \in Attributes :
           Updates(g, o, a)' => Updates(g, o, a)
    BY <1>5, NoCallApart, Zenon DEF Quiet, Kept, Updates
  <2>2. SingleWriter'
    BY <2>1, Zenon DEF Writers, SingleWriter
  <2>3. ASSUME NEW g \in Federates, NEW o \in Objects, NEW a \in Attributes,
               Updates(g, o, a), Exists(o)
        PROVE  instances'[o].owners[a] = g
    <3>1. pc[g] # "idle"
      BY <2>3, NoCallApart, Zenon DEF Updates, CallShape, Shaped
    <3>2. instances[o].owners[a] = g
      BY <2>3, Zenon DEF Writers, WriterOwns
    <3>3. QED  BY <1>5, <2>3, <3>1, <3>2, Zenon DEF Quiet
  <2>4. WriterOwns'
    <3> SUFFICES ASSUME NEW g \in Federates, NEW p \in Objects, NEW a \in Attributes,
                        Updates(g, p, a)', Exists(p)'
                 PROVE  instances'[p].owners[a] = g
      BY Zenon DEF WriterOwns
    <3>1. Updates(g, p, a) /\ Exists(p)
      BY <1>5, <2>1, Zenon DEF Quiet
    <3>2. QED  BY <2>3, <3>1, Zenon
  <2>5. QED  BY <2>2, <2>4, Zenon DEF Writers
<1>6. QED  BY <1>1, <1>2, <1>3, <1>4, <1>5, QuietSteps, Zenon

-----------------------------------------------------------------------------
(* Names.                                                                  *)

Names == NamesPassed /\ NamesUnique

\* No name is in use in the initial state.
LEMMA NamesInit == Init => Names
<1> SUFFICES ASSUME Init PROVE Names
  OBVIOUS
<1>1. Existing = {} /\ \A h \in Federates : pc[h] # "insert"
  BY Zenon DEF Init, Existing, Exists
<1>2. QED  BY <1>1, Zenon DEF Names, NamesPassed, NamesUnique, Passed, Claims

\* Whoever comes to insert an instance has drawn a handle without a name, or
\* passed the check.
LEMMA InsertSteps ==
    ASSUME TypeOK, CallShape, NEW h \in Federates, StepOf(h)
    PROVE  \/ \E name \in Requested \cup {None} : RegisterDraws(h, name)
           \/ RegisterName(h)
           \/ pc'[h] # "insert" /\ raced' = raced
<1>g. ASSUME NEW step, Goto(h, step), step # "insert" PROVE pc'[h] # "insert"
  BY <1>g, Zenon DEF Goto, TypeOK
<1>r. ASSUME NEW due, Return(h, due) PROVE pc'[h] # "insert"
  BY <1>r, <1>g, Zenon DEF Return
<1>i. ASSUME pc[h] = "idle", UNCHANGED pc PROVE pc'[h] # "insert"
  BY <1>i, Zenon
<1>1. CASE Registration(h)
  <2>1. CASE RegisterInserts(h)
    BY <2>1, <1>g, Zenon DEF RegisterInserts, historyVars
  <2>2. CASE RegisterCandidates(h)
    BY <2>2, <1>g, Zenon DEF RegisterCandidates, historyVars
  <2>3. CASE RegisterMarks(h)
    BY <2>3, <1>r, Zenon DEF RegisterMarks, historyVars
  <2>4. QED  BY <1>1, <2>1, <2>2, <2>3, Zenon DEF Registration
<1>2. CASE Updating(h)
  <2>1. ASSUME NEW o, NEW attrs, UpdateChecks(h, o, attrs) PROVE pc'[h] # "insert" /\ raced' = raced
    BY <2>1, <1>g, Zenon DEF UpdateChecks, historyVars
  <2>2. CASE UpdateRoutes(h)
    BY <2>2, <1>g, Zenon DEF UpdateRoutes, historyVars
  <2>3. CASE UpdateFilters(h)
    BY <2>3, <1>g, <1>r, Zenon DEF UpdateFilters, historyVars
  <2>4. CASE UpdateLooks(h)
    BY <2>4, <1>g, <1>r, Zenon DEF UpdateLooks, historyVars
  <2>5. CASE UpdateMarks(h)
    BY <2>5, <1>r, Zenon DEF UpdateMarks, historyVars
  <2>6. QED  BY <1>2, <2>1, <2>2, <2>3, <2>4, <2>5, Zenon DEF Updating
<1>3. CASE Deletion(h)
  <2>1. ASSUME NEW o, DeleteRemoves(h, o) PROVE pc'[h] # "insert" /\ raced' = raced
    BY <2>1, <1>g, Zenon DEF DeleteRemoves
  <2>2. ASSUME NEW o, LocalDelete(h, o) PROVE pc'[h] # "insert" /\ raced' = raced
    BY <2>2, <1>i, Zenon DEF LocalDelete, Ask
  <2>3. CASE DeleteUnmarks(h)
    BY <2>3, <1>r, Zenon DEF DeleteUnmarks, historyVars
  <2>4. QED  BY <1>3, <2>1, <2>2, <2>3, Zenon DEF Deletion
<1>4. CASE Ownership(h)
  BY <1>4, <1>i, Zenon DEF Ownership, Acquire, Divest, Ask, historyVars
<1>5. CASE Surroundings(h)
  <2>1. ASSUME NEW attrs, Subscribe(h, attrs) \/ Unsubscribe(h, attrs)
        PROVE  pc'[h] # "insert" /\ raced' = raced
    BY <2>1, <1>i, Zenon DEF Subscribe, Unsubscribe, Ask, historyVars
  <2>2. CASE Resign(h)
    BY <2>2, <1>i, Zenon DEF Resign, callVars, historyVars
  <2>3. ASSUME NEW f, Send(h, f) PROVE pc'[h] # "insert" /\ raced' = raced
    BY <2>3, <1>r, Zenon DEF Send
  <2>4. QED  BY <1>5, <2>1, <2>2, <2>3, Zenon DEF Surroundings
<1>6. QED  BY <1>1, <1>2, <1>3, <1>4, <1>5, Zenon DEF StepOf

\* Names stay right when nobody comes to claim one and no instance is added.
LEMMA NamesFrame ==
    ASSUME Names,
           \A name : \A g \in Federates : Claims(g, name)' => Claims(g, name),
           \A o \in Objects : Exists(o)' => Exists(o) /\ instances'[o].name = instances[o].name,
           raced \subseteq raced'
    PROVE  Names'
<1>1. \A o \in Existing' : o \in Existing /\ instances'[o].name = instances[o].name
  BY Zenon DEF Existing
<1>2. NamesUnique'
  BY <1>1, Zenon DEF Names, NamesUnique
<1>3. ASSUME NEW name \in Requested PROVE Passed(name)'
  <2>1. Passed(name)
    BY Zenon DEF Names, NamesPassed
  <2>2. QED  BY <1>1, <2>1, Zenon DEF Passed
<1>4. QED  BY <1>2, <1>3, Zenon DEF Names, NamesPassed

\* A registration passes the check of its name, or joins those that raced.
LEMMA NamesChecked ==
    ASSUME TypeOK, CallShape, Names, NEW h \in Federates, RegisterName(h)
    PROVE  Names'
<1>1. \A g \in Federates \ {h} : Alike(g)
  BY OthersAlike, Zenon DEF StepOf, Registration
<1>2. ASSUME NEW g \in Federates \ {h}, NEW name, Claims(g, name)' PROVE Claims(g, name)
  BY <1>1, <1>2, AlikeCall, Zenon DEF Claims
<1>3. instances' = instances /\ raced \subseteq raced'
  BY Zenon DEF RegisterName, worldVars
<1>i. \A o \in Objects : Exists(o)' => Exists(o) /\ instances'[o].name = instances[o].name
  BY <1>3, Zenon DEF Exists
<1>4. CASE Return(h, <<>>)
  <2>1. pc'[h] = "idle"
    BY <1>4, ReturnEffect, Zenon
  <2>2. \A name : ~Claims(h, name)'
    BY <2>1, Zenon DEF Claims
  <2>3. QED  BY <1>2, <1>3, <1>i, <2>2, NamesFrame, Zenon
<1>5. CASE ~NameInUse(call[h].name) /\ Goto(h, "insert") /\ UNCHANGED call
             /\ raced' = IF \E g \in Federates : pc[g] = "insert" /\ call[g].name = call[h].name
                           THEN raced \cup {call[h].name} ELSE raced
  <2>e. Existing' = Existing
    BY <1>3, Zenon DEF Existing, Exists
  <2>1. NamesUnique'
    BY <1>3, <2>e, Zenon DEF Names, NamesUnique
  <2>2. ASSUME NEW name \in Requested PROVE Passed(name)'
    <3>1. Passed(name)
      BY Zenon DEF Names, NamesPassed
    <3>2. CASE name # call[h].name
      <4>1. ~Claims(h, name)'
        BY <1>5, <3>2, Zenon DEF Claims
      <4>2. \A g \in Federates : Claims(g, name)' => Claims(g, name)
        BY <1>2, <4>1, Zenon
      <4>3. QED  BY <1>3, <2>e, <3>1, <4>2, Zenon DEF Passed
    <3>3. CASE name = call[h].name
      <4>1. \A o \in Existing : instances[o].name # name
        BY <1>5, <3>3, Zenon DEF NameInUse
      <4>2. ASSUME NEW g \in Federates \ {h}, Claims(g, name)' PROVE name \in raced'
        <5>1. pc[g] = "insert" /\ call[g].name = call[h].name
          BY <1>2, <3>3, <4>2, Zenon DEF Claims
        <5>2. QED  BY <1>5, <3>3, <5>1, Zenon
      <4>3. \A g, k \in Federates :
               Claims(g, name)' /\ Claims(k, name)' /\ g # k => name \in raced'
        BY <4>2, Zenon
      <4>4. QED  BY <1>3, <2>e, <4>1, <4>3, Zenon DEF Passed
    <3>4. QED  BY <3>2, <3>3, Zenon
  <2>3. QED  BY <2>1, <2>2, Zenon DEF Names, NamesPassed
<1>6. QED  BY <1>4, <1>5, Zenon DEF RegisterName

\* An instance that is inserted has a name nobody else has, or one that raced.
LEMMA NamesInserted ==
    ASSUME TypeOK, CallShape, Placed, Names, NEW h \in Federates, RegisterInserts(h)
    PROVE  Names'
<1> DEFINE o == call[h].obj
           n == call[h].name
<1>1. o \in Objects /\ ~Exists(o) /\ n \in Requested \cup {None}
  <2>1. Pending(h)
    BY Zenon DEF RegisterInserts, Pending
  <2>2. n \in Requested \cup {None}
    BY Zenon DEF TypeOK, Calls
  <2>3. QED  BY <2>1, <2>2, CallObject, Zenon DEF Placed, PendingFree
<1>2. /\ instances'[o].name = IF n = None THEN AutoName[o] ELSE n
      /\ \A p \in Objects : p # o => instances'[p] = instances[p]
  <2>1. instances' = [instances EXCEPT ![o] = NewInstance(h)]
    BY Zenon DEF RegisterInserts
  <2>2. NewInstance(h).name = IF n = None THEN AutoName[o] ELSE n
    BY Zenon DEF NewInstance
  <2>3. QED  BY <1>1, <2>1, <2>2, Zenon DEF TypeOK
<1>3. call' = call /\ raced' = raced /\ pc[h] = "insert"
      /\ pc' = [pc EXCEPT ![h] = "candidates"]
  BY Zenon DEF RegisterInserts, historyVars, Goto
<1>4. \A name : \A g \in Federates : Claims(g, name)' => Claims(g, name) /\ g # h
  BY <1>3, Zenon DEF Claims, TypeOK
<1>5. \A p \in Existing' : p = o \/ (p \in Existing /\ instances'[p].name = instances[p].name)
  BY <1>2, Zenon DEF Existing, Exists
<1>6. n # None => Claims(h, n) /\ Passed(n)
  BY <1>1, <1>3, Zenon DEF Claims, Names, NamesPassed
<1> HIDE DEF o, n
<1>7. ASSUME NEW p \in Existing, instances[p].name = instances'[o].name
      PROVE  instances'[o].name \in raced \cup {AutoName[o], AutoName[p]}
  <2>1. CASE n = None
    BY <1>2, <2>1, Zenon
  <2>2. CASE n # None
    <3>1. instances'[o].name = n
      BY <1>2, <2>2, Zenon
    <3>2. n \in raced \cup {AutoName[p]}
      BY <1>6, <1>7, <2>2, <3>1, Zenon DEF Passed
    <3>3. QED  BY <3>1, <3>2, Zenon
  <2>3. QED  BY <2>1, <2>2, Zenon
<1>8. NamesUnique'
  <2> SUFFICES ASSUME NEW p \in Existing', NEW q \in Existing', p # q,
                      instances'[p].name = instances'[q].name
               PROVE  instances'[p].name \in raced' \cup {AutoName[p], AutoName[q]}
    BY Zenon DEF NamesUnique
  <2>1. CASE p # o /\ q # o
    <3>1. /\ p \in Existing /\ instances'[p].name = instances[p].name
          /\ q \in Existing /\ instances'[q].name = instances[q].name
      BY <1>5, <2>1, Zenon
    <3>2. QED  BY <1>3, <3>1, Zenon DEF Names, NamesUnique
  <2>2. CASE p = o
    <3>1. q \in Existing /\ instances'[q].name = instances[q].name
      BY <1>5, <2>2, Zenon
    <3>2. QED  BY <1>3, <1>7, <2>2, <3>1, Zenon
  <2>3. CASE q = o
    <3>1. p \in Existing /\ instances'[p].name = instances[p].name
      BY <1>5, <2>3, Zenon
    <3>2. QED  BY <1>3, <1>7, <2>3, <3>1, Zenon
  <2>4. QED  BY <2>1, <2>2, <2>3, Zenon
<1>9. ASSUME NEW name \in Requested PROVE Passed(name)'
  <2>1. Passed(name)
    BY Zenon DEF Names, NamesPassed
  <2>2. \A g, k \in Federates :
           Claims(g, name)' /\ Claims(k, name)' /\ g # k => name \in raced'
    BY <1>3, <1>4, <2>1, Zenon DEF Passed
  <2>3. ASSUME NEW g \in Federates, NEW p \in Existing', Claims(g, name)',
               instances'[p].name = name
        PROVE  name \in raced' \cup {AutoName[p]}
    <3>1. Claims(g, name) /\ g # h
      BY <1>4, <2>3, Zenon
    <3>2. CASE p # o
      BY <1>3, <1>5, <2>1, <2>3, <3>1, <3>2, Zenon DEF Passed
    <3>3. CASE p = o /\ n = None
      BY <1>2, <2>3, <3>3, Zenon
    <3>4. CASE p = o /\ n # None
      <4>1. name = n
        BY <1>2, <2>3, <3>4, Zenon
      <4>2. Claims(h, name)
        BY <1>6, <3>4, <4>1, Zenon
      <4>3. QED  BY <1>3, <2>1, <3>1, <4>2, Zenon DEF Passed
    <3>5. QED  BY <3>2, <3>3, <3>4, Zenon
  <2>4. QED  BY <2>2, <2>3, Zenon DEF Passed
<1>10. QED  BY <1>8, <1>9, Zenon DEF Names, NamesPassed

\* Every step keeps the names unique.
LEMMA NamesNext ==
    ASSUME TypeOK, CallShape, Placed, Names, NEW h \in Federates, StepOf(h)
    PROVE  Names'
<1>a. \A name : \A g \in Federates \ {h} : Claims(g, name)' => Claims(g, name)
  BY OthersAlike, AlikeCall, Zenon DEF Claims
<1>1. ASSUME NEW name, RegisterDraws(h, name) PROVE Names'
  <2>1. call'[h] = [NoCall EXCEPT !.op = "register", !.obj = next_object_id, !.name = name]
    BY <1>1, Zenon DEF RegisterDraws, TypeOK
  <2>2. call'[h].name = name
    BY <2>1, Zenon DEF NoCall
  <2>3. pc'[h] = IF name = None THEN "insert" ELSE "name"
    BY <1>1, Zenon DEF RegisterDraws, Goto, TypeOK
  <2>4. \A n : ~Claims(h, n)'
    BY <2>2, <2>3, Zenon DEF Claims
  <2>5. instances' = instances /\ raced' = raced
    BY <1>1, Zenon DEF RegisterDraws
  <2>6. QED  BY <1>a, <2>4, <2>5, NamesFrame, Zenon DEF Exists
<1>2. CASE RegisterName(h)
  BY <1>2, NamesChecked, Zenon
<1>3. CASE RegisterInserts(h)
  BY <1>3, NamesInserted, Zenon
<1>4. CASE ~RegisterInserts(h) /\ pc'[h] # "insert" /\ raced' = raced
           /\ ~\E name \in Requested \cup {None} : RegisterDraws(h, name)
  <2>1. \A name : \A g \in Federates : Claims(g, name)' => Claims(g, name)
    BY <1>a, <1>4, Zenon DEF Claims
  <2>2. \A o \in Objects : Exists(o)' => Exists(o) /\ instances'[o].name = instances[o].name
    <3>1. ASSUME NEW o, NEW attrs, UpdateChecks(h, o, attrs)
          PROVE  \A p \in Objects : Exists(p)' => Exists(p) /\ instances'[p].name = instances[p].name
      BY <3>1, Zenon DEF UpdateChecks, worldVars, Exists
    <3>2. ASSUME NEW o \in Objects, DeleteRemoves(h, o)
          PROVE  \A p \in Objects : Exists(p)' => Exists(p) /\ instances'[p].name = instances[p].name
      BY <3>2, Zenon DEF DeleteRemoves, TypeOK, Exists
    <3>3. CASE Quiet
      BY <3>3, Zenon DEF Quiet
    <3>4. QED  BY <1>4, <3>1, <3>2, <3>3, QuietSteps, Zenon
  <2>3. QED  BY <1>4, <2>1, <2>2, NamesFrame, Zenon
<1>5. QED  BY <1>1, <1>2, <1>3, <1>4, InsertSteps, Zenon

-----------------------------------------------------------------------------
(* What is due.                                                            *)

\* What is due is what is in the queue.
LEMMA DueQueue ==
    ASSUME NEW h, NEW cb, NEW f
    PROVE  /\ Due(h, cb, f) <=> DueIn(out[h], cb, f)
           /\ Due(h, cb, f)' <=> DueIn(out'[h], cb, f)
BY Zenon DEF Due, DueIn

\* Only a session that sends has something due: a deletion removals, an update
\* reflections, and it or a registration discoveries.
LEMMA DueOf ==
    ASSUME TypeOK, CallShape, NEW h \in Federates, NEW cb, NEW f, Due(h, cb, f)
    PROVE  /\ pc[h] = "send" /\ call[h].obj \in Objects /\ ~Pending(h)
           /\ cb = "discover" => Serving(h)
           /\ cb = "remove" => call[h].op = "delete"
           /\ cb = "reflect" => Serving(h) /\ call[h].op = "update"
<1>1. Shaped(h) /\ DueIn(out[h], cb, f)
  BY DueQueue, Zenon DEF CallShape
<1>2. ~DueIn(<<>>, cb, f)
  BY DueShort, Zenon
<1>3. pc[h] = "send"
  BY <1>1, <1>2, Zenon DEF Shaped
<1>4. call[h].obj \in Objects /\ call[h].op \in Ops /\ Queued(h) /\ ~Pending(h)
  BY <1>1, <1>3, Zenon DEF Shaped, Pending
<1>5. PICK T, U \in SUBSET Federates :
         out[h] = Both(First(h), T, "reflect", U) /\ (call[h].op # "update" => U = {})
  BY <1>4, Zenon DEF Queued
<1>b. DueIn(Both(First(h), T, "reflect", U), cb, f)
         <=> (cb = First(h) /\ f \in T) \/ (cb = "reflect" /\ f \in U)
  BY DueBatches
<1>6. (cb = First(h) /\ f \in T) \/ (cb = "reflect" /\ f \in U)
  BY <1>1, <1>5, <1>b, Zenon
<1>7. cb = First(h) \/ (cb = "reflect" /\ call[h].op = "update")
  BY <1>5, <1>6, Zenon
<1>8. QED  BY <1>3, <1>4, <1>7, Zenon DEF First, Serving, Ops

\* A call that is served on has the same due.
LEMMA AlikeDue ==
    ASSUME TypeOK, NEW g \in Federates, Alike(g)
    PROVE  /\ \A cb, f : Due(g, cb, f)' <=> Due(g, cb, f)
           /\ \A o, f : Telling(g, o, f)' <=> Telling(g, o, f)
           /\ \A o, f : Removing(g, o, f)' <=> Removing(g, o, f)
           /\ \A o, f : Ending(g, o, f)' <=> Ending(g, o, f)
<1>1. /\ pc'[g] = pc[g] /\ out'[g] = out[g]
      /\ call'[g].op = call[g].op /\ call'[g].obj = call[g].obj
  BY AlikeCall, Zenon
<1>2. \A cb, f : Due(g, cb, f)' <=> Due(g, cb, f)
  BY <1>1, DueQueue, Zenon
<1>3. QED  BY <1>1, <1>2, Zenon DEF Telling, Removing, Ending

\* What a session has due when it returns, for the call that it has.
LEMMA ReturnDue ==
    ASSUME TypeOK, NEW h \in Federates, NEW c, NEW T, NEW U,
           Return(h, Both(c, T, "reflect", U))
    PROVE  \A cb, f :
              /\ Due(h, cb, f)' <=> (cb = c /\ f \in T) \/ (cb = "reflect" /\ f \in U)
              /\ Due(h, cb, f)' => call'[h] = call[h]
<1> DEFINE s == Both(c, T, "reflect", U)
<1>1. /\ out'[h] = s
      /\ s # <<>> => pc'[h] = "send" /\ call'[h] = call[h]
  BY ReturnEffect, Zenon
<1>2. \A cb, f : DueIn(s, cb, f) <=> (cb = c /\ f \in T) \/ (cb = "reflect" /\ f \in U)
  BY DueBatches
<1>3. \A cb, f : DueIn(s, cb, f) => s # <<>>
  BY DueShort, Zenon
<1> HIDE DEF s
<1>4. QED  BY <1>1, <1>2, <1>3, DueQueue, Zenon

\* An instance is there for f, or its deletion crossed no call of f.
There(f, o) == Exists(o) \/ <<f, o>> \notin crossed

\* Who is told of an instance that is there is told of one that exists; who is
\* told of a removal, of one that is gone.
LEMMA TellingThere ==
    ASSUME TypeOK, CallShape, Placed, NEW g \in Federates, NEW f \in Federates, NEW o
    PROVE  /\ Telling(g, o, f) /\ There(f, o) => Exists(o)
           /\ Removing(g, o, f) => call[g].op = "delete" /\ ~Exists(o)
           /\ Serving(g) /\ call[g].obj = o /\ There(f, o) => Exists(o)
<1>1. Overtaken(g) /\ DeletedGone(g)
  BY Zenon DEF Placed
<1>2. Serving(g) /\ call[g].obj = o /\ There(f, o) => Exists(o)
  BY <1>1, Zenon DEF Overtaken, There
<1>3. Telling(g, o, f) => Serving(g) /\ call[g].obj = o
  BY DueOf, Zenon DEF Telling
<1>4. Removing(g, o, f) => call[g].op = "delete" /\ call[g].obj = o
  BY DueOf, Zenon DEF Removing
<1>5. QED  BY <1>1, <1>2, <1>3, <1>4, Zenon DEF DeletedGone

-----------------------------------------------------------------------------
(* Steps that mark, unmark, tell or forget, and the others.                *)

\* A registration or an update marks its candidates.
Marks(h) ==
    \E U \in SUBSET (call[h].to \cap members) :
       /\ pc[h] = "mark" /\ Serving(h) /\ call[h].obj \in Objects
       /\ Mark(call[h].to, call[h].obj)
       /\ Return(h, Both("discover", NewlyDiscovered(call[h].to, call[h].obj), "reflect", U))
       /\ UNCHANGED <<members, instances, next_object_id, subscribed, known, early, crossed>>

\* A deletion unmarks those that it tells.
Unmarks(h) ==
    /\ pc[h] = "unmark" /\ call[h].op = "delete" /\ call[h].obj \in Objects
    /\ discovered' = [f \in Federates |->
                        IF f \in HadDiscovered(h, call[h].obj)
                          THEN discovered[f] \ {call[h].obj} ELSE discovered[f]]
    /\ Return(h, Both("remove", HadDiscovered(h, call[h].obj), "reflect", {}))
    /\ UNCHANGED <<members, instances, next_object_id, subscribed, known, early, crossed>>

\* Nobody is told or forgets, unless it is a reflection that comes too late.
Calm(h) ==
    /\ pc[h] \notin {"send", "unmark"}
    /\ \A cb, f : Due(h, cb, f)' => cb = "reflect" /\ call'[h].late
    /\ UNCHANGED <<known, discovered, crossed>>
    /\ members' \subseteq members

\* A session that moves on inside its handler, or ends without callbacks, has
\* nothing due.
LEMMA CalmMoves ==
    ASSUME TypeOK, CallShape, NEW h \in Federates, pc[h] \notin {"send", "unmark"},
           UNCHANGED <<known, discovered, crossed>>, members' \subseteq members,
           out'[h] = out[h] \/ out'[h] = <<>>
    PROVE  Calm(h)
<1>1. out[h] = <<>>
  BY Zenon DEF CallShape, Shaped
<1>2. \A cb, f : ~DueIn(<<>>, cb, f)
  BY DueShort, Zenon
<1>3. \A cb, f : ~Due(h, cb, f)'
  BY <1>1, <1>2, DueQueue, Zenon
<1>4. QED  BY <1>3, Zenon DEF Calm

\* Every step marks, unmarks, sends, forgets, removes, or is calm.
LEMMA OutSteps ==
    ASSUME TypeOK, CallShape, Placed, NEW h \in Federates, StepOf(h)
    PROVE  \/ Marks(h)
           \/ Unmarks(h)
           \/ \E f \in Federates : Send(h, f)
           \/ \E o \in Objects : LocalDelete(h, o)
           \/ \E o \in Objects : DeleteRemoves(h, o)
           \/ Calm(h)
<1>s. Shaped(h)
  BY Zenon DEF CallShape
<1>r. ASSUME NEW due, Return(h, due) PROVE out'[h] = due
  BY <1>r, ReturnEffect, Zenon
<1>1. CASE Registration(h)
  <2>1. ASSUME NEW name, RegisterDraws(h, name) PROVE Calm(h)
    <3>1. pc[h] \notin {"send", "unmark"}
      BY <2>1, Zenon DEF RegisterDraws, Ask
    <3>2. QED  BY <2>1, <3>1, CalmMoves, Zenon DEF RegisterDraws
  <2>2. CASE RegisterName(h)
    <3>1. pc[h] \notin {"send", "unmark"}
      BY <2>2, Zenon DEF RegisterName
    <3>2. out'[h] = out[h] \/ out'[h] = <<>>
      BY <2>2, <1>r, Zenon DEF RegisterName
    <3>3. QED  BY <2>2, <3>1, <3>2, CalmMoves, Zenon DEF RegisterName, worldVars
  <2>3. CASE RegisterInserts(h)
    <3>1. pc[h] \notin {"send", "unmark"}
      BY <2>3, Zenon DEF RegisterInserts
    <3>2. QED  BY <2>3, <3>1, CalmMoves, Zenon DEF RegisterInserts, historyVars
  <2>4. CASE RegisterCandidates(h)
    <3>1. pc[h] \notin {"send", "unmark"}
      BY <2>4, Zenon DEF RegisterCandidates
    <3>2. QED  BY <2>4, <3>1, CalmMoves, Zenon DEF RegisterCandidates, historyVars, worldVars
  <2>5. CASE RegisterMarks(h)
    <3> DEFINE T == NewlyDiscovered(call[h].to, call[h].obj)
    <3>1. pc[h] = "mark" /\ call[h].op = "register" /\ call[h].obj \in Objects
      BY <2>5, <1>s, Zenon DEF RegisterMarks, Shaped
    <3>2. Serving(h)
      BY <3>1, Zenon DEF Serving, Pending
    <3>3. Batch("discover", T) = Both("discover", T, "reflect", {})
      BY OneBatch, Zenon
    <3>4. Return(h, Both("discover", T, "reflect", {}))
      BY <2>5, <3>3, Zenon DEF RegisterMarks
    <3>5. {} \in SUBSET (call[h].to \cap members)
      OBVIOUS
    <3>6. QED  BY <2>5, <3>1, <3>2, <3>4, <3>5, Zenon DEF RegisterMarks, historyVars, Marks
  <2>6. QED  BY <1>1, <2>1, <2>2, <2>3, <2>4, <2>5, Zenon DEF Registration
<1>2. CASE Updating(h)
  <2>1. ASSUME NEW o, NEW attrs, UpdateChecks(h, o, attrs) PROVE Calm(h)
    <3>1. pc[h] \notin {"send", "unmark"}
      BY <2>1, Zenon DEF UpdateChecks, Ask
    <3>2. QED  BY <2>1, <3>1, CalmMoves, Zenon DEF UpdateChecks, worldVars, historyVars
  <2>2. CASE UpdateRoutes(h)
    <3>1. pc[h] \notin {"send", "unmark"}
      BY <2>2, Zenon DEF UpdateRoutes
    <3>2. QED  BY <2>2, <3>1, CalmMoves, Zenon DEF UpdateRoutes, worldVars, historyVars
  <2>3. CASE UpdateFilters(h)
    <3>1. pc[h] \notin {"send", "unmark"}
      BY <2>3, Zenon DEF UpdateFilters
    <3>2. out'[h] = out[h] \/ out'[h] = <<>>
      BY <2>3, <1>r, Zenon DEF UpdateFilters
    <3>3. QED  BY <2>3, <3>1, <3>2, CalmMoves, Zenon DEF UpdateFilters, worldVars, historyVars
  <2>4. CASE UpdateLooks(h)
    <3>1. pc[h] = "look" /\ pc[h] \notin {"send", "unmark"}
      BY <2>4, Zenon DEF UpdateLooks
    <3>2. UNCHANGED <<known, discovered, crossed, members>>
      BY <2>4, Zenon DEF UpdateLooks, worldVars, historyVars
    <3>3. CASE UNCHANGED out
      BY <3>1, <3>2, <3>3, CalmMoves, Zenon
    <3>4. CASE ~Exists(call[h].obj) /\ Return(h, Batch("reflect", call[h].to \cap members))
      <4> DEFINE U == call[h].to \cap members
      <4>1. Batch("reflect", U) = Both("discover", {}, "reflect", U)
        BY OneBatch
      <4>2. Return(h, Both("discover", {}, "reflect", U))
        BY <3>4, <4>1, Zenon
      <4>3. Serving(h)
        BY <1>s, <3>1, Zenon DEF Shaped, Serving, Pending
      <4>4. call[h].late
        BY <3>4, <4>3, Zenon DEF Placed, Overtaken
      <4>5. \A cb, f : Due(h, cb, f)' => cb = "reflect" /\ call'[h].late
        <5> SUFFICES ASSUME NEW cb, NEW f, Due(h, cb, f)'
                     PROVE  cb = "reflect" /\ call'[h].late
          OBVIOUS
        <5>1. /\ (cb = "discover" /\ f \in {}) \/ (cb = "reflect" /\ f \in U)
              /\ call'[h] = call[h]
          BY <4>2, ReturnDue
        <5>2. QED  BY <4>4, <5>1, Zenon
      <4>6. QED  BY <3>1, <3>2, <4>5, Zenon DEF Calm
    <3>5. QED  BY <2>4, <3>3, <3>4, Zenon DEF UpdateLooks
  <2>5. CASE UpdateMarks(h)
    <3>1. pc[h] = "mark" /\ call[h].op = "update" /\ call[h].obj \in Objects
      BY <2>5, <1>s, Zenon DEF UpdateMarks, Shaped
    <3>2. Serving(h)
      BY <3>1, Zenon DEF Serving, Pending
    <3>3. call[h].to \cap members \in SUBSET (call[h].to \cap members)
      OBVIOUS
    <3>4. Return(h, Both("discover", NewlyDiscovered(call[h].to, call[h].obj),
                         "reflect", call[h].to \cap members))
      BY <2>5, Zenon DEF UpdateMarks, Both
    <3>5. QED  BY <2>5, <3>1, <3>2, <3>3, <3>4, Zenon DEF UpdateMarks, historyVars, Marks
  <2>6. QED  BY <1>2, <2>1, <2>2, <2>3, <2>4, <2>5, Zenon DEF Updating
<1>3. CASE Deletion(h)
  <2>1. CASE DeleteUnmarks(h)
    <3> DEFINE T == HadDiscovered(h, call[h].obj)
    <3>1. pc[h] = "unmark" /\ call[h].op = "delete" /\ call[h].obj \in Objects
      BY <2>1, <1>s, Zenon DEF DeleteUnmarks, Shaped
    <3>2. Batch("remove", T) = Both("remove", T, "reflect", {})
      BY OneBatch, Zenon
    <3>3. Return(h, Both("remove", T, "reflect", {}))
      BY <2>1, <3>2, Zenon DEF DeleteUnmarks
    <3>4. QED  BY <2>1, <3>1, <3>3, Zenon DEF DeleteUnmarks, historyVars, Unmarks
  <2>2. QED  BY <1>3, <2>1, Zenon DEF Deletion
<1>4. CASE Ownership(h)
  <2>1. pc[h] = "idle" /\ UNCHANGED <<known, discovered, crossed, members, out>>
    BY <1>4, Zenon DEF Ownership, Acquire, Divest, Ask, historyVars
  <2>2. pc[h] \notin {"send", "unmark"}
    BY <2>1, Zenon
  <2>3. QED  BY <2>1, <2>2, CalmMoves, Zenon
<1>5. CASE Surroundings(h)
  <2>1. ASSUME NEW attrs, Subscribe(h, attrs) \/ Unsubscribe(h, attrs) PROVE Calm(h)
    <3>1. pc[h] = "idle" /\ UNCHANGED <<known, discovered, crossed, members, out>>
      BY <2>1, Zenon DEF Subscribe, Unsubscribe, Ask, historyVars
    <3>2. pc[h] \notin {"send", "unmark"}
      BY <3>1, Zenon
    <3>3. QED  BY <3>1, <3>2, CalmMoves, Zenon
  <2>2. CASE Resign(h)
    <3>1. pc[h] = "idle" /\ UNCHANGED <<known, discovered, crossed, out>> /\ members' \subseteq members
      BY <2>2, Zenon DEF Resign, callVars, historyVars
    <3>2. pc[h] \notin {"send", "unmark"}
      BY <3>1, Zenon
    <3>3. QED  BY <3>1, <3>2, CalmMoves, Zenon
  <2>3. QED  BY <1>5, <2>1, <2>2, Zenon DEF Surroundings
<1>6. QED  BY <1>1, <1>2, <1>3, <1>4, <1>5, Zenon DEF StepOf

-----------------------------------------------------------------------------
(* Instances come and go.                                                  *)

\* Who is pending was, or has just drawn a handle that nobody had.
LEMMA UnbornBefore ==
    ASSUME TypeOK, CallShape, Placed, NEW h \in Federates, StepOf(h), NEW o \in Objects,
           Unborn(o)'
    PROVE  Unborn(o)
<1>n. next_object_id \in Nat
  BY MaxObjectAssumption DEF TypeOK
<1>a. \A g \in Federates \ {h} : /\ Pending(g)' <=> Pending(g)
                                 /\ call'[g].obj = call[g].obj
  BY OthersAlike, AlikeCall, Zenon DEF Pending
<1>1. ASSUME NEW name, RegisterDraws(h, name) PROVE Unborn(o)
  <2>1. next_object_id' = next_object_id + 1
    BY <1>1, Zenon DEF RegisterDraws
  <2>2. call'[h] = [NoCall EXCEPT !.op = "register", !.obj = next_object_id, !.name = name]
    BY <1>1, Zenon DEF RegisterDraws, TypeOK
  <2>3. call'[h].obj = next_object_id
    BY <2>2, Zenon DEF NoCall
  <2>4. ~(o < next_object_id') => ~(o < next_object_id)
    BY <1>n, <2>1 DEF Objects
  <2>5. ~(next_object_id < next_object_id)
    BY <1>n
  <2>6. QED  BY <1>a, <2>3, <2>4, <2>5, Zenon DEF Unborn
<1>2. ASSUME next_object_id' = next_object_id, Pending(h)' => Pending(h) /\ call'[h].obj = call[h].obj
      PROVE  Unborn(o)
  BY <1>2, <1>a, Zenon DEF Unborn
<1>3. CASE RegisterInserts(h)
  <2>1. pc'[h] = "candidates" /\ next_object_id' = next_object_id
    BY <1>3, Zenon DEF RegisterInserts, Goto, TypeOK
  <2>2. ~Pending(h)'
    BY <2>1, Zenon DEF Pending
  <2>3. QED  BY <1>2, <2>1, <2>2, Zenon
<1>4. ASSUME NEW p, NEW attrs, UpdateChecks(h, p, attrs) PROVE Unborn(o)
  <2>1. pc'[h] = "route" /\ next_object_id' = next_object_id
    BY <1>4, Zenon DEF UpdateChecks, Goto, TypeOK, worldVars
  <2>2. ~Pending(h)'
    BY <2>1, Zenon DEF Pending
  <2>3. QED  BY <1>2, <2>1, <2>2, Zenon
<1>5. ASSUME NEW p, DeleteRemoves(h, p) PROVE Unborn(o)
  <2>1. pc'[h] = "unmark" /\ next_object_id' = next_object_id
    BY <1>5, Zenon DEF DeleteRemoves, Goto, TypeOK
  <2>2. ~Pending(h)'
    BY <2>1, Zenon DEF Pending
  <2>3. QED  BY <1>2, <2>1, <2>2, Zenon
<1>6. CASE Quiet
  <2>1. Kept(h) /\ next_object_id' = next_object_id
    BY <1>6, Zenon DEF Quiet
  <2>2. pc'[h] = "idle" => ~Pending(h)'
    BY Zenon DEF Pending
  <2>3. QED  BY <1>2, <2>1, <2>2, Zenon DEF Kept
<1>7. QED  BY <1>1, <1>3, <1>4, <1>5, <1>6, QuietSteps, Zenon

\* An instance that exists, and one that a handler past its start serves, has
\* been born.
LEMMA Born ==
    ASSUME TypeOK, CallShape, Placed, NEW o \in Objects
    PROVE  /\ Exists(o) => ~Unborn(o)
           /\ \A g \in Federates : call[g].obj = o /\ ~Pending(g) => ~Unborn(o)
<1>1. Exists(o) => o < next_object_id
  BY Zenon DEF TypeOK, Existing
<1>2. \A g \in Federates : PendingFree(g) /\ call[g].obj < next_object_id
  BY Zenon DEF Placed
<1>3. QED  BY <1>1, <1>2, Zenon DEF Unborn, PendingFree

\* A pair that has crossed has crossed for good.
LEMMA CrossedGrows ==
    ASSUME TypeOK, CallShape, NEW h \in Federates, StepOf(h)
    PROVE  crossed \subseteq crossed'
<1>1. ASSUME NEW name, RegisterDraws(h, name) PROVE crossed \subseteq crossed'
  BY <1>1, Zenon DEF RegisterDraws
<1>2. CASE RegisterInserts(h)
  BY <1>2, Zenon DEF RegisterInserts, historyVars
<1>3. ASSUME NEW p, NEW attrs, UpdateChecks(h, p, attrs) PROVE crossed \subseteq crossed'
  BY <1>3, Zenon DEF UpdateChecks, historyVars
<1>4. ASSUME NEW p, DeleteRemoves(h, p) PROVE crossed \subseteq crossed'
  BY <1>4, Zenon DEF DeleteRemoves
<1>5. QED  BY <1>1, <1>2, <1>3, <1>4, QuietSteps, Zenon DEF Quiet

\* What sending a callback does to what is known.
LEMMA SendKnown ==
    ASSUME TypeOK, CallShape, NEW h \in Federates, NEW f \in Federates, Send(h, f)
    PROVE  /\ \A g \in Federates, o \in Objects :
                 g # f \/ o # call[h].obj => (o \in known'[g] <=> o \in known[g])
           /\ Head(out[h]).cb = "discover" => call[h].obj \in known'[f]
           /\ Head(out[h]).cb = "remove" => call[h].obj \notin known'[f]
           /\ Head(out[h]).cb = "reflect" => known' = known
<1> DEFINE cb == Head(out[h]).cb
           p == call[h].obj
           new == CASE cb = "discover" -> known[f] \cup {p}
                    [] cb = "remove" -> known[f] \ {p}
                    [] OTHER -> known[f]
<1>1. known' = [known EXCEPT ![f] = new] /\ known \in [Federates -> SUBSET Objects]
  BY Zenon DEF Send, Heard, TypeOK
<1>2. /\ cb = "discover" => new = known[f] \cup {p}
      /\ cb = "remove" => new = known[f] \ {p}
      /\ cb \notin {"discover", "remove"} => new = known[f]
  OBVIOUS
<1>3. "reflect" \notin {"discover", "remove"}
  OBVIOUS
<1> HIDE DEF cb, p, new
<1>4. known'[f] = new /\ \A g \in Federates : g # f => known'[g] = known[g]
  BY <1>1, Zenon
<1>5. cb = "reflect" => known' = known
  BY <1>1, <1>2, <1>3, Zenon
<1>6. cb = "discover" => p \in known'[f]
  BY <1>2, <1>4, Zenon
<1>7. cb = "remove" => p \notin known'[f]
  BY <1>2, <1>4, Zenon
<1>8. \A o : o # p => (o \in known'[f] <=> o \in known[f])
  BY <1>2, <1>4, Zenon
<1>9. QED  BY <1>4, <1>5, <1>6, <1>7, <1>8, Zenon DEF cb, p

\* Nobody knows an instance, or has crossed with one, before it is born.
LEMMA BornNext ==
    ASSUME TypeOK, CallShape, Placed, BornFirst, NEW h \in Federates, StepOf(h)
    PROVE  BornFirst'
<1> SUFFICES ASSUME NEW f \in Federates, NEW o \in Objects
             PROVE  /\ o \in known'[f] => o \in known[f] \/ ~Unborn(o)
                    /\ <<f, o>> \in crossed' => <<f, o>> \in crossed \/ ~Unborn(o)
  BY UnbornBefore, Zenon DEF BornFirst
<1>k. known \in [Federates -> SUBSET Objects]
  BY Zenon DEF TypeOK
<1> DEFINE Goal == /\ o \in known'[f] => o \in known[f] \/ ~Unborn(o)
                   /\ <<f, o>> \in crossed' => <<f, o>> \in crossed \/ ~Unborn(o)
<1>1. CASE UNCHANGED <<known, crossed>>
  BY <1>1, Zenon
<1>2. ASSUME NEW k \in Federates, Send(h, k) PROVE Goal
  <2>1. crossed' = crossed
    BY <1>2, Zenon DEF Send
  <2>2. CASE k = f /\ o = call[h].obj
    <3>1. ~Pending(h)
      BY <1>2, Zenon DEF Send, Pending
    <3>2. QED  BY <2>1, <2>2, <3>1, Born, Zenon
  <2>3. CASE k # f \/ o # call[h].obj
    BY <1>2, <2>1, <2>3, SendKnown, Zenon
  <2>4. QED  BY <2>2, <2>3, Zenon
<1>3. ASSUME NEW p \in Objects, LocalDelete(h, p) PROVE Goal
  <2>1. p \in known[h] /\ known' = [known EXCEPT ![h] = @ \ {p}]
    BY <1>3, Zenon DEF LocalDelete
  <2>2. o \in known'[f] => o \in known[f]
    BY <1>k, <2>1, Zenon
  <2>3. crossed' = crossed \/ crossed' = crossed \cup {<<h, p>>}
    BY <1>3, Zenon DEF LocalDelete
  <2>4. ~Unborn(p)
    BY <2>1, Zenon DEF BornFirst
  <2>5. <<f, o>> = <<h, p>> => o = p
    BY Zenon
  <2>6. QED  BY <2>2, <2>3, <2>4, <2>5, Zenon
<1>4. ASSUME NEW p \in Objects, DeleteRemoves(h, p) PROVE Goal
  <2>1. Exists(p) /\ known' = [known EXCEPT ![h] = @ \ {p}]
    BY <1>4, Zenon DEF DeleteRemoves
  <2>2. o \in known'[f] => o \in known[f]
    BY <1>k, <2>1, Zenon
  <2>3. <<f, o>> \in crossed' => <<f, o>> \in crossed \/ o = p
    BY <1>4, Zenon DEF DeleteRemoves
  <2>4. QED  BY <2>1, <2>2, <2>3, Born, Zenon
<1>5. QED  BY <1>1, <1>2, <1>3, <1>4, OutSteps, Zenon DEF Marks, Unmarks, Calm

\* An instance is deleted by DeleteRemoves alone.
LEMMA ExistsNext ==
    ASSUME TypeOK, CallShape, NEW h \in Federates, StepOf(h)
    PROVE  /\ (\E o \in Objects : DeleteRemoves(h, o))
                \/ \A p \in Objects : Exists(p) => Exists(p)'
           /\ \A p \in Objects : Exists(p)' => \/ Exists(p)
                                               \/ RegisterInserts(h) /\ p = call[h].obj
<1> DEFINE Goal == /\ \A p \in Objects : Exists(p) => Exists(p)'
                   /\ \A p \in Objects : Exists(p)' => Exists(p)
<1>i. instances \in [Objects -> Instances \cup {None}]
  BY Zenon DEF TypeOK
<1>1. ASSUME NEW name, RegisterDraws(h, name) PROVE Goal
  BY <1>1, Zenon DEF RegisterDraws, Exists
<1>2. ASSUME RegisterInserts(h)
      PROVE  \A p \in Objects : /\ Exists(p) => Exists(p)'
                                /\ Exists(p)' => Exists(p) \/ p = call[h].obj
  <2>1. call[h].obj \in Objects
    BY <1>2, Zenon DEF RegisterInserts, CallShape, Shaped
  <2>2. NewInstance(h) # None
    BY <2>1, NewInstanceTyped, Zenon
  <2>3. QED  BY <1>2, <1>i, <2>1, <2>2, Zenon DEF RegisterInserts, Exists
<1>3. ASSUME NEW p, NEW attrs, UpdateChecks(h, p, attrs) PROVE Goal
  BY <1>3, Zenon DEF UpdateChecks, worldVars, Exists
<1>4. ASSUME NEW o \in Objects, DeleteRemoves(h, o)
      PROVE  \A p \in Objects : Exists(p)' => Exists(p)
  BY <1>4, <1>i, Zenon DEF DeleteRemoves, Exists
<1>5. CASE Quiet
  BY <1>5, Zenon DEF Quiet
<1>6. QED  BY <1>1, <1>2, <1>3, <1>4, <1>5, QuietSteps, Zenon

\* What is there after a step was there before it.
LEMMA ThereBefore ==
    ASSUME TypeOK, CallShape, Placed, BornFirst, NEW h \in Federates, StepOf(h),
           NEW f \in Federates, NEW o \in Objects, There(f, o)'
    PROVE  There(f, o)
<1>1. CASE <<f, o>> \notin crossed'
  BY <1>1, CrossedGrows, Zenon DEF There
<1>2. CASE Exists(o)'
  <2>1. CASE Exists(o)
    BY <2>1, Zenon DEF There
  <2>2. CASE RegisterInserts(h) /\ o = call[h].obj
    <3>1. Pending(h)
      BY <2>2, Zenon DEF RegisterInserts, Pending
    <3>2. <<f, o>> \notin crossed
      BY <2>2, <3>1, Zenon DEF BornFirst, Unborn
    <3>3. QED  BY <3>2, Zenon DEF There
  <2>3. QED  BY <1>2, <2>1, <2>2, ExistsNext, Zenon
<1>3. QED  BY <1>1, <1>2, Zenon DEF There

-----------------------------------------------------------------------------
(* Marks are exact.                                                        *)

\* Nothing that Exact speaks of changes.
Same(f, o) ==
    /\ \A g \in Federates : /\ Telling(g, o, f)' <=> Telling(g, o, f)
                            /\ Removing(g, o, f)' <=> Removing(g, o, f)
    /\ o \in known'[f] <=> o \in known[f]
    /\ o \in discovered'[f] <=> o \in discovered[f]

\* What is exact stays exact while nothing it depends on changes.
LEMMA ExactFrame == ASSUME NEW f, NEW o, Same(f, o), Exact(f, o) PROVE Exact(f, o)'
BY Zenon DEF Same, Exact

\* The sessions of the others tell and remove as before.
LEMMA SameFrame ==
    ASSUME TypeOK, CallShape, NEW h \in Federates, StepOf(h), NEW f, NEW o,
           Telling(h, o, f)' <=> Telling(h, o, f),
           Removing(h, o, f)' <=> Removing(h, o, f),
           o \in known'[f] <=> o \in known[f],
           o \in discovered'[f] <=> o \in discovered[f]
    PROVE  Same(f, o)
<1>1. \A g \in Federates \ {h} : /\ Telling(g, o, f)' <=> Telling(g, o, f)
                                 /\ Removing(g, o, f)' <=> Removing(g, o, f)
  BY OthersAlike, AlikeDue, Zenon
<1>2. QED  BY <1>1, Zenon DEF Same

\* A session that does not send tells and removes nothing.
LEMMA NotSending ==
    ASSUME TypeOK, CallShape, NEW h \in Federates, pc[h] # "send"
    PROVE  \A o, f : ~Telling(h, o, f) /\ ~Removing(h, o, f) /\ ~Due(h, "reflect", f)
BY DueOf, Zenon DEF Telling, Removing

\* What a session tells and removes when it returns.
LEMMA ReturnTells ==
    ASSUME TypeOK, NEW h \in Federates, NEW c, NEW T, NEW U,
           Return(h, Both(c, T, "reflect", U)), call[h].obj \in Objects
    PROVE  \A o, f :
              /\ Telling(h, o, f)' <=> o = call[h].obj /\ c = "discover" /\ f \in T
              /\ Removing(h, o, f)' <=> o = call[h].obj /\ c = "remove" /\ f \in T
<1> SUFFICES ASSUME NEW o, NEW f
             PROVE  /\ Telling(h, o, f)' <=> o = call[h].obj /\ c = "discover" /\ f \in T
                    /\ Removing(h, o, f)' <=> o = call[h].obj /\ c = "remove" /\ f \in T
  OBVIOUS
<1>1. \A cb : /\ Due(h, cb, f)' <=> (cb = c /\ f \in T) \/ (cb = "reflect" /\ f \in U)
              /\ Due(h, cb, f)' => call'[h] = call[h]
  BY ReturnDue, Zenon
<1>2. /\ Due(h, "discover", f)' <=> c = "discover" /\ f \in T
      /\ Due(h, "remove", f)' <=> c = "remove" /\ f \in T
  BY <1>1
<1>3. /\ Due(h, "discover", f)' => call'[h] = call[h]
      /\ Due(h, "remove", f)' => call'[h] = call[h]
  BY <1>1, Zenon
<1>4. QED  BY <1>2, <1>3, Zenon DEF Telling, Removing

\* Whom a step newly marks it also begins to tell.
LEMMA ExactMarks ==
    ASSUME TypeOK, CallShape, Placed, NEW h \in Federates, StepOf(h), Marks(h),
           NEW f \in members, NEW o \in Objects, There(f, o), Exact(f, o)
    PROVE  Exact(f, o)'
<1> DEFINE p == call[h].obj
           T == NewlyDiscovered(call[h].to, p)
<1>f. f \in Federates
  BY Zenon DEF TypeOK
<1>1. /\ pc[h] # "send" /\ Serving(h) /\ p \in Objects /\ known' = known
      /\ Mark(call[h].to, p)
  BY Zenon DEF Marks
<1>2. PICK U : Return(h, Both("discover", T, "reflect", U))
  BY Zenon DEF Marks
<1>3. ~Telling(h, o, f) /\ ~Removing(h, o, f)
  BY <1>1, NotSending, Zenon
<1> HIDE DEF T
<1>r. /\ Telling(h, o, f)' <=> o = p /\ "discover" = "discover" /\ f \in T
      /\ Removing(h, o, f)' <=> o = p /\ "discover" = "remove" /\ f \in T
  BY <1>1, <1>2, ReturnTells
<1>4. Telling(h, o, f)' <=> o = p /\ f \in T
  BY <1>r, Zenon
<1>5. ~Removing(h, o, f)'
  BY <1>r, Zenon
<1>6. /\ f \in T <=> f \in call[h].to /\ p \notin discovered[f]
      /\ discovered'[f] = IF f \in call[h].to THEN discovered[f] \cup {p} ELSE discovered[f]
  BY <1>f, <1>1, Zenon DEF Mark, NewlyDiscovered, T
<1> HIDE DEF p
<1>7. CASE ~(o = p /\ f \in T)
  <2>1. o \in discovered'[f] <=> o \in discovered[f]
    BY <1>6, <1>7, Zenon
  <2>2. Same(f, o)
    BY <1>1, <1>3, <1>4, <1>5, <1>7, <2>1, SameFrame, Zenon
  <2>3. QED  BY <2>2, ExactFrame, Zenon
<1>8. CASE o = p /\ f \in T
  <2>1. o \notin discovered[f] /\ o \in discovered'[f]
    BY <1>6, <1>8, Zenon
  <2>2. Exists(o)
    BY <1>f, <1>1, <1>8, TellingThere, Zenon DEF p
  <2>3. \A g \in Federates : ~Removing(g, o, f)
    BY <1>f, <2>2, TellingThere, Zenon
  <2>4. o \notin known[f] /\ \A g \in Federates : ~Telling(g, o, f)
    BY <2>1, <2>3, Zenon DEF Exact
  <2>5. \A g \in Federates : Telling(g, o, f)' <=> g = h
    BY <1>4, <1>8, <2>4, OthersAlike, AlikeDue, Zenon
  <2>6. QED  BY <1>1, <2>1, <2>4, <2>5, Zenon DEF Exact
<1>9. QED  BY <1>7, <1>8, Zenon

\* When a deletion has come to unmark an instance that is there for f, nobody
\* tells f of it.
LEMMA UnmarkedAlone ==
    ASSUME TypeOK, CallShape, Placed, NEW h \in Federates, Unmarks(h),
           NEW f \in members, There(f, call[h].obj), Exact(f, call[h].obj)
    PROVE  /\ f # h
           /\ \A g \in Federates : ~Telling(g, call[h].obj, f) /\ ~Removing(g, call[h].obj, f)
           /\ call[h].obj \in discovered[f] <=> call[h].obj \in known[f]
<1> DEFINE p == call[h].obj
<1>f. f \in Federates
  BY Zenon DEF TypeOK
<1>1. pc[h] # "send" /\ call[h].op = "delete"
  BY Zenon DEF Unmarks
<1>2. /\ ~Exists(p) /\ <<h, p>> \in crossed
      /\ \A g \in Federates \ {h} : call[g].op = "delete" => call[g].obj # p
  BY <1>1, Zenon DEF Placed, DeletedGone
<1>3. f # h
  BY <1>2, Zenon DEF There
<1>4. \A g \in Federates : ~Telling(g, p, f)
  BY <1>f, <1>2, TellingThere, Zenon
<1>5. ASSUME NEW g \in Federates, Removing(g, p, f) PROVE FALSE
  <2>1. call[g].op = "delete" /\ call[g].obj = p
    BY <1>f, <1>5, TellingThere, Zenon DEF Removing
  <2>2. g # h
    BY <1>1, <1>5, NotSending, Zenon
  <2>3. QED  BY <1>2, <2>1, <2>2, Zenon
<1>6. p \in discovered[f] <=> p \in known[f]
  BY <1>4, <1>5, Zenon DEF Exact
<1>7. QED  BY <1>3, <1>4, <1>5, <1>6, Zenon

\* Whom a step unmarks it also begins to tell.
LEMMA ExactUnmarks ==
    ASSUME TypeOK, CallShape, Placed, NEW h \in Federates, StepOf(h), Unmarks(h),
           NEW f \in members, NEW o \in Objects, There(f, o), Exact(f, o)
    PROVE  Exact(f, o)'
<1> DEFINE p == call[h].obj
           T == HadDiscovered(h, p)
<1>f. f \in Federates
  BY Zenon DEF TypeOK
<1>1. /\ pc[h] # "send" /\ p \in Objects /\ known' = known
      /\ discovered' = [g \in Federates |-> IF g \in T THEN discovered[g] \ {p} ELSE discovered[g]]
      /\ Return(h, Both("remove", T, "reflect", {}))
  BY Zenon DEF Unmarks
<1>2. ~Telling(h, o, f) /\ ~Removing(h, o, f)
  BY <1>1, NotSending, Zenon
<1>3. f \in T <=> f # h /\ p \in discovered[f]
  BY Zenon DEF HadDiscovered
<1> HIDE DEF T
<1>r. /\ Telling(h, o, f)' <=> o = p /\ "remove" = "discover" /\ f \in T
      /\ Removing(h, o, f)' <=> o = p /\ "remove" = "remove" /\ f \in T
  BY <1>1, ReturnTells, Zenon
<1>4. ~Telling(h, o, f)' /\ (Removing(h, o, f)' <=> o = p /\ f \in T)
  BY <1>r, Zenon
<1>5. discovered'[f] = IF f \in T THEN discovered[f] \ {p} ELSE discovered[f]
  BY <1>f, <1>1, Zenon
<1>6. CASE ~(o = p /\ f \in T)
  <2>1. o \in discovered'[f] <=> o \in discovered[f]
    BY <1>5, <1>6, Zenon
  <2>2. Same(f, o)
    BY <1>1, <1>2, <1>4, <1>6, <2>1, SameFrame, Zenon
  <2>3. QED  BY <2>2, ExactFrame, Zenon
<1>7. CASE o = p /\ f \in T
  <2>1. \A g \in Federates : ~Telling(g, o, f)
    BY <1>7, UnmarkedAlone, Zenon
  <2>2. \A g \in Federates : ~Telling(g, o, f)'
    BY <1>4, <2>1, OthersAlike, AlikeDue, Zenon
  <2>3. Removing(h, o, f)' /\ o \notin discovered'[f]
    BY <1>4, <1>5, <1>7, Zenon
  <2>4. QED  BY <2>2, <2>3, Zenon DEF Exact
<1>8. QED  BY <1>6, <1>7, Zenon

\* What sending a callback to k does to what the session tells and removes.
LEMMA SendTells ==
    ASSUME TypeOK, CallShape, NEW h \in Federates, NEW k \in Federates, Send(h, k),
           NEW p, p = call[h].obj
    PROVE  /\ pc[h] = "send" /\ p \in Objects
           /\ \A f, o : f # k \/ o # p =>
                 /\ Telling(h, o, f)' <=> Telling(h, o, f)
                 /\ Removing(h, o, f)' <=> Removing(h, o, f)
           /\ \/ /\ Head(out[h]).cb = "discover" /\ Telling(h, p, k)
                 /\ ~Telling(h, p, k)' /\ ~Removing(h, p, k)'
              \/ /\ Head(out[h]).cb = "remove" /\ Removing(h, p, k)
                 /\ ~Telling(h, p, k)' /\ ~Removing(h, p, k)'
              \/ /\ Head(out[h]).cb = "reflect"
                 /\ Telling(h, p, k)' <=> Telling(h, p, k)
                 /\ Removing(h, p, k)' <=> Removing(h, p, k)
           /\ \A cb, f : Due(h, cb, f)' => Due(h, cb, f) /\ call'[h] = call[h]
<1> DEFINE c == First(h)
<1>1. pc[h] = "send" /\ p \in Objects
  BY Zenon DEF Send, CallShape, Shaped
<1>2. PICK T, U, V, W \in SUBSET Federates :
         /\ out[h] = Both(c, T, "reflect", U)
         /\ \/ k \in T /\ V = T \ {k} /\ W = U /\ Head(out[h]).cb = c
            \/ T = {} /\ k \in U /\ V = T /\ W = U \ {k} /\ Head(out[h]).cb = "reflect"
         /\ Return(h, Both(c, V, "reflect", W))
  <2>1. PICK T, U, V, W \in SUBSET Federates :
           /\ out[h] = Both(First(h), T, "reflect", U)
           /\ call[h].op # "update" => U = {}
           /\ \/ k \in T /\ V = T \ {k} /\ W = U /\ Head(out[h]).cb = First(h)
              \/ T = {} /\ k \in U /\ V = T /\ W = U \ {k} /\ Head(out[h]).cb = "reflect"
           /\ Return(h, Both(First(h), V, "reflect", W))
    BY SendEffect, Zenon
  <2>2. QED  BY <2>1, Zenon
<1>3. c \in {"discover", "remove"}
  BY Zenon DEF First
<1> HIDE DEF c
<1>4. \A cb, f : /\ Due(h, cb, f)' <=> (cb = c /\ f \in V) \/ (cb = "reflect" /\ f \in W)
                 /\ Due(h, cb, f)' => call'[h] = call[h]
  BY <1>2, ReturnDue, Zenon
<1>5. \A cb, f : DueIn(Both(c, T, "reflect", U), cb, f)
                   <=> (cb = c /\ f \in T) \/ (cb = "reflect" /\ f \in U)
  BY DueBatches
<1>q. \A cb, f : Due(h, cb, f) <=> DueIn(Both(c, T, "reflect", U), cb, f)
  BY <1>2, DueQueue, Zenon
<1>6. \A cb, f : Due(h, cb, f) <=> (cb = c /\ f \in T) \/ (cb = "reflect" /\ f \in U)
  BY <1>5, <1>q, Zenon
<1>7. \A f : /\ Due(h, "discover", f) <=> c = "discover" /\ f \in T
             /\ Due(h, "remove", f) <=> c = "remove" /\ f \in T
             /\ Due(h, "reflect", f) <=> f \in U
             /\ Due(h, "discover", f)' <=> c = "discover" /\ f \in V
             /\ Due(h, "remove", f)' <=> c = "remove" /\ f \in V
             /\ Due(h, "reflect", f)' <=> f \in W
  BY <1>3, <1>4, <1>6
<1>8. \A f, o : /\ Telling(h, o, f) <=> o = p /\ c = "discover" /\ f \in T
                /\ Removing(h, o, f) <=> o = p /\ c = "remove" /\ f \in T
  BY <1>7, Zenon DEF Telling, Removing
<1>9. \A f, o : /\ Telling(h, o, f)' <=> o = p /\ c = "discover" /\ f \in V
                /\ Removing(h, o, f)' <=> o = p /\ c = "remove" /\ f \in V
  <2>1. Return(h, Both(c, V, "reflect", W)) /\ call[h].obj \in Objects
    BY <1>1, <1>2, Zenon
  <2>2. \A o, f :
           /\ Telling(h, o, f)' <=> o = call[h].obj /\ c = "discover" /\ f \in V
           /\ Removing(h, o, f)' <=> o = call[h].obj /\ c = "remove" /\ f \in V
    BY <2>1, ReturnTells, Zenon
  <2>3. QED  BY <2>2, Zenon
<1>10. \A cb, f : Due(h, cb, f)' => Due(h, cb, f) /\ call'[h] = call[h]
  <2>1. V \subseteq T /\ W \subseteq U
    BY <1>2, Zenon
  <2>2. QED  BY <1>4, <1>6, <2>1, Zenon
<1>11. \A f : f # k => (f \in V <=> f \in T)
  BY <1>2, Zenon
<1>12. ASSUME NEW f, NEW o, f # k \/ o # p
       PROVE  /\ Telling(h, o, f)' <=> Telling(h, o, f)
              /\ Removing(h, o, f)' <=> Removing(h, o, f)
  <2>1. /\ Telling(h, o, f) <=> o = p /\ c = "discover" /\ f \in T
        /\ Removing(h, o, f) <=> o = p /\ c = "remove" /\ f \in T
    BY <1>8, Zenon
  <2>2. /\ Telling(h, o, f)' <=> o = p /\ c = "discover" /\ f \in V
        /\ Removing(h, o, f)' <=> o = p /\ c = "remove" /\ f \in V
    BY <1>9, Zenon
  <2>3. o = p => (f \in V <=> f \in T)
    BY <1>11, <1>12, Zenon
  <2>4. QED  BY <2>1, <2>2, <2>3, Zenon
<1>13. \/ /\ Head(out[h]).cb = "discover" /\ Telling(h, p, k)
          /\ ~Telling(h, p, k)' /\ ~Removing(h, p, k)'
       \/ /\ Head(out[h]).cb = "remove" /\ Removing(h, p, k)
          /\ ~Telling(h, p, k)' /\ ~Removing(h, p, k)'
       \/ /\ Head(out[h]).cb = "reflect"
          /\ Telling(h, p, k)' <=> Telling(h, p, k)
          /\ Removing(h, p, k)' <=> Removing(h, p, k)
  <2>1. CASE k \in T /\ V = T \ {k} /\ Head(out[h]).cb = c
    <3>1. ~Telling(h, p, k)' /\ ~Removing(h, p, k)'
      BY <1>9, <2>1, Zenon
    <3>2. /\ c = "discover" => Telling(h, p, k)
          /\ c = "remove" => Removing(h, p, k)
      BY <1>8, <2>1, Zenon
    <3>3. QED  BY <1>3, <2>1, <3>1, <3>2, Zenon
  <2>2. CASE V = T /\ Head(out[h]).cb = "reflect"
    <3>1. /\ Telling(h, p, k)' <=> p = p /\ c = "discover" /\ k \in V
          /\ Removing(h, p, k)' <=> p = p /\ c = "remove" /\ k \in V
      BY <1>9, Zenon
    <3>2. /\ Telling(h, p, k) <=> p = p /\ c = "discover" /\ k \in T
          /\ Removing(h, p, k) <=> p = p /\ c = "remove" /\ k \in T
      BY <1>8, Zenon
    <3>3. QED  BY <2>2, <3>1, <3>2, Zenon
  <2>3. QED  BY <1>2, <2>1, <2>2, Zenon
<1>14. QED  BY <1>1, <1>10, <1>12, <1>13, Zenon

\* A callback that is sent is no longer due, and the federate knows.
LEMMA ExactSends ==
    ASSUME TypeOK, CallShape, Placed, NEW h \in Federates, StepOf(h),
           NEW k \in Federates, Send(h, k),
           NEW f \in members, NEW o \in Objects, There(f, o), Exact(f, o)
    PROVE  Exact(f, o)'
<1>f. f \in Federates
  BY Zenon DEF TypeOK
<1>d. discovered' = discovered
  BY Zenon DEF Send, worldVars
<1>o. \A g \in Federates \ {h} : /\ Telling(g, o, f)' <=> Telling(g, o, f)
                                 /\ Removing(g, o, f)' <=> Removing(g, o, f)
  BY OthersAlike, AlikeDue, Zenon
<1>1. CASE f # k \/ o # call[h].obj
  <2>1. /\ Telling(h, o, f)' <=> Telling(h, o, f)
        /\ Removing(h, o, f)' <=> Removing(h, o, f)
    BY <1>1, SendTells, Zenon
  <2>2. o \in known'[f] <=> o \in known[f]
    BY <1>f, <1>1, SendKnown, Zenon
  <2>3. Same(f, o)
    BY <1>d, <2>1, <2>2, SameFrame, Zenon
  <2>4. QED  BY <2>3, ExactFrame, Zenon
<1>2. CASE f = k /\ o = call[h].obj
  <2>1. CASE /\ Head(out[h]).cb = "discover" /\ Telling(h, o, f)
             /\ ~Telling(h, o, f)' /\ ~Removing(h, o, f)'
    <3>1. Exists(o) /\ o \in known'[f]
      BY <1>f, <1>2, <2>1, TellingThere, SendKnown, Zenon
    <3>2. \A g \in Federates : ~Removing(g, o, f)
      BY <1>f, <3>1, TellingThere, Zenon
    <3>3. o \in discovered[f] /\ \A g \in Federates : Telling(g, o, f) => g = h
      BY <2>1, Zenon DEF Exact
    <3>4. \A g \in Federates : ~Telling(g, o, f)'
      BY <1>o, <2>1, <3>3, Zenon
    <3>5. \A g \in Federates : ~Removing(g, o, f)'
      BY <1>o, <2>1, <3>2, Zenon
    <3>6. QED  BY <1>d, <3>1, <3>3, <3>4, <3>5, Zenon DEF Exact
  <2>2. CASE /\ Head(out[h]).cb = "remove" /\ Removing(h, o, f)
             /\ ~Telling(h, o, f)' /\ ~Removing(h, o, f)'
    <3>1. ~Exists(o) /\ o \notin known'[f]
      BY <1>f, <1>2, <2>2, TellingThere, SendKnown, Zenon
    <3>2. \A g \in Federates : ~Telling(g, o, f)
      BY <1>f, <3>1, TellingThere, Zenon
    <3>3. o \notin discovered[f]
      BY <2>2, <3>2, Zenon DEF Exact
    <3>4. \A g \in Federates : ~Telling(g, o, f)'
      BY <1>o, <2>2, <3>2, Zenon
    <3>5. QED  BY <1>d, <3>1, <3>3, <3>4, Zenon DEF Exact
  <2>3. CASE /\ Head(out[h]).cb = "reflect"
             /\ Telling(h, o, f)' <=> Telling(h, o, f)
             /\ Removing(h, o, f)' <=> Removing(h, o, f)
    <3>1. known' = known
      BY <2>3, SendKnown, Zenon
    <3>2. Same(f, o)
      BY <1>d, <2>3, <3>1, SameFrame, Zenon
    <3>3. QED  BY <3>2, ExactFrame, Zenon
  <2>4. \/ /\ Head(out[h]).cb = "discover" /\ Telling(h, o, k)
           /\ ~Telling(h, o, k)' /\ ~Removing(h, o, k)'
        \/ /\ Head(out[h]).cb = "remove" /\ Removing(h, o, k)
           /\ ~Telling(h, o, k)' /\ ~Removing(h, o, k)'
        \/ /\ Head(out[h]).cb = "reflect"
           /\ Telling(h, o, k)' <=> Telling(h, o, k)
           /\ Removing(h, o, k)' <=> Removing(h, o, k)
    BY <1>2, SendTells, Zenon
  <2>5. QED  BY <1>2, <2>1, <2>2, <2>3, <2>4, Zenon
<1>3. QED  BY <1>1, <1>2, Zenon

\* local_delete_object_instance drops the mark and the knowledge together.
LEMMA ExactForgets ==
    ASSUME TypeOK, CallShape, Placed, NEW h \in Federates, StepOf(h),
           NEW p \in Objects, LocalDelete(h, p),
           NEW f \in members, NEW o \in Objects, There(f, o), Exact(f, o)
    PROVE  Exact(f, o)'
<1>f. f \in Federates /\ known \in [Federates -> SUBSET Objects]
      /\ discovered \in [Federates -> SUBSET Objects]
  BY Zenon DEF TypeOK
<1>1. pc[h] = "idle" /\ p \in known[h] /\ UNCHANGED <<pc, out>>
      /\ known' = [known EXCEPT ![h] = @ \ {p}]
      /\ discovered' = [discovered EXCEPT ![h] = @ \ {p}]
  BY Zenon DEF LocalDelete, Ask
<1>2. ~Telling(h, o, f) /\ ~Removing(h, o, f)
  BY <1>1, NotSending, Zenon
<1>3. ~Telling(h, o, f)' /\ ~Removing(h, o, f)'
  <2>1. ~DueIn(<<>>, "discover", f) /\ ~DueIn(<<>>, "remove", f)
    BY DueShort, Zenon
  <2>2. out'[h] = <<>>
    BY <1>1, Zenon DEF CallShape, Shaped
  <2>3. QED  BY <2>1, <2>2, DueQueue, Zenon DEF Telling, Removing
<1>4. CASE f # h \/ o # p
  <2>1. (o \in known'[f] <=> o \in known[f]) /\ (o \in discovered'[f] <=> o \in discovered[f])
    BY <1>f, <1>1, <1>4, Zenon
  <2>2. Same(f, o)
    BY <1>2, <1>3, <2>1, SameFrame, Zenon
  <2>3. QED  BY <2>2, ExactFrame, Zenon
<1>5. CASE f = h /\ o = p
  <2>1. o \notin known'[f] /\ o \notin discovered'[f]
    BY <1>f, <1>1, <1>5, Zenon
  <2>2. \A g \in Federates : ~Telling(g, o, f)
    BY <1>1, <1>5, Zenon DEF Exact
  <2>3. \A g \in Federates : ~Telling(g, o, f)'
    BY <1>3, <2>2, OthersAlike, AlikeDue, Zenon
  <2>4. QED  BY <2>1, <2>3, Zenon DEF Exact
<1>6. QED  BY <1>4, <1>5, Zenon

\* A removal keeps what is known of the instances that stay.
LEMMA ExactRemoves ==
    ASSUME TypeOK, CallShape, Placed, NEW h \in Federates, StepOf(h),
           NEW p \in Objects, DeleteRemoves(h, p),
           NEW f \in members, NEW o \in Objects, There(f, o)', Exact(f, o)
    PROVE  Exact(f, o)'
<1>f. f \in Federates /\ known \in [Federates -> SUBSET Objects]
  BY Zenon DEF TypeOK
<1>1. pc[h] = "idle" /\ out' = out /\ discovered' = discovered
      /\ known' = [known EXCEPT ![h] = @ \ {p}]
  BY Zenon DEF DeleteRemoves, Ask
<1>2. ~Telling(h, o, f) /\ ~Removing(h, o, f)
  BY <1>1, NotSending, Zenon
<1>3. ~Telling(h, o, f)' /\ ~Removing(h, o, f)'
  <2>1. ~DueIn(<<>>, "discover", f) /\ ~DueIn(<<>>, "remove", f)
    BY DueShort, Zenon
  <2>2. out'[h] = <<>>
    BY <1>1, Zenon DEF CallShape, Shaped
  <2>3. QED  BY <2>1, <2>2, DueQueue, Zenon DEF Telling, Removing
<1>4. f # h \/ o # p
  <2>1. <<h, p>> \in crossed'
    BY Zenon DEF DeleteRemoves
  <2>2. ~Exists(p)'
    BY Zenon DEF DeleteRemoves, TypeOK, Exists
  <2>3. QED  BY <2>1, <2>2, Zenon DEF There
<1>5. o \in known'[f] <=> o \in known[f]
  BY <1>f, <1>1, <1>4, Zenon
<1>6. Same(f, o)
  BY <1>1, <1>2, <1>3, <1>5, SameFrame, Zenon
<1>7. QED  BY <1>6, ExactFrame, Zenon

\* A calm step keeps it.
LEMMA ExactCalm ==
    ASSUME TypeOK, CallShape, NEW h \in Federates, StepOf(h), Calm(h),
           NEW f, NEW o, Exact(f, o)
    PROVE  Exact(f, o)'
<1>1. pc[h] # "send"
  BY Zenon DEF Calm
<1>2. ~Telling(h, o, f) /\ ~Removing(h, o, f)
  BY <1>1, NotSending, Zenon
<1>3. ~Due(h, "discover", f)' /\ ~Due(h, "remove", f)'
  BY DEF Calm
<1>4. Same(f, o)
  BY <1>2, <1>3, SameFrame, Zenon DEF Telling, Removing, Calm
<1>5. QED  BY <1>4, ExactFrame, Zenon

\* Members only resign.
LEMMA MembersFewer ==
    ASSUME TypeOK, CallShape, Placed, NEW h \in Federates, StepOf(h)
    PROVE  members' \subseteq members
BY OutSteps, Zenon DEF Marks, Unmarks, Calm, Send, worldVars, LocalDelete, DeleteRemoves

\* Every step keeps discovery exact for the instances that are there.
LEMMA ExactNext ==
    ASSUME TypeOK, CallShape, Placed, BornFirst, ExactWhileThere,
           NEW h \in Federates, StepOf(h)
    PROVE  ExactWhileThere'
<1> SUFFICES ASSUME NEW f \in members', NEW o \in Objects, There(f, o)'
             PROVE  Exact(f, o)'
  BY Zenon DEF ExactWhileThere, There
<1>1. f \in members /\ f \in Federates
  BY MembersFewer, Zenon DEF TypeOK
<1>2. There(f, o)
  BY <1>1, ThereBefore, Zenon
<1>3. Exact(f, o)
  BY <1>1, <1>2, Zenon DEF ExactWhileThere, There
<1>4. QED  BY <1>1, <1>2, <1>3, OutSteps, ExactMarks, ExactUnmarks, ExactSends,
              ExactForgets, ExactRemoves, ExactCalm, Zenon

-----------------------------------------------------------------------------
(* No ghosts.                                                              *)

\* Every step keeps a removal under way for every instance that is gone and
\* still known.
LEMMA GhostsNext ==
    ASSUME TypeOK, CallShape, Placed, BornFirst, ExactWhileThere, GhostsDue,
           NEW h \in Federates, StepOf(h)
    PROVE  GhostsDue'
<1> SUFFICES ASSUME NEW f \in members', NEW o \in Objects,
                    o \in known'[f], <<f, o>> \notin crossed', ~Exists(o)'
             PROVE  \E g \in Federates : Ending(g, o, f)'
  BY Zenon DEF GhostsDue
<1>f. f \in members /\ f \in Federates /\ <<f, o>> \notin crossed
      /\ known \in [Federates -> SUBSET Objects]
  BY MembersFewer, CrossedGrows, Zenon DEF TypeOK
<1>e. Exact(f, o) /\ There(f, o)
  BY <1>f, Zenon DEF ExactWhileThere, There
<1>o. \A g \in Federates \ {h} : Ending(g, o, f) => Ending(g, o, f)'
  BY OthersAlike, AlikeDue, Zenon
<1>g. ASSUME o \in known[f], ~Exists(o), ~Ending(h, o, f)
      PROVE  \E g \in Federates : Ending(g, o, f)'
  <2>1. PICK g \in Federates : Ending(g, o, f)
    BY <1>f, <1>g, Zenon DEF GhostsDue
  <2>2. QED  BY <1>g, <1>o, <2>1, Zenon
<1>x. (\E p \in Objects : DeleteRemoves(h, p)) \/ ~Exists(o)
  BY ExistsNext, Zenon
<1>1. CASE Marks(h)
  <2>1. pc[h] = "mark" /\ call[h].op # "delete" /\ known' = known
    BY <1>1, Zenon DEF Marks, Serving
  <2>2. ~Ending(h, o, f)
    BY <2>1, Zenon DEF Ending
  <2>3. ASSUME NEW p \in Objects, DeleteRemoves(h, p) PROVE FALSE
    BY <2>1, <2>3, Zenon DEF DeleteRemoves, Ask
  <2>4. QED  BY <1>g, <1>x, <2>1, <2>2, <2>3, Zenon
<1>2. CASE Unmarks(h)
  <2>1. pc[h] = "unmark" /\ known' = known /\ call[h].op = "delete"
    BY <1>2, Zenon DEF Unmarks
  <2>2. ASSUME NEW p \in Objects, DeleteRemoves(h, p) PROVE FALSE
    BY <2>1, <2>2, Zenon DEF DeleteRemoves, Ask
  <2>3. CASE o # call[h].obj
    BY <1>g, <1>x, <2>1, <2>2, <2>3, Zenon DEF Ending
  <2>4. CASE o = call[h].obj
    <3>1. f # h /\ o \in discovered[f]
      BY <1>2, <1>e, <1>f, <2>1, <2>4, UnmarkedAlone, Zenon
    <3>2. f \in HadDiscovered(h, call[h].obj)
      BY <1>f, <2>4, <3>1, Zenon DEF HadDiscovered
    <3>3. Return(h, Both("remove", HadDiscovered(h, call[h].obj), "reflect", {}))
      BY <1>2, Zenon DEF Unmarks
    <3>4. Due(h, "remove", f)' /\ call'[h] = call[h]
      BY <3>2, <3>3, ReturnDue
    <3>5. QED  BY <2>1, <2>4, <3>4, Zenon DEF Ending
  <2>5. QED  BY <2>3, <2>4, Zenon
<1>3. ASSUME NEW k \in Federates, Send(h, k) PROVE \E g \in Federates : Ending(g, o, f)'
  <2>1. pc[h] = "send" /\ ~Exists(o) /\ pc[h] # "unmark"
    <3>1. pc[h] = "send"
      BY <1>3, Zenon DEF Send
    <3>2. ~Exists(o)
      BY <1>3, Zenon DEF Send, worldVars, Exists
    <3>3. QED  BY <3>1, <3>2, Zenon
  <2>s. ASSUME o \in known[f], Removing(h, o, f)' <=> Removing(h, o, f)
        PROVE  \E g \in Federates : Ending(g, o, f)'
    <3>1. CASE ~Ending(h, o, f)
      BY <1>g, <2>1, <2>s, <3>1, Zenon
    <3>2. CASE Ending(h, o, f)
      <4>1. Removing(h, o, f)' /\ call[h].op = "delete"
        BY <2>1, <2>s, <3>2, Zenon DEF Ending, Removing
      <4>2. Due(h, "remove", f)' /\ call'[h].obj = o
        BY <4>1, Zenon DEF Removing
      <4>3. call'[h] = call[h]
        BY <1>3, <4>2, SendTells, Zenon
      <4>4. QED  BY <4>1, <4>2, <4>3, Zenon DEF Ending
    <3>3. QED  BY <3>1, <3>2, Zenon
  <2>2. CASE f # k \/ o # call[h].obj
    <3>1. o \in known[f]
      BY <1>3, <1>f, <2>2, SendKnown, Zenon
    <3>2. Removing(h, o, f)' <=> Removing(h, o, f)
      BY <1>3, <2>2, SendTells, Zenon
    <3>3. QED  BY <2>s, <3>1, <3>2, Zenon
  <2>3. CASE f = k /\ o = call[h].obj
    <3>1. \/ Head(out[h]).cb = "discover" /\ Telling(h, o, f)
          \/ Head(out[h]).cb = "remove"
          \/ Head(out[h]).cb = "reflect" /\ (Removing(h, o, f)' <=> Removing(h, o, f))
      BY <1>3, <2>3, SendTells, Zenon
    <3>2. CASE Telling(h, o, f)
      BY <1>e, <1>f, <2>1, <3>2, TellingThere, Zenon
    <3>3. CASE Head(out[h]).cb = "remove"
      BY <1>3, <2>3, <3>3, SendKnown, Zenon
    <3>4. CASE Head(out[h]).cb = "reflect" /\ (Removing(h, o, f)' <=> Removing(h, o, f))
      BY <1>3, <2>s, <3>4, SendKnown, Zenon
    <3>5. QED  BY <3>1, <3>2, <3>3, <3>4, Zenon
  <2>4. QED  BY <2>2, <2>3, Zenon
<1>4. ASSUME NEW p \in Objects, LocalDelete(h, p) PROVE \E g \in Federates : Ending(g, o, f)'
  <2>1. pc[h] = "idle" /\ ~Exists(o) /\ known' = [known EXCEPT ![h] = @ \ {p}]
    BY <1>4, Zenon DEF LocalDelete, Ask, Exists
  <2>2. o \in known[f]
    BY <1>f, <2>1, Zenon
  <2>3. ~Ending(h, o, f)
    <3>1. call[h].op # "delete"
      BY <2>1, NoCallApart, Zenon DEF CallShape, Shaped
    <3>2. QED  BY <3>1, Zenon DEF Ending
  <2>4. QED  BY <1>g, <2>1, <2>2, <2>3, Zenon
<1>5. ASSUME NEW p \in Objects, DeleteRemoves(h, p) PROVE \E g \in Federates : Ending(g, o, f)'
  <2>1. /\ pc[h] = "idle" /\ known' = [known EXCEPT ![h] = @ \ {p}]
        /\ instances' = [instances EXCEPT ![p] = None]
    BY <1>5, Zenon DEF DeleteRemoves, Ask
  <2>2. o \in known[f]
    BY <1>f, <2>1, Zenon
  <2>3. CASE o = p
    <3>1. call'[h] = [NoCall EXCEPT !.op = "delete", !.obj = p]
      BY <1>5, DeleteCalls, Zenon
    <3>2. call'[h].op = "delete" /\ call'[h].obj = p
      BY <3>1, Zenon DEF NoCall
    <3>3. pc'[h] = "unmark"
      BY <1>5, Zenon DEF DeleteRemoves, Goto, TypeOK
    <3>4. QED  BY <2>3, <3>2, <3>3, Zenon DEF Ending
  <2>4. CASE o # p
    <3>1. ~Exists(o)
      BY <2>1, <2>4, Zenon DEF TypeOK, Exists
    <3>2. call[h].op # "delete"
      BY <2>1, NoCallApart, Zenon DEF CallShape, Shaped
    <3>3. QED  BY <1>g, <2>2, <3>1, <3>2, Zenon DEF Ending
  <2>5. QED  BY <2>3, <2>4, Zenon
<1>6. CASE Calm(h)
  <2>1. pc[h] # "send" /\ pc[h] # "unmark" /\ known' = known
    BY <1>6, Zenon DEF Calm
  <2>2. ~Ending(h, o, f)
    BY <2>1, DueOf, Zenon DEF Ending
  <2>3. QED  BY <1>5, <1>g, <1>x, <2>1, <2>2, Zenon
<1>7. QED  BY <1>1, <1>2, <1>3, <1>4, <1>5, <1>6, OutSteps, Zenon

-----------------------------------------------------------------------------
(* Early subscribers.                                                      *)

\* The three parts of EarlyKept.
EarlySubscribe == \A o \in Objects : \A f \in early[o] : subscribed[f] # {}

Candidates(h) ==
    call[h].op = "register" =>
       /\ h \notin early[call[h].obj]
       /\ pc[h] = "mark" => early[call[h].obj] \subseteq call[h].to

\* The registration of o that has not returned.
Waiting(h, o) == call[h].op = "register" /\ call[h].obj = o /\ pc[h] # "send"

EarlyMarked(o) == \A f \in early[o] \cap members : o \in discovered[f]

\* The invariant about early subscribers, part by part.
LEMMA EarlyParts ==
    EarlyKept <=> /\ EarlySubscribe
                  /\ \A h \in Federates : Candidates(h)
                  /\ \A o \in Existing :
                        (\A h \in Federates : ~Waiting(h, o)) => EarlyMarked(o)
BY Zenon DEF EarlyKept, EarlySubscribe, Candidates, Waiting, EarlyMarked

\* Only a registration that begins adds early subscribers; only unsubscribing
\* from everything, or forgetting the instance, drops one.
LEMMA EarlyFewer ==
    ASSUME TypeOK, CallShape, NEW h \in Federates, StepOf(h)
    PROVE  \/ \E name \in Requested \cup {None} : RegisterDraws(h, name)
           \/ \A o \in Objects : early'[o] \subseteq early[o]
<1>e. early \in [Objects -> SUBSET Federates]
  BY Zenon DEF TypeOK
<1>1. CASE Registration(h)
  BY <1>1, Zenon DEF Registration, RegisterName, RegisterInserts, RegisterCandidates,
                     RegisterMarks, historyVars
<1>2. CASE Updating(h)
  BY <1>2, Zenon DEF Updating, UpdateChecks, UpdateRoutes, UpdateFilters, UpdateLooks,
                     UpdateMarks, historyVars
<1>3. CASE Deletion(h)
  <2>1. ASSUME NEW p \in Objects, DeleteRemoves(h, p) PROVE early' = early
    BY <2>1, Zenon DEF DeleteRemoves
  <2>2. ASSUME NEW p \in Objects, LocalDelete(h, p)
        PROVE  \A o \in Objects : early'[o] \subseteq early[o]
    <3>1. early' = [early EXCEPT ![p] = @ \ {h}]
      BY <2>2, Zenon DEF LocalDelete
    <3>2. QED  BY <1>e, <3>1, Zenon
  <2>3. CASE DeleteUnmarks(h)
    BY <2>3, Zenon DEF DeleteUnmarks, historyVars
  <2>4. QED  BY <1>3, <2>1, <2>2, <2>3, Zenon DEF Deletion
<1>4. CASE Ownership(h)
  BY <1>4, Zenon DEF Ownership, Acquire, Divest, historyVars
<1>5. CASE Surroundings(h)
  <2>1. ASSUME NEW attrs, Unsubscribe(h, attrs)
        PROVE  \A o \in Objects : early'[o] \subseteq early[o]
    BY <2>1, Zenon DEF Unsubscribe
  <2>2. ASSUME NEW attrs, Subscribe(h, attrs) PROVE early' = early
    BY <2>2, Zenon DEF Subscribe, historyVars
  <2>3. CASE Resign(h)
    BY <2>3, Zenon DEF Resign, historyVars
  <2>4. ASSUME NEW f, Send(h, f) PROVE early' = early
    BY <2>4, Zenon DEF Send
  <2>5. QED  BY <1>5, <2>1, <2>2, <2>3, <2>4, Zenon DEF Surroundings
<1>6. QED  BY <1>1, <1>2, <1>3, <1>4, <1>5, Zenon DEF StepOf

\* No handle that was drawn before gets an early subscriber.
LEMMA EarlyOthers ==
    ASSUME TypeOK, CallShape, NEW h \in Federates, StepOf(h),
           NEW o \in Objects, o # next_object_id
    PROVE  early'[o] \subseteq early[o]
<1>1. ASSUME NEW name, RegisterDraws(h, name) PROVE early'[o] = early[o]
  BY <1>1, Zenon DEF RegisterDraws, TypeOK
<1>2. QED  BY <1>1, EarlyFewer, Zenon

\* Subscriptions change by subscribing and unsubscribing alone.
LEMMA SubscribedSteps ==
    ASSUME NEW h \in Federates, StepOf(h)
    PROVE  \/ subscribed' = subscribed
           \/ \E attrs \in SUBSET Attributes : Subscribe(h, attrs) \/ Unsubscribe(h, attrs)
<1>1. CASE Registration(h)
  BY <1>1, Zenon DEF Registration, RegisterDraws, RegisterName, RegisterInserts,
                     RegisterCandidates, RegisterMarks, worldVars
<1>2. CASE Updating(h)
  BY <1>2, Zenon DEF Updating, UpdateChecks, UpdateRoutes, UpdateFilters, UpdateLooks,
                     UpdateMarks, worldVars
<1>3. CASE Deletion(h)
  BY <1>3, Zenon DEF Deletion, DeleteRemoves, LocalDelete, DeleteUnmarks
<1>4. CASE Ownership(h)
  BY <1>4, Zenon DEF Ownership, Acquire, Divest
<1>5. CASE Surroundings(h)
  BY <1>5, Zenon DEF Surroundings, Resign, Send, worldVars
<1>6. QED  BY <1>1, <1>2, <1>3, <1>4, <1>5, Zenon DEF StepOf

\* Every step keeps the early subscribers subscribed.
LEMMA EarlySubscribeNext ==
    ASSUME TypeOK, CallShape, EarlySubscribe, NEW h \in Federates, StepOf(h)
    PROVE  EarlySubscribe'
<1> SUFFICES ASSUME NEW o \in Objects, NEW f \in early'[o] PROVE subscribed'[f] # {}
  BY Zenon DEF EarlySubscribe
<1>t. /\ early \in [Objects -> SUBSET Federates]
      /\ subscribed \in [Federates -> SUBSET Attributes]
  BY Zenon DEF TypeOK
<1>1. ASSUME NEW name, RegisterDraws(h, name) PROVE subscribed'[f] # {}
  <2>1. /\ early' = [early EXCEPT ![next_object_id] = SubscribersFor(Attributes, h)]
        /\ subscribed' = subscribed
    BY <1>1, Zenon DEF RegisterDraws
  <2>2. CASE f \in early[o]
    BY <2>1, <2>2, Zenon DEF EarlySubscribe
  <2>3. CASE f \in SubscribersFor(Attributes, h)
    BY <2>1, <2>3, Zenon DEF SubscribersFor
  <2>4. QED  BY <1>t, <2>1, <2>2, <2>3, Zenon
<1>2. CASE \A p \in Objects : early'[p] \subseteq early[p]
  <2>f. f \in early[o] /\ f \in Federates /\ subscribed[f] # {}
    BY <1>t, <1>2, Zenon DEF EarlySubscribe
  <2>1. CASE subscribed' = subscribed
    BY <2>1, <2>f, Zenon
  <2>2. ASSUME NEW attrs \in SUBSET Attributes, Subscribe(h, attrs) PROVE subscribed'[f] # {}
    <3>1. subscribed' = [subscribed EXCEPT ![h] = @ \cup attrs]
      BY <2>2, Zenon DEF Subscribe
    <3>2. subscribed[f] \subseteq subscribed'[f]
      BY <1>t, <2>f, <3>1, Zenon
    <3>3. QED  BY <2>f, <3>2, Zenon
  <2>3. ASSUME NEW attrs \in SUBSET Attributes, Unsubscribe(h, attrs) PROVE subscribed'[f] # {}
    <3>1. /\ subscribed' = [subscribed EXCEPT ![h] = @ \ attrs]
          /\ early' = [p \in Objects |-> IF subscribed[h] \subseteq attrs
                                           THEN early[p] \ {h} ELSE early[p]]
      BY <2>3, Zenon DEF Unsubscribe
    <3>2. CASE f # h
      BY <1>t, <2>f, <3>1, <3>2, Zenon
    <3>3. CASE f = h
      <4>1. ~(subscribed[h] \subseteq attrs)
        BY <3>1, <3>3, Zenon
      <4>2. subscribed'[h] = subscribed[h] \ attrs
        BY <1>t, <3>1, Zenon
      <4>3. QED  BY <3>3, <4>1, <4>2, Zenon
    <3>4. QED  BY <3>2, <3>3, Zenon
  <2>4. QED  BY <2>1, <2>2, <2>3, SubscribedSteps, Zenon
<1>3. QED  BY <1>1, <1>2, EarlyFewer, Zenon

\* The step of a session is the one that its handler has come to.
LEMMA StepAt ==
    ASSUME NEW h \in Federates, StepOf(h)
    PROVE  \/ pc[h] = "name" /\ RegisterName(h)
           \/ pc[h] = "insert" /\ RegisterInserts(h)
           \/ pc[h] = "candidates" /\ RegisterCandidates(h)
           \/ pc[h] = "mark" /\ call[h].op = "register" /\ RegisterMarks(h)
           \/ pc[h] = "mark" /\ call[h].op = "update" /\ UpdateMarks(h)
           \/ pc[h] = "send" /\ \E f \in Federates : Send(h, f)
           \/ pc[h] \in {"idle", "route", "filter", "look", "unmark"}
<1>1. CASE Registration(h)
  BY <1>1, Zenon DEF Registration, RegisterDraws, Ask, RegisterName, RegisterInserts,
              RegisterCandidates, RegisterMarks
<1>2. CASE Updating(h)
  BY <1>2, Zenon DEF Updating, UpdateChecks, Ask, UpdateRoutes, UpdateFilters, UpdateLooks,
              UpdateMarks
<1>3. CASE Deletion(h)
  BY <1>3, Zenon DEF Deletion, DeleteRemoves, LocalDelete, Ask, DeleteUnmarks
<1>4. CASE Ownership(h)
  BY <1>4, Zenon DEF Ownership, Acquire, Divest, Ask
<1>5. CASE Surroundings(h)
  BY <1>5, Zenon DEF Surroundings, Subscribe, Unsubscribe, Ask, Resign, Send
<1>6. QED  BY <1>1, <1>2, <1>3, <1>4, <1>5, Zenon DEF StepOf

\* A registration of a session has just begun, or is the one that it had.
LEMMA Registering ==
    ASSUME TypeOK, CallShape, NEW h \in Federates, StepOf(h), call'[h].op = "register"
    PROVE  \/ \E name \in Requested \cup {None} : RegisterDraws(h, name)
           \/ call[h].op = "register" /\ call'[h].obj = call[h].obj
<1>1. CASE RegisterInserts(h)
  BY <1>1, Zenon DEF RegisterInserts
<1>2. ASSUME NEW o \in Objects, NEW attrs, UpdateChecks(h, o, attrs) PROVE FALSE
  <2>1. call'[h] = [NoCall EXCEPT !.op = "update", !.obj = o, !.attrs = attrs]
    BY <1>2, Zenon DEF UpdateChecks, TypeOK
  <2>2. QED  BY <2>1, Zenon DEF NoCall
<1>3. ASSUME NEW o \in Objects, DeleteRemoves(h, o) PROVE FALSE
  <2>1. call'[h] = [NoCall EXCEPT !.op = "delete", !.obj = o]
    BY <1>3, DeleteCalls, Zenon
  <2>2. QED  BY <2>1, Zenon DEF NoCall
<1>4. CASE Quiet
  <2>1. Kept(h)
    BY <1>4, Zenon DEF Quiet
  <2>2. call'[h] # NoCall
    BY NoCallApart, Zenon
  <2>3. QED  BY <2>1, <2>2, Zenon DEF Kept
<1>5. QED  BY <1>1, <1>2, <1>3, <1>4, QuietSteps, Zenon

\* Every step keeps the early subscribers among those a registration will tell.
LEMMA CandidatesNext ==
    ASSUME TypeOK, CallShape, Placed, EarlySubscribe, \A g \in Federates : Candidates(g),
           NEW h \in Federates, StepOf(h), NEW g \in Federates
    PROVE  Candidates(g)'
<1>t. /\ early \in [Objects -> SUBSET Federates]
      /\ subscribed \in [Federates -> SUBSET Attributes]
      /\ pc \in [Federates -> Steps] /\ call \in [Federates -> Calls]
  BY Zenon DEF TypeOK, Steps
<1>n. next_object_id \in Nat
  BY MaxObjectAssumption DEF TypeOK
<1>c. ASSUME NEW k \in Federates, call[k].op = "register"
      PROVE  /\ call[k].obj \in Objects /\ k \notin early[call[k].obj]
             /\ call[k].obj # next_object_id
             /\ pc[k] = "mark" => early[call[k].obj] \subseteq call[k].to
  <2>1. call[k].obj \in Objects
    BY <1>c, CallObject, Zenon
  <2>2. call[k].obj # next_object_id
    BY <1>n, <2>1 DEF Placed, Objects
  <2>3. Candidates(k)
    OBVIOUS
  <2>4. QED  BY <1>c, <2>1, <2>2, <2>3, Zenon DEF Candidates
<1>e. ASSUME NEW o \in Objects, o # next_object_id PROVE early'[o] \subseteq early[o]
  BY <1>e, EarlyOthers, Zenon
<1>1. CASE g # h
  <2>1. /\ call'[g].op = call[g].op /\ call'[g].obj = call[g].obj
        /\ call'[g].to = call[g].to /\ pc'[g] = pc[g]
    BY <1>1, OthersAlike, AlikeCall, Zenon
  <2> SUFFICES ASSUME call[g].op = "register"
               PROVE  /\ g \notin early'[call'[g].obj]
                      /\ pc'[g] = "mark" => early'[call'[g].obj] \subseteq call'[g].to
    BY <2>1, Zenon DEF Candidates
  <2>2. early'[call'[g].obj] \subseteq early[call[g].obj]
    BY <1>c, <1>e, <2>1, Zenon
  <2>3. QED  BY <1>c, <2>1, <2>2, Zenon
<1>2. CASE g = h
  <2> SUFFICES ASSUME call'[h].op = "register"
               PROVE  /\ h \notin early'[call'[h].obj]
                      /\ pc'[h] = "mark" => early'[call'[h].obj] \subseteq call'[h].to
    BY <1>2, Zenon DEF Candidates
  <2>1. ASSUME NEW name, RegisterDraws(h, name)
        PROVE  h \notin early'[call'[h].obj] /\ pc'[h] # "mark"
    <3>1. next_object_id \in Objects
      BY <2>1, Zenon DEF RegisterDraws
    <3>2. call'[h] = [NoCall EXCEPT !.op = "register", !.obj = next_object_id, !.name = name]
      BY <1>t, <2>1, Zenon DEF RegisterDraws
    <3>3. call'[h].obj = next_object_id
      BY <3>2, Zenon DEF NoCall
    <3>4. early'[next_object_id] = SubscribersFor(Attributes, h)
      BY <1>t, <2>1, <3>1, Zenon DEF RegisterDraws
    <3>5. h \notin SubscribersFor(Attributes, h)
      BY Zenon DEF SubscribersFor
    <3>6. pc'[h] # "mark"
      BY <1>t, <2>1, Zenon DEF RegisterDraws, Goto
    <3>7. QED  BY <3>3, <3>4, <3>5, <3>6, Zenon
  <2>2. ASSUME call[h].op = "register", call'[h].obj = call[h].obj
        PROVE  /\ h \notin early'[call'[h].obj]
               /\ pc'[h] = "mark" => early'[call'[h].obj] \subseteq call'[h].to
    <3> DEFINE o == call[h].obj
    <3>1. early'[o] \subseteq early[o] /\ h \notin early[o] /\ o \in Objects
      BY <1>c, <1>e, <2>2, Zenon
    <3>2. ASSUME RegisterCandidates(h) PROVE early'[o] \subseteq call'[h].to
      <4>1. call'[h] = [call[h] EXCEPT !.to = SubscribersFor(Attributes, h)]
        BY <1>t, <3>2, Zenon DEF RegisterCandidates
      <4>2. call[h] \in Calls
        BY <1>t, Zenon
      <4>3. call'[h].to = SubscribersFor(Attributes, h)
        BY <4>1, <4>2, Zenon DEF Calls
      <4>4. ASSUME NEW f \in early[o] PROVE f \in SubscribersFor(Attributes, h)
        <5>1. f \in Federates /\ f # h /\ subscribed[f] # {}
          BY <1>t, <3>1, <4>4, Zenon DEF EarlySubscribe
        <5>2. subscribed[f] \cap Attributes # {}
          BY <1>t, <5>1, Zenon
        <5>3. QED  BY <5>1, <5>2, Zenon DEF SubscribersFor
      <4>5. QED  BY <3>1, <4>3, <4>4, Zenon
    <3>3. pc'[h] = "mark" => RegisterCandidates(h)
      <4>r. ASSUME NEW due, Return(h, due) PROVE pc'[h] # "mark"
        BY <4>r, <1>t, Zenon DEF Return, Goto
      <4>g. ASSUME NEW step, Goto(h, step), step # "mark" PROVE pc'[h] # "mark"
        BY <4>g, <1>t, Zenon DEF Goto
      <4>1. CASE RegisterName(h)
        BY <4>1, <4>r, <4>g, Zenon DEF RegisterName
      <4>2. CASE RegisterInserts(h)
        BY <4>2, <4>g, Zenon DEF RegisterInserts
      <4>3. CASE RegisterMarks(h)
        BY <4>3, <4>r, Zenon DEF RegisterMarks
      <4>4. ASSUME NEW f \in Federates, Send(h, f) PROVE pc'[h] # "mark"
        BY <4>4, <4>r, Zenon DEF Send
      <4>5. pc[h] \notin {"idle", "route", "filter", "look", "unmark"}
        BY <2>2, NoCallApart, Zenon DEF CallShape, Shaped
      <4>6. call[h].op # "update"
        BY <2>2, Zenon
      <4>7. QED  BY <4>1, <4>2, <4>3, <4>4, <4>5, <4>6, StepAt, Zenon
    <3>4. QED  BY <2>2, <3>1, <3>2, <3>3, Zenon
  <2>3. QED  BY <2>1, <2>2, Registering, Zenon
<1>3. QED  BY <1>1, <1>2, Zenon

\* Once a registration has marked, its early subscribers are marked.
LEMMA EarlyMarkedNext ==
    ASSUME TypeOK, CallShape, Placed, \A g \in Federates : Candidates(g),
           \A o \in Existing : (\A g \in Federates : ~Waiting(g, o)) => EarlyMarked(o),
           NEW h \in Federates, StepOf(h), NEW o \in Existing',
           \A g \in Federates : ~Waiting(g, o)'
    PROVE  EarlyMarked(o)'
<1> SUFFICES ASSUME NEW f \in early'[o], f \in members' PROVE o \in discovered'[f]
  BY Zenon DEF EarlyMarked
<1>t. /\ discovered \in [Federates -> SUBSET Objects] /\ early \in [Objects -> SUBSET Federates]
      /\ pc \in [Federates -> Steps] /\ call \in [Federates -> Calls]
  BY Zenon DEF TypeOK, Steps
<1>f. f \in members /\ f \in Federates /\ o \in Objects /\ Exists(o)'
  BY MembersFewer, Zenon DEF TypeOK, Existing
<1>1. CASE RegisterMarks(h) /\ o = call[h].obj
  <2>1. pc[h] = "mark" /\ call[h].op = "register" /\ early' = early /\ Mark(call[h].to, o)
    BY <1>1, Zenon DEF RegisterMarks, historyVars
  <2>2. Candidates(h)
    OBVIOUS
  <2>3. f \in call[h].to
    BY <1>1, <2>1, <2>2, Zenon DEF Candidates
  <2>4. QED  BY <1>f, <2>1, <2>3, Zenon DEF Mark
<1>2. CASE ~(RegisterMarks(h) /\ o = call[h].obj)
  <2>i. ASSUME RegisterInserts(h), o = call[h].obj PROVE FALSE
    <3>1. pc'[h] = "candidates" /\ call' = call /\ call[h].op = "register"
      BY <1>t, <2>i, Zenon DEF RegisterInserts, Goto, CallShape, Shaped
    <3>2. Waiting(h, o)'
      BY <2>i, <3>1, Zenon DEF Waiting
    <3>3. QED  BY <3>2, Zenon
  <2>1. Exists(o) /\ o \in Existing
    BY <1>f, <2>i, ExistsNext, Zenon DEF Existing
  <2>2. ~Waiting(h, o)
    <3> SUFFICES ASSUME Waiting(h, o) PROVE FALSE
      OBVIOUS
    <3>0. call[h].op = "register" /\ call[h].obj = o /\ pc[h] # "send"
      BY Zenon DEF Waiting
    <3>1. pc[h] # "name"
      BY <2>1, <3>0, Zenon DEF Placed, PendingFree, Pending
    <3>2. ASSUME RegisterCandidates(h) PROVE FALSE
      <4>1. pc'[h] = "mark" /\ call'[h] = [call[h] EXCEPT !.to = SubscribersFor(Attributes, h)]
        BY <1>t, <3>2, Zenon DEF RegisterCandidates, Goto
      <4>2. call[h] \in Calls
        BY <1>t, Zenon
      <4>3. call'[h].op = call[h].op /\ call'[h].obj = call[h].obj
        BY <4>1, <4>2, Zenon DEF Calls
      <4>4. Waiting(h, o)'
        BY <3>0, <4>1, <4>3, Zenon DEF Waiting
      <4>5. QED  BY <4>4, Zenon
    <3>3. pc[h] \notin {"idle", "route", "filter", "look", "unmark"}
      BY <3>0, NoCallApart, Zenon DEF CallShape, Shaped
    <3>4. call[h].op # "update"
      BY <3>0, Zenon
    <3>5. QED  BY <1>2, <2>i, <3>0, <3>1, <3>2, <3>3, <3>4, StepAt, Zenon
  <2>3. ASSUME NEW g \in Federates \ {h}, Waiting(g, o) PROVE FALSE
    <3>1. Waiting(g, o)'
      BY <2>3, OthersAlike, AlikeCall, Zenon DEF Waiting
    <3>2. QED  BY <3>1, Zenon
  <2>4. EarlyMarked(o)
    BY <2>1, <2>2, <2>3, Zenon
  <2>5. o # next_object_id
    <3>1. o < next_object_id /\ next_object_id \in Nat
      BY <2>1, MaxObjectAssumption DEF TypeOK
    <3>2. QED  BY <3>1 DEF Objects
  <2>6. f \in early[o] /\ o \in discovered[f]
    BY <1>f, <2>4, <2>5, EarlyOthers, Zenon DEF EarlyMarked
  <2>7. CASE Marks(h)
    BY <1>f, <2>6, <2>7, Zenon DEF Marks, Mark
  <2>8. CASE Unmarks(h)
    <3>1. o # call[h].obj
      BY <2>1, <2>8, Zenon DEF Unmarks, Placed, DeletedGone
    <3>2. QED  BY <1>f, <2>6, <2>8, <3>1, Zenon DEF Unmarks
  <2>9. ASSUME NEW k, Send(h, k) PROVE o \in discovered'[f]
    BY <2>6, <2>9, Zenon DEF Send, worldVars
  <2>10. ASSUME NEW p \in Objects, LocalDelete(h, p) PROVE o \in discovered'[f]
    <3>1. /\ discovered' = [discovered EXCEPT ![h] = @ \ {p}]
          /\ early' = [early EXCEPT ![p] = @ \ {h}]
      BY <2>10, Zenon DEF LocalDelete
    <3>2. f # h \/ o # p
      BY <1>t, <1>f, <3>1, Zenon
    <3>3. QED  BY <1>t, <1>f, <2>6, <3>1, <3>2, Zenon
  <2>11. ASSUME NEW p \in Objects, DeleteRemoves(h, p) PROVE o \in discovered'[f]
    BY <2>6, <2>11, Zenon DEF DeleteRemoves
  <2>12. QED  BY <2>6, <2>7, <2>8, <2>9, <2>10, <2>11, OutSteps, Zenon DEF Calm
<1>3. QED  BY <1>1, <1>2, Zenon

\* Every step keeps what is said of early subscribers.
LEMMA EarlyNext ==
    ASSUME TypeOK, CallShape, Placed, EarlyKept, NEW h \in Federates, StepOf(h)
    PROVE  EarlyKept'
<1>1. /\ EarlySubscribe
      /\ \A g \in Federates : Candidates(g)
      /\ \A o \in Existing : (\A g \in Federates : ~Waiting(g, o)) => EarlyMarked(o)
  BY EarlyParts, Zenon
<1>2. EarlySubscribe'
  BY <1>1, EarlySubscribeNext, Zenon
<1>3. \A g \in Federates : Candidates(g)'
  BY <1>1, CandidatesNext, Zenon
<1>4. \A o \in Existing' : (\A g \in Federates : ~Waiting(g, o)') => EarlyMarked(o)'
  BY <1>1, EarlyMarkedNext, Zenon
<1>5. QED  BY <1>2, <1>3, <1>4, Zenon
           DEF EarlyKept, EarlySubscribe, Candidates, Waiting, EarlyMarked

-----------------------------------------------------------------------------
(* Reflections.                                                            *)

\* Every step keeps reflections to federates that are marked.
LEMMA ReflectsNext ==
    ASSUME TypeOK, CallShape, Placed, ReflectsMarked, NEW h \in Federates, StepOf(h)
    PROVE  ReflectsMarked'
<1> SUFFICES ASSUME NEW g \in Federates, ~call'[g].late, NEW f \in members',
                    Due(g, "reflect", f)'
             PROVE  call'[g].obj \in discovered'[f]
  BY Zenon DEF ReflectsMarked
<1>t. discovered \in [Federates -> SUBSET Objects]
  BY Zenon DEF TypeOK
<1>f. f \in members /\ f \in Federates
  BY MembersFewer, Zenon DEF TypeOK
<1>1. CASE Marks(h) /\ g = h
  <2>1. PICK U \in SUBSET (call[h].to \cap members) :
           Return(h, Both("discover", NewlyDiscovered(call[h].to, call[h].obj), "reflect", U))
    BY <1>1, Zenon DEF Marks
  <2>2. f \in U /\ call'[h] = call[h]
    <3> DEFINE T == NewlyDiscovered(call[h].to, call[h].obj)
    <3> HIDE DEF T
    <3>0. Return(h, Both("discover", T, "reflect", U))
      BY <2>1, Zenon DEF T
    <3>1. /\ ("reflect" = "discover" /\ f \in T) \/ ("reflect" = "reflect" /\ f \in U)
          /\ call'[h] = call[h]
      BY <1>1, <3>0, ReturnDue
    <3>2. QED  BY <3>1, Zenon
  <2>3. Mark(call[h].to, call[h].obj)
    BY <1>1, Zenon DEF Marks
  <2>4. QED  BY <1>1, <1>f, <2>1, <2>2, <2>3, Zenon DEF Mark
<1>2. CASE Unmarks(h) /\ g = h
  <2> DEFINE T == HadDiscovered(h, call[h].obj)
  <2> HIDE DEF T
  <2>1. Return(h, Both("remove", T, "reflect", {}))
    BY <1>2, Zenon DEF Unmarks, T
  <2>2. ("reflect" = "remove" /\ f \in T) \/ ("reflect" = "reflect" /\ f \in {})
    BY <1>2, <2>1, ReturnDue
  <2>3. QED  BY <2>2, Zenon
<1>3. CASE Calm(h) /\ g = h
  BY <1>3, Zenon DEF Calm
<1>4. ASSUME NEW p \in Objects, LocalDelete(h, p) \/ DeleteRemoves(h, p), g = h PROVE FALSE
  <2>1. out'[h] = <<>>
    BY <1>4, Zenon DEF LocalDelete, DeleteRemoves, Ask, CallShape, Shaped
  <2>2. ~DueIn(<<>>, "reflect", f)
    BY DueShort, Zenon
  <2>3. QED  BY <1>4, <2>1, <2>2, DueQueue, Zenon
<1>5. CASE g # h \/ \E k \in Federates : Send(h, k)
  <2>1. /\ Due(g, "reflect", f) /\ call'[g].obj = call[g].obj
        /\ call[g].late => call'[g].late
    <3>1. CASE g # h
      BY <3>1, OthersAlike, AlikeDue, AlikeCall, Zenon
    <3>2. CASE g = h /\ \E k \in Federates : Send(h, k)
      BY <3>2, SendTells, Zenon
    <3>3. QED  BY <1>5, <3>1, <3>2, Zenon
  <2>2. call[g].obj \in discovered[f]
    BY <1>f, <2>1, Zenon DEF ReflectsMarked
  <2>3. CASE Marks(h)
    BY <1>f, <2>1, <2>2, <2>3, Zenon DEF Marks, Mark
  <2>4. CASE Unmarks(h)
    <3>1. call[g].obj # call[h].obj
      <4> SUFFICES ASSUME call[g].obj = call[h].obj PROVE FALSE
        OBVIOUS
      <4>1. ~Exists(call[g].obj)
        BY <2>4, Zenon DEF Unmarks, Placed, DeletedGone
      <4>2. Serving(g)
        BY <2>1, DueOf, Zenon
      <4>3. QED  BY <2>1, <4>1, <4>2, Zenon DEF Placed, Overtaken
    <3>2. QED  BY <1>f, <2>1, <2>2, <2>4, <3>1, Zenon DEF Unmarks
  <2>5. ASSUME NEW k, Send(h, k) PROVE call'[g].obj \in discovered'[f]
    BY <2>1, <2>2, <2>5, Zenon DEF Send, worldVars
  <2>6. ASSUME NEW p \in Objects, LocalDelete(h, p) PROVE call'[g].obj \in discovered'[f]
    <3>1. discovered' = [discovered EXCEPT ![h] = @ \ {p}]
      BY <2>6, Zenon DEF LocalDelete
    <3>2. call[g].obj # p
      BY <2>6, LateCalls, Zenon
    <3>3. QED  BY <1>t, <1>f, <2>1, <2>2, <3>1, <3>2, Zenon
  <2>7. ASSUME NEW p \in Objects, DeleteRemoves(h, p) PROVE call'[g].obj \in discovered'[f]
    BY <2>1, <2>2, <2>7, Zenon DEF DeleteRemoves
  <2>8. QED  BY <2>1, <2>2, <2>3, <2>4, <2>5, <2>6, <2>7, OutSteps, Zenon DEF Calm
<1>6. QED  BY <1>1, <1>2, <1>3, <1>4, <1>5, OutSteps, Zenon

-----------------------------------------------------------------------------
(* The theorems.                                                           *)

\* Nothing is called, known or queued at the start.
LEMMA ObjectsInit == Init => IInv
<1> SUFFICES ASSUME Init PROVE IInv
  OBVIOUS
<1>1. /\ \A h \in Federates : call[h] = NoCall /\ pc[h] = "idle" /\ out[h] = <<>>
      /\ \A f \in Federates : known[f] = {} /\ discovered[f] = {}
      /\ \A o \in Objects : early[o] = {} /\ ~Exists(o)
      /\ crossed = {} /\ members = Federates /\ next_object_id = 1
  BY Zenon DEF Init, Exists
<1>2. \A h \in Federates : call[h].op = "none" /\ call[h].obj = 0 /\ ~Pending(h) /\ ~Serving(h)
  BY <1>1, NoCallApart, Zenon DEF Pending, Serving
<1>3. \A h \in Federates : \A cb, f : ~Due(h, cb, f)
  <2>1. \A cb, f : ~DueIn(<<>>, cb, f)
    BY DueShort, Zenon
  <2> SUFFICES ASSUME NEW h \in Federates, NEW cb, NEW f PROVE ~Due(h, cb, f)
    OBVIOUS
  <2>2. out[h] = <<>>
    BY <1>1, Zenon
  <2>3. QED  BY <2>1, <2>2, DueQueue, Zenon
<1>4. TypeOK /\ Writers /\ Names
  BY TypesInit, WritersInit, NamesInit, Zenon
<1>5. CallShape
  <2> SUFFICES ASSUME NEW h \in Federates PROVE Shaped(h)
    BY Zenon DEF CallShape
  <2>1. call[h] = NoCall /\ pc[h] = "idle" /\ out[h] = <<>>
    BY <1>1, Zenon
  <2>2. QED  BY <2>1, Zenon DEF Shaped
<1>6. Placed
  <2> SUFFICES ASSUME NEW h \in Federates
               PROVE  call[h].obj < next_object_id /\ PendingFree(h) /\ DeletedGone(h) /\ Overtaken(h)
    BY Zenon DEF Placed
  <2>1. call[h].op = "none" /\ call[h].obj = 0 /\ ~Pending(h) /\ ~Serving(h)
    BY <1>2, Zenon
  <2>2. call[h].obj < next_object_id
    BY <1>1, <2>1
  <2>3. QED  BY <2>1, <2>2, Zenon DEF PendingFree, DeletedGone, Overtaken
<1>7. BornFirst
  BY <1>1, Zenon DEF BornFirst
<1>8. ExactWhileThere
  BY <1>1, <1>3, Zenon DEF ExactWhileThere, Exact, Telling
<1>9. GhostsDue
  BY <1>1, Zenon DEF GhostsDue
<1>10. EarlyKept
  <2>1. \A h \in Federates : call[h].op # "register"
    BY <1>2, Zenon
  <2>2. Existing = {}
    BY <1>1, Zenon DEF Existing
  <2>3. \A o \in Objects : early[o] = {}
    BY <1>1, Zenon
  <2>4. QED  BY <2>1, <2>2, <2>3, Zenon DEF EarlyKept
<1>11. ReflectsMarked
  BY <1>3, Zenon DEF ReflectsMarked
<1>12. QED  BY <1>4, <1>5, <1>6, <1>7, <1>8, <1>9, <1>10, <1>11, Zenon DEF IInv, Writers, Names

\* Every step keeps the inductive invariant.
LEMMA ObjectsNext == IInv /\ [Next]_vars => IInv'
<1> SUFFICES ASSUME IInv, [Next]_vars PROVE IInv'
  OBVIOUS
<1>1. ASSUME NEW h \in Federates, StepOf(h) PROVE IInv'
  <2>1. TypeOK /\ CallShape /\ Placed /\ Writers /\ Names
    BY Zenon DEF IInv, Writers, Names
  <2>2. BornFirst /\ ExactWhileThere /\ GhostsDue /\ EarlyKept /\ ReflectsMarked
    BY Zenon DEF IInv
  <2>3. TypeOK' /\ CallShape' /\ Placed' /\ Writers' /\ Names'
    BY <1>1, <2>1, PlacedNext, WritersNext, NamesNext, Zenon
  <2>4. BornFirst' /\ ExactWhileThere'
    BY <1>1, <2>1, <2>2, BornNext, ExactNext, Zenon
  <2>5. GhostsDue' /\ EarlyKept' /\ ReflectsMarked'
    BY <1>1, <2>1, <2>2, GhostsNext, EarlyNext, ReflectsNext, Zenon
  <2>6. QED  BY <2>3, <2>4, <2>5, Zenon DEF IInv, Writers, Names
<1>2. CASE UNCHANGED vars
  <2>1. UNCHANGED <<members, instances, next_object_id, subscribed, discovered, pc, call, out,
                    requests, known, early, crossed, raced>>
    BY <1>2, Zenon DEF vars, worldVars, callVars, historyVars
  <2>2. TypeOK' /\ CallShape'
    <3>1. TypeOK /\ CallShape
      BY Zenon DEF IInv
    <3>2. TypeOK'
      BY <2>1, <3>1, Zenon DEF TypeOK, Existing, Exists
    <3>3. ASSUME NEW h \in Federates PROVE Shaped(h)' <=> Shaped(h)
      BY <2>1, Zenon DEF Shaped, Queued, First
    <3>4. QED  BY <3>1, <3>2, <3>3, Zenon DEF CallShape
  <2>3. Placed'
    <3>1. ASSUME NEW h \in Federates
          PROVE  /\ PendingFree(h)' <=> PendingFree(h)
                 /\ DeletedGone(h)' <=> DeletedGone(h)
                 /\ Overtaken(h)' <=> Overtaken(h)
      <4>1. PendingFree(h)' <=> PendingFree(h)
        BY <2>1, Zenon DEF PendingFree, Pending, Exists
      <4>2. DeletedGone(h)' <=> DeletedGone(h)
        BY <2>1, Zenon DEF DeletedGone, Exists
      <4>3. Overtaken(h)' <=> Overtaken(h)
        BY <2>1, Zenon DEF Overtaken, Serving, Pending, Exists
      <4>4. QED  BY <4>1, <4>2, <4>3, Zenon
    <3>2. Placed
      BY Zenon DEF IInv
    <3>3. QED  BY <2>1, <3>1, <3>2, Zenon DEF Placed
  <2>4. WriterOwns' /\ SingleWriter'
    <3>1. WriterOwns /\ SingleWriter
      BY Zenon DEF IInv
    <3>2. \A h, o, a : Updates(h, o, a)' <=> Updates(h, o, a)
      BY <2>1, Zenon DEF Updates
    <3>3. WriterOwns'
      BY <2>1, <3>1, <3>2, Zenon DEF WriterOwns, Exists
    <3>4. QED  BY <3>1, <3>2, <3>3, Zenon DEF SingleWriter
  <2>5. NamesPassed' /\ NamesUnique'
    BY <2>1, Zenon DEF IInv, NamesPassed, Passed, Claims, NamesUnique, Existing, Exists
  <2>6. BornFirst'
    BY <2>1, Zenon DEF IInv, BornFirst, Unborn, Pending
  <2>7. ExactWhileThere'
    <3>1. \A f, o : Same(f, o)
      BY <2>1 DEF Same, Telling, Removing, Due
    <3>2. ExactWhileThere
      BY Zenon DEF IInv
    <3>3. ASSUME NEW f \in members, NEW o \in Objects, Exact(f, o) PROVE Exact(f, o)'
      BY <3>1, <3>3, ExactFrame, Zenon
    <3>4. QED  BY <2>1, <3>2, <3>3, Zenon DEF ExactWhileThere, Exists
  <2>8. GhostsDue'
    <3>1. \A h, o, f : Ending(h, o, f)' <=> Ending(h, o, f)
      BY <2>1, Zenon DEF Ending, Due
    <3>2. GhostsDue
      BY Zenon DEF IInv
    <3>3. QED  BY <2>1, <3>1, <3>2, Zenon DEF GhostsDue, Exists
  <2>9. EarlyKept' /\ ReflectsMarked'
    <3>1. EarlyKept /\ ReflectsMarked
      BY Zenon DEF IInv
    <3>2. \A h, cb, f : Due(h, cb, f)' <=> Due(h, cb, f)
      BY <2>1, Zenon DEF Due
    <3>3. ReflectsMarked'
      BY <2>1, <3>1, <3>2, Zenon DEF ReflectsMarked
    <3>4. Existing' = Existing
      BY <2>1, Zenon DEF Existing, Exists
    <3>5. EarlyKept'
      BY <2>1, <3>1, <3>4 DEF EarlyKept
    <3>6. QED  BY <3>3, <3>5, Zenon
  <2>10. QED  BY <2>2, <2>3, <2>4, <2>5, <2>6, <2>7, <2>8, <2>9, Zenon DEF IInv
<1>3. QED  BY <1>1, <1>2, Zenon DEF Next, StepOf

\* The inductive invariant holds in every state that sessions reach, however
\* the locked sections of their handlers and the sending of callbacks
\* interleave.
THEOREM ObjectsInvariant == Spec => []IInv
BY ObjectsInit, ObjectsNext, PTL DEF Spec

\* An attribute has one writer: ownership is checked once, at the start of
\* update_attribute_values, and what is owned can only be given up by its
\* owner, whose session serves no other call meanwhile.
THEOREM OneWriter == Spec => []SingleWriter
<1>1. IInv => SingleWriter
  BY Zenon DEF IInv
<1>2. QED  BY <1>1, ObjectsInvariant, PTL

\* Names of instances are unique but for the two races named: the check of
\* register_object_instance and its insertion are two locked sections, and a
\* name that the RTI makes up is not checked.
THEOREM UniqueNames == Spec => []NamesUnique
<1>1. IInv => NamesUnique
  BY Zenon DEF IInv
<1>2. QED  BY <1>1, ObjectsInvariant, PTL

\* The inductive invariant has what DiscoveryRight says.
LEMMA RightDiscovery == IInv => DiscoveryRight
<1> SUFFICES ASSUME IInv PROVE DiscoveryRight
  OBVIOUS
<1>m. members \subseteq Federates
  BY Zenon DEF IInv, TypeOK
<1>1. DiscoveryExact
  <2> SUFFICES ASSUME NEW f \in members, NEW o \in Objects, <<f, o>> \notin crossed
               PROVE  /\ \A g, h \in Senders("discover", o, f) : g = h
                      /\ o \in known[f] => Senders("discover", o, f) = {}
                      /\ o \in discovered[f] <=>
                            \/ Senders("discover", o, f) # {}
                            \/ o \in known[f] /\ Senders("remove", o, f) = {}
    BY Zenon DEF DiscoveryExact
  <2>1. Exact(f, o)
    BY Zenon DEF IInv, ExactWhileThere
  <2>2. /\ \A h \in Federates : Telling(h, o, f) <=> h \in Senders("discover", o, f)
        /\ \A h \in Federates : Removing(h, o, f) <=> h \in Senders("remove", o, f)
        /\ Senders("discover", o, f) \subseteq Federates
        /\ Senders("remove", o, f) \subseteq Federates
    BY Zenon DEF Telling, Removing, Senders
  <2>3. QED  BY <2>1, <2>2, Zenon DEF Exact
<1>2. NoGhosts
  <2> SUFFICES ASSUME NEW f \in members, NEW o \in Objects,
                      o \in known[f], Busy(o) = {}, <<f, o>> \notin crossed
               PROVE  Exists(o)
    BY Zenon DEF NoGhosts
  <2>1. \A h \in Federates : ~Ending(h, o, f)
    BY Zenon DEF Busy, Ending
  <2>2. QED  BY <2>1, Zenon DEF IInv, GhostsDue
<1>3. EarlySubscribersDiscover
  BY Zenon DEF IInv, EarlyKept, EarlySubscribersDiscover
<1>4. QED  BY <1>1, <1>2, <1>3, Zenon DEF DiscoveryRight

\* Discovery is right from first to last: the marks that the handlers set and
\* clear under the lock are what the callbacks, sent later and one by one,
\* make of it; nobody is told twice, nobody is left with an instance that is
\* gone, and early subscribers are told, but for the races named.
THEOREM DiscoveryIsRight == Spec => []DiscoveryRight
BY ObjectsInvariant, RightDiscovery, PTL

\* The inductive invariant has what ReflectsKnown says.
LEMMA KnownReflects == IInv => ReflectsKnown
<1> SUFFICES ASSUME IInv, NEW h \in Federates, pc[h] = "send",
                    Head(out[h]).cb = "reflect", ~call[h].late,
                    NEW f \in Head(out[h]).to, f \in members
             PROVE  \/ call[h].obj \in known[f]
                    \/ Senders("discover", call[h].obj, f) \ {h} # {}
  BY Zenon DEF ReflectsKnown
<1>t. TypeOK /\ CallShape /\ Placed /\ f \in Federates
  BY Zenon DEF IInv, TypeOK
<1>1. Queued(h) /\ out[h] # <<>> /\ call[h].obj \in Objects
  BY <1>t, Zenon DEF CallShape, Shaped
<1>2. PICK T, U \in SUBSET Federates : out[h] = Both(First(h), T, "reflect", U)
  BY <1>1, Zenon DEF Queued
<1>3. First(h) # "reflect" /\ First(h) \in {"discover", "remove"}
  BY Zenon DEF First
<1>4. T = {} /\ f \in U
  <2>1. T # {} \/ U # {}
    BY <1>1, <1>2, OneBatch, Zenon
  <2>2. f \in Head(Both(First(h), T, "reflect", U)).to
    BY <1>2, Zenon
  <2>3. \/ Sends(Both(First(h), T, "reflect", U), f, First(h),
                 Both(First(h), T \ {f}, "reflect", U))
        \/ T = {} /\ f \in U
    BY <2>1, <2>2, LeftBatches, Zenon
  <2>4. QED  BY <1>2, <1>3, <2>3, Zenon DEF Sends
<1>5. \A cb : DueIn(Both(First(h), T, "reflect", U), cb, f)
                <=> (cb = First(h) /\ f \in T) \/ (cb = "reflect" /\ f \in U)
  BY DueBatches
<1>6. \A cb : Due(h, cb, f) <=> (cb = First(h) /\ f \in T) \/ (cb = "reflect" /\ f \in U)
  BY <1>2, <1>5, DueQueue, Zenon
<1>7. Due(h, "reflect", f) /\ ~Due(h, "discover", f)
  BY <1>4, <1>6
<1>8. call[h].obj \in discovered[f]
  BY <1>7, Zenon DEF IInv, ReflectsMarked
<1>9. Exists(call[h].obj)
  <2>1. Serving(h)
    BY <1>t, <1>7, DueOf, Zenon
  <2>2. QED  BY <1>t, <2>1, Zenon DEF Placed, Overtaken
<1>10. Exact(f, call[h].obj)
  BY <1>1, <1>9, Zenon DEF IInv, ExactWhileThere
<1>11. CASE call[h].obj \in known[f]
  BY <1>11, Zenon
<1>12. ASSUME NEW g \in Federates, Telling(g, call[h].obj, f)
       PROVE  Senders("discover", call[h].obj, f) \ {h} # {}
  <2>1. g # h /\ g \in Senders("discover", call[h].obj, f)
    BY <1>7, <1>12, Zenon DEF Telling, Senders
  <2>2. QED  BY <2>1, Zenon
<1>13. QED  BY <1>8, <1>10, <1>11, <1>12, Zenon DEF Exact

\* A reflection reaches a federate that knows the instance, or is about to be
\* told of it by another session, unless the instance was deleted or forgotten
\* during the update: update_attribute_values marks whom it reflects to, and
\* queues its own discoveries first.
THEOREM ReflectionsAreKnown == Spec => []ReflectsKnown
BY ObjectsInvariant, KnownReflects, PTL
=============================================================================
