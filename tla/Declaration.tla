--------------------------- MODULE Declaration ---------------------------
(***************************************************************************)
(* Declaration management (dispatch/declaration.rs) of one federation:     *)
(* publication and subscription of object classes and interactions, the    *)
(* subscription matrix (struct SubscriptionMatrix of lib.rs) kept beside    *)
(* the federates' own records, and the advisories that tell publishers     *)
(* whether anybody subscribes.                                             *)
(*                                                                         *)
(* A topic is an object class or an interaction class.  The two services   *)
(* that change what is subscribed take several locks one after the other:  *)
(* they ask the matrix whether the topic has a subscriber, change the      *)
(* federate's record and the matrix, ask the matrix again, pick the        *)
(* publishers to tell, and send to them after the call has returned, one   *)
(* at a time.  Sessions interleave between these steps.                    *)
(***************************************************************************)
EXTENDS Naturals, FiniteSets, FiniteSetsExt, Functions

CONSTANTS
    Federates,     \* handles of the federates that have joined
    Classes,       \* object classes of the FOM
    Attributes,    \* attributes of an object class
    AttrSets,      \* the sets of attributes that calls name
    Interactions,  \* interaction classes of the FOM
    MaxRequests,   \* bound on the calls made
    None

Topics == Classes \cup Interactions

ASSUME SetsAssumption ==
    /\ IsFiniteSet(Attributes) /\ AttrSets \subseteq SUBSET Attributes
    /\ None \notin Topics /\ \A attrs \in SUBSET Attributes : attrs # None

VARIABLES
    members,             \* keys of Federation.federates
    published,           \* published_attrs: class -> attributes, or None
    subscribed,          \* subscribed_attrs: class -> attributes, or None
    published_inter,     \* published_interactions
    subscribed_inter,    \* subscribed_interactions
    switches,            \* [object_class, interaction] relevance advisories
    by_attribute,        \* SubscriptionMatrix.by_attribute
    class_subscribers,   \* class -> (federate -> attributes subscribed)
    by_interaction,      \* SubscriptionMatrix.by_interaction
    pc,                  \* where the handler of a session is
    call,                \* the call a handler serves, and what it has read
    out,                 \* publishers a returned handler still has to tell
    requests,            \* calls made so far
    heard,               \* the last advisory a federate got on a topic
    excused,             \* <<p, t>>: p was given no reason to know t's state
    dropped              \* <<h, c>>: another federate dropped h's class c

recordVars == <<members, published, subscribed, published_inter,
                subscribed_inter, switches>>
matrixVars == <<by_attribute, class_subscribers, by_interaction>>
callVars == <<pc, call, out, requests>>
historyVars == <<heard, excused, dropped>>
vars == <<recordVars, matrixVars, callVars, historyVars>>

NoCall == [op |-> "none", topic |-> None, attrs |-> {}, was |-> FALSE,
           overlapped |-> FALSE]

SwitchNames == {"object_class", "interaction"}
Switches == [SwitchNames -> BOOLEAN]

DeclInit ==
    /\ members = Federates
    /\ published = [h \in Federates |-> [c \in Classes |-> None]]
    /\ subscribed = [h \in Federates |-> [c \in Classes |-> None]]
    /\ published_inter = [h \in Federates |-> {}]
    /\ subscribed_inter = [h \in Federates |-> {}]
    /\ switches = [h \in Federates |-> [s \in SwitchNames |-> TRUE]]
    /\ by_attribute = [ca \in Classes \X Attributes |-> {}]
    /\ class_subscribers = [c \in Classes |-> <<>>]
    /\ by_interaction = [i \in Interactions |-> {}]
    /\ pc = [h \in Federates |-> "idle"]
    /\ call = [h \in Federates |-> NoCall]
    /\ out = [h \in Federates |-> {}]
    /\ requests = 0
    /\ heard = [h \in Federates |-> [t \in Topics |-> "nothing"]]
    /\ excused = {}
    /\ dropped = {}

-----------------------------------------------------------------------------
(* The subscription matrix.                                                *)

Matrix == [attr |-> by_attribute, count |-> class_subscribers]

\* A map without the key k, and with k mapped to v.
Without(f, k) == Restrict(f, DOMAIN f \ {k})
With(f, k, v) == [x \in DOMAIN f \cup {k} |-> IF x = k THEN v ELSE f[x]]

\* SubscriptionMatrix::subscribe_attribute, for one attribute after the other:
\* each that the federate is new to adds one to its count for the class.
SubscribeAll(m, c, attrs, h) ==
    LET new == {a \in attrs : h \notin m.attr[c, a]}
        old == IF h \in DOMAIN m.count[c] THEN m.count[c][h] ELSE 0
    IN  [attr |-> [ca \in DOMAIN m.attr |->
                     IF ca[1] = c /\ ca[2] \in new THEN m.attr[ca] \cup {h} ELSE m.attr[ca]],
         count |-> IF new = {} THEN m.count
                   ELSE [m.count EXCEPT ![c] = With(@, h, old + Cardinality(new))]]

\* SubscriptionMatrix::unsubscribe_attribute, likewise: only for an attribute it
\* was subscribed to is the federate counted out; a count of zero goes.
UnsubscribeAll(m, c, attrs, h) ==
    LET gone == {a \in attrs : h \in m.attr[c, a]}
    IN  [attr |-> [ca \in DOMAIN m.attr |->
                     IF ca[1] = c /\ ca[2] \in gone THEN m.attr[ca] \ {h} ELSE m.attr[ca]],
         count |-> [m.count EXCEPT ![c] =
                      IF gone = {} \/ h \notin DOMAIN @ THEN @
                      ELSE IF @[h] <= Cardinality(gone) THEN Without(@, h)
                      ELSE With(@, h, @[h] - Cardinality(gone))]]

\* SubscriptionMatrix::remove_class: everybody's subscription to the class.
RemoveClass(m, c) ==
    [attr |-> [ca \in DOMAIN m.attr |-> IF ca[1] = c THEN {} ELSE m.attr[ca]],
     count |-> [m.count EXCEPT ![c] = <<>>]]

\* class_has_subscribers and interaction_has_subscribers.
HasSubscribers(t) ==
    IF t \in Classes THEN DOMAIN class_subscribers[t] # {}
                     ELSE by_interaction[t] # {}

\* What h is subscribed to according to the matrix.
Row(h, c) == {a \in Attributes : h \in by_attribute[c, a]}

InMatrix(h, t) == IF t \in Classes THEN Row(h, t) # {}
                                   ELSE h \in by_interaction[t]

-----------------------------------------------------------------------------
Idle(h) == /\ h \in members
           /\ pc[h] = "idle"

Ask(h) == /\ Idle(h)
          /\ requests < MaxRequests
          /\ requests' = requests + 1

\* The sessions that are changing who subscribes to t, or telling of it.
Busy(t) == {h \in Federates : call[h].topic = t}

Publishes(p, t) == IF t \in Classes THEN published[p][t] # None
                                    ELSE t \in published_inter[p]

SwitchOn(p, t) == IF t \in Classes THEN switches[p]["object_class"]
                                   ELSE switches[p]["interaction"]

(* Publication.  One lock, and nobody is told.                             *)

OrEmpty(set) == IF set = None THEN {} ELSE set

PublishObjectClassAttributes(h, c, attrs) ==
    /\ Ask(h)
    /\ published' = [published EXCEPT ![h][c] = OrEmpty(@) \cup attrs]
    /\ UNCHANGED <<members, subscribed, published_inter, subscribed_inter,
                   switches, matrixVars, pc, call, out, historyVars>>

\* Less as it would be if the class went with any of its attributes.
LessWhole(set, attrs) ==
    IF set = None \/ set \cap attrs # {} THEN None ELSE set

\* The class goes with its last attribute.
Less(set, attrs) ==
    IF set = None \/ set \subseteq attrs THEN None ELSE set \ attrs

UnpublishObjectClassAttributes(h, c, attrs) ==
    /\ Ask(h)
    /\ published' = [published EXCEPT ![h][c] = Less(@, attrs)]
    /\ UNCHANGED <<members, subscribed, published_inter, subscribed_inter,
                   switches, matrixVars, pc, call, out, historyVars>>

UnpublishObjectClass(h, c) ==
    /\ Ask(h)
    /\ published' = [published EXCEPT ![h][c] = None]
    /\ UNCHANGED <<members, subscribed, published_inter, subscribed_inter,
                   switches, matrixVars, pc, call, out, historyVars>>

PublishInteractionClass(h, i) ==
    /\ Ask(h)
    /\ published_inter' = [published_inter EXCEPT ![h] = @ \cup {i}]
    /\ UNCHANGED <<members, published, subscribed, subscribed_inter,
                   switches, matrixVars, pc, call, out, historyVars>>

UnpublishInteractionClass(h, i) ==
    /\ Ask(h)
    /\ published_inter' = [published_inter EXCEPT ![h] = @ \ {i}]
    /\ UNCHANGED <<members, published, subscribed, subscribed_inter,
                   switches, matrixVars, pc, call, out, historyVars>>

\* set_switch_bool, for the two switches an advisory looks at.
SetSwitch(h, switch, value) ==
    /\ Ask(h)
    /\ switches' = [switches EXCEPT ![h][switch] = value]
    /\ UNCHANGED <<members, published, subscribed, published_inter,
                   subscribed_inter, matrixVars, pc, call, out, historyVars>>

-----------------------------------------------------------------------------
(* Subscription.                                                           *)

\* subscribe_object_class_attributes_inner, its passive and rate variants,
\* subscribe_interaction_class_inner and their opposites: the first read.
Start(h, op, t, attrs) ==
    /\ Ask(h)
    /\ LET others == Busy(t)
       IN  /\ call' = [g \in Federates |->
                 CASE g = h -> [op |-> op, topic |-> t, attrs |-> attrs,
                                was |-> HasSubscribers(t),
                                overlapped |-> others # {}]
                   [] g \in others -> [call[g] EXCEPT !.overlapped = TRUE]
                   [] OTHER -> call[g]]
           /\ excused' = IF others = {} THEN excused
                                        ELSE excused \cup Federates \X {t}
    /\ pc' = [pc EXCEPT ![h] = "write"]
    /\ UNCHANGED <<recordVars, matrixVars, out, heard, dropped>>

\* The federate's record, then the matrix.  Nobody else reads the record's
\* subscriptions, so the two locks are one step.
WriteClass(h, c) ==
    LET attrs == call[h].attrs
        m == IF call[h].op = "subscribe" THEN SubscribeAll(Matrix, c, attrs, h)
                                         ELSE UnsubscribeAll(Matrix, c, attrs, h)
    IN  /\ subscribed' = [subscribed EXCEPT ![h][c] =
              IF call[h].op = "subscribe" THEN OrEmpty(@) \cup attrs
                                          ELSE Less(@, attrs)]
        /\ by_attribute' = m.attr
        /\ class_subscribers' = m.count
        /\ UNCHANGED <<subscribed_inter, by_interaction>>

WriteInteraction(h, i) ==
    /\ IF call[h].op = "subscribe"
         THEN /\ subscribed_inter' = [subscribed_inter EXCEPT ![h] = @ \cup {i}]
              /\ by_interaction' = [by_interaction EXCEPT ![i] = @ \cup {h}]
         ELSE /\ subscribed_inter' = [subscribed_inter EXCEPT ![h] = @ \ {i}]
              /\ by_interaction' = [by_interaction EXCEPT ![i] = @ \ {h}]
    /\ UNCHANGED <<subscribed, by_attribute, class_subscribers>>

Write(h) ==
    /\ pc[h] = "write"
    /\ LET t == call[h].topic
       IN  IF t \in Classes THEN WriteClass(h, t) ELSE WriteInteraction(h, t)
    /\ pc' = [pc EXCEPT ![h] = "check"]
    /\ UNCHANGED <<members, published, published_inter, switches, call, out,
                   requests, historyVars>>

Done(h) == /\ pc' = [pc EXCEPT ![h] = "idle"]
           /\ call' = [call EXCEPT ![h] = NoCall]

\* An advisory is due as it would be if nobody asked the matrix again.
IsFirstOrLastUnchecked(h) ==
    IF call[h].op = "subscribe" THEN ~call[h].was ELSE call[h].was

\* The first subscriber came, or the last one went.
IsFirstOrLast(h) ==
    IF call[h].op = "subscribe"
      THEN ~call[h].was /\ HasSubscribers(call[h].topic)
      ELSE call[h].was /\ ~HasSubscribers(call[h].topic)

\* The matrix is asked again.
Check(h) ==
    /\ pc[h] = "check"
    /\ IF IsFirstOrLast(h)
         THEN /\ pc' = [pc EXCEPT ![h] = "emit"]
              /\ UNCHANGED call
         ELSE Done(h)
    /\ UNCHANGED <<recordVars, matrixVars, out, requests, historyVars>>

\* emit_start_registration, emit_turn_interactions_on: not to the subscriber;
\* emit_stop_registration, emit_turn_interactions_off: to every publisher.
Targets(h) ==
    {p \in members : /\ SwitchOn(p, call[h].topic)
                     /\ Publishes(p, call[h].topic)
                     /\ call[h].op = "subscribe" => p # h}

\* Who learns nothing from this advisory, however the sessions interleave:
\* a federate that does not publish the topic or wants no advisories, and
\* the one whose own subscription it announces.
NotConcerned(h) ==
    LET t == call[h].topic
    IN  {p \in Federates : \/ p \notin members
                           \/ ~Publishes(p, t)
                           \/ ~SwitchOn(p, t)
                           \/ p = h /\ call[h].op = "subscribe"}

Emit(h) ==
    /\ pc[h] = "emit"
    /\ out' = [out EXCEPT ![h] = Targets(h)]
    /\ excused' = excused \cup NotConcerned(h) \X {call[h].topic}
    /\ IF Targets(h) = {} THEN Done(h)
                          ELSE /\ pc' = [pc EXCEPT ![h] = "send"]
                               /\ UNCHANGED call
    /\ UNCHANGED <<recordVars, matrixVars, requests, heard, dropped>>

\* The session loop sends one callback; fan_out fixed the connections.
Send(h, p) ==
    /\ pc[h] = "send"
    /\ p \in out[h]
    /\ out' = [out EXCEPT ![h] = @ \ {p}]
    /\ heard' = [heard EXCEPT ![p][call[h].topic] =
                   IF call[h].op = "subscribe" THEN "start" ELSE "stop"]
    /\ excused' = IF call[h].overlapped THEN excused
                                        ELSE excused \ {<<p, call[h].topic>>}
    /\ IF out[h] = {p} THEN Done(h) ELSE UNCHANGED <<pc, call>>
    /\ UNCHANGED <<recordVars, matrixVars, requests, dropped>>

\* Req::UnsubscribeObjectClassRequest: remove_class, under both locks.
UnsubscribeObjectClass(h, c) ==
    /\ Ask(h)
    /\ subscribed' = [subscribed EXCEPT ![h][c] = None]
    /\ LET m == RemoveClass(Matrix, c)
       IN  /\ by_attribute' = m.attr
           /\ class_subscribers' = m.count
    /\ call' = [g \in Federates |->
                  IF g \in Busy(c) THEN [call[g] EXCEPT !.overlapped = TRUE]
                                   ELSE call[g]]
    /\ excused' = excused \cup Federates \X {c}
    /\ dropped' = dropped \cup (Federates \ {h}) \X {c}
    /\ UNCHANGED <<members, published, published_inter, subscribed_inter,
                   switches, by_interaction, pc, out, heard>>

\* resign: the record goes, the federate's subscriptions stay in the matrix.
Resign(h) ==
    /\ Idle(h)
    /\ members' = members \ {h}
    /\ excused' = excused \cup Federates \X {t \in Topics : InMatrix(h, t)}
    /\ UNCHANGED <<published, subscribed, published_inter, subscribed_inter,
                   switches, matrixVars, callVars, heard, dropped>>

-----------------------------------------------------------------------------
Publication(h) ==
    \/ \E c \in Classes, attrs \in AttrSets :
          \/ PublishObjectClassAttributes(h, c, attrs)
          \/ UnpublishObjectClassAttributes(h, c, attrs)
    \/ \E c \in Classes : UnpublishObjectClass(h, c)
    \/ \E i \in Interactions : \/ PublishInteractionClass(h, i)
                               \/ UnpublishInteractionClass(h, i)
    \/ \E switch \in SwitchNames, value \in BOOLEAN :
          SetSwitch(h, switch, value)

Subscription(h) ==
    \/ \E op \in {"subscribe", "unsubscribe"} :
          \/ \E c \in Classes, attrs \in AttrSets : Start(h, op, c, attrs)
          \/ \E i \in Interactions : Start(h, op, i, {})
    \/ Write(h)
    \/ Check(h)
    \/ Emit(h)
    \/ \E p \in Federates : Send(h, p)
    \/ \E c \in Classes : UnsubscribeObjectClass(h, c)

Next == \E h \in Federates : Publication(h) \/ Subscription(h) \/ Resign(h)

Spec == DeclInit /\ [][Next]_vars

-----------------------------------------------------------------------------
Calls == [op : {"none", "subscribe", "unsubscribe"}, topic : Topics \cup {None},
          attrs : SUBSET Attributes, was : BOOLEAN, overlapped : BOOLEAN]

Counts == 1 .. Cardinality(Attributes)

\* Type correctness.
TypeOK ==
    /\ members \subseteq Federates
    /\ published \in [Federates -> [Classes -> {None} \cup SUBSET Attributes]]
    /\ subscribed \in [Federates -> [Classes -> {None} \cup SUBSET Attributes]]
    /\ published_inter \in [Federates -> SUBSET Interactions]
    /\ subscribed_inter \in [Federates -> SUBSET Interactions]
    /\ switches \in [Federates -> Switches]
    /\ by_attribute \in [Classes \X Attributes -> SUBSET Federates]
    /\ class_subscribers \in [Classes -> UNION {[S -> Counts] : S \in SUBSET Federates}]
    /\ by_interaction \in [Interactions -> SUBSET Federates]
    /\ pc \in [Federates -> {"idle", "write", "check", "emit", "send"}]
    /\ call \in [Federates -> Calls]
    /\ out \in [Federates -> SUBSET Federates]
    /\ heard \in [Federates -> [Topics -> {"nothing", "start", "stop"}]]
    /\ excused \subseteq Federates \X Topics
    /\ dropped \subseteq Federates \X Classes

\* The reverse index of the matrix says what the matrix says: a federate is
\* counted for a class once for each attribute it is subscribed to, and not
\* at all when there is none, whatever calls came in whatever order, those
\* that name attributes twice or drop the class for everybody included
\* (subscribe_attribute, unsubscribe_attribute and remove_class of lib.rs).
CountsMatch ==
    \A c \in Classes :
       class_subscribers[c] = [h \in {g \in Federates : Row(g, c) # {}} |->
                                 Cardinality(Row(h, c))]

\* Between its calls a member's own record and the matrix agree about what it
\* subscribes to, unless another federate's UnsubscribeObjectClass took the
\* class out of the matrix for everybody; and even then the matrix names
\* nothing the federate did not ask for.
RecordsMatchMatrix ==
    \A h \in members : pc[h] = "idle" =>
       /\ \A c \in Classes :
             /\ Row(h, c) \subseteq OrEmpty(subscribed[h][c])
             /\ <<h, c>> \notin dropped => Row(h, c) = OrEmpty(subscribed[h][c])
       /\ \A i \in Interactions :
             i \in subscribed_inter[h] <=> h \in by_interaction[i]

\* The three records of who subscribes to what, written under two locks, agree:
\* the matrix, its reverse index, and the federates' own.
MatrixExact == CountsMatch /\ RecordsMatchMatrix

SomeMemberSubscribes(t) == \E h \in members : InMatrix(h, t)

\* When no call is changing a topic, the last advisory its publisher heard
\* is true: "start" if a member subscribes, else "stop" or nothing at all.
\* The exceptions are those of history variable excused, and no other: two
\* calls on the topic overlapped, UnsubscribeObjectClass dropped everybody, a
\* subscriber resigned, or the publisher was not to be told when the last
\* change came (it did not publish yet, its switch was off, or it was itself
\* the first subscriber).
AdvisoriesRight ==
    \A p \in members, t \in Topics :
       (Busy(t) = {} /\ Publishes(p, t) /\ SwitchOn(p, t) /\ <<p, t>> \notin excused)
         => (heard[p][t] = "start" <=> SomeMemberSubscribes(t))
=============================================================================
