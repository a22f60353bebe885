----------------------------- MODULE Directed -----------------------------
(***************************************************************************)
(* Directed interactions (crates/hla-rti/src/dispatch/directed.rs): an     *)
(* interaction sent to an object instance goes to the federate that        *)
(* registered it and to those that subscribe to that interaction class for *)
(* the instance's class.  Declarations are kept with each federate and not *)
(* in the subscription matrix.                                             *)
(*                                                                         *)
(* send_directed_interaction takes three locks one after the other, and    *)
(* one action stands for each; the other handlers take one.                *)
(***************************************************************************)
EXTENDS Naturals, FiniteSets

CONSTANTS Federates,
          Classes,        \* object classes
          Interactions,   \* interaction classes
          IxSets,         \* sets of them that a declaration names
          MaxRequests,    \* bound on what the federates do
          None

VARIABLES
    members,     \* Federation.federates has an entry
    connected,   \* RtiNode.connections has an entry for its session
    registrar,   \* of the one instance of each class; None: there is none
    published_directed, subscribed_directed,  \* ..._interactions
    pc,          \* where each federate's send is
    call,        \* the instance's class and the interaction class it sends
    targets,     \* whom it has collected; at the end, whom it queued for
    requests,    \* what they have done so far
    ever, always \* federates entitled at some and at every moment of the
                 \* call (history)

declVars == <<published_directed, subscribed_directed>>
fedVars == <<members, connected, registrar>>
callVars == <<pc, call, targets>>
vars == <<fedVars, declVars, callVars, requests, ever, always>>

NoCall == [class |-> None, interaction |-> None]

Init ==
    /\ members = Federates /\ connected = Federates
    /\ registrar \in [Classes -> Federates \cup {None}]
    /\ published_directed = [f \in Federates |-> [c \in Classes |-> {}]]
    /\ subscribed_directed = published_directed
    /\ pc = [f \in Federates |-> "idle"]
    /\ call = [f \in Federates |-> NoCall]
    /\ targets = [f \in Federates |-> {}]
    /\ requests = 0
    /\ ever = targets /\ always = targets

-----------------------------------------------------------------------------
\* A federate's session loop is free to take a request.
Ready(f) == f \in members \cap connected /\ pc[f] = "idle"

Publish(f, c, is) ==
    /\ Ready(f)
    /\ published_directed' = [published_directed EXCEPT ![f][c] = @ \cup is]
    /\ UNCHANGED <<fedVars, subscribed_directed, callVars>>

\* Without a set of interaction classes all go; an empty entry is removed.
Unpublish(f, c, is) ==
    /\ Ready(f)
    /\ published_directed' = [published_directed EXCEPT ![f][c] = IF is = None THEN {} ELSE @ \ is]
    /\ UNCHANGED <<fedVars, subscribed_directed, callVars>>

Subscribe(f, c, is) ==
    /\ Ready(f)
    /\ subscribed_directed' = [subscribed_directed EXCEPT ![f][c] = @ \cup is]
    /\ UNCHANGED <<fedVars, published_directed, callVars>>

Unsubscribe(f, c, is) ==
    /\ Ready(f)
    /\ subscribed_directed' = [subscribed_directed EXCEPT ![f][c] = IF is = None THEN {} ELSE @ \ is]
    /\ UNCHANGED <<fedVars, published_directed, callVars>>

\* delete_object_instance
Delete(f, c) ==
    /\ Ready(f)
    /\ registrar[c] = f
    /\ registrar' = [registrar EXCEPT ![c] = None]
    /\ UNCHANGED <<members, connected, declVars, callVars>>

\* resign, or the end of a suspension, drops the federate's entry and its
\* declarations with it; instances it has registered stay.
Resign(f) ==
    /\ f \in members /\ pc[f] = "idle"
    /\ members' = members \ {f}
    /\ published_directed' = [published_directed EXCEPT ![f] = [c \in Classes |-> {}]]
    /\ subscribed_directed' = [subscribed_directed EXCEPT ![f] = [c \in Classes |-> {}]]
    /\ UNCHANGED <<connected, registrar, callVars>>

\* The connection is lost and the session suspended, membership and all.
Disconnect(f) ==
    /\ Ready(f)
    /\ connected' = connected \ {f}
    /\ UNCHANGED <<members, registrar, declVars, callVars>>

Resume(f) ==
    /\ f \in members \ connected
    /\ connected' = connected \cup {f}
    /\ UNCHANGED <<members, registrar, declVars, callVars>>

-----------------------------------------------------------------------------
(* send_directed_interaction                                               *)

\* The instance is looked up; whether the sender publishes is not.
SendLooksUp(f, c, i) ==
    /\ Ready(f)
    /\ registrar[c] # None
    /\ call' = [call EXCEPT ![f] = [class |-> c, interaction |-> i]]
    /\ targets' = [targets EXCEPT ![f] = {registrar[c]} \ {f}]
    /\ pc' = [pc EXCEPT ![f] = "subscribers"]
    /\ UNCHANGED <<fedVars, declVars>>

Subscribers(c, i) == {f \in members : i \in subscribed_directed[f][c]}

\* SendCollects as it would be if the set were built afresh.
SendCollectsAfresh(f) ==
    /\ pc[f] = "subscribers"
    /\ targets' = [targets EXCEPT ![f] =
                     Subscribers(call[f].class, call[f].interaction) \ {f}]
    /\ pc' = [pc EXCEPT ![f] = "route"]
    /\ UNCHANGED <<fedVars, declVars, call>>

SendCollects(f) ==
    /\ pc[f] = "subscribers"
    /\ targets' = [targets EXCEPT ![f] =
                     @ \cup (Subscribers(call[f].class, call[f].interaction) \ {f})]
    /\ pc' = [pc EXCEPT ![f] = "route"]
    /\ UNCHANGED <<fedVars, declVars, call>>

\* live_connections
Routed(f) == targets[f] \cap members \cap connected

SendRoutes(f) ==
    /\ pc[f] = "route"
    /\ targets' = [targets EXCEPT ![f] = Routed(f)]
    /\ pc' = [pc EXCEPT ![f] = "sent"]
    /\ UNCHANGED <<fedVars, declVars, call>>

\* The callbacks are sent and the handler is done.
SendEnds(f) ==
    /\ pc[f] = "sent"
    /\ pc' = [pc EXCEPT ![f] = "idle"]
    /\ call' = [call EXCEPT ![f] = NoCall]
    /\ targets' = [targets EXCEPT ![f] = {}]
    /\ UNCHANGED <<fedVars, declVars>>

-----------------------------------------------------------------------------
\* Whom the call of f is for, by the state of this moment.
Entitled(f) ==
    IF pc[f] = "idle" THEN {}
    ELSE LET c == call[f].class
             i == call[f].interaction
         IN  (({registrar[c]} \cap members) \cup {g \in members : i \in subscribed_directed[g][c]}) \ {f}

\* The history of the calls under way; it ends when the callbacks are queued.
Observe ==
    /\ ever' = [f \in Federates |->
         CASE pc'[f] = "idle" -> {}
           [] pc[f] = "sent" -> ever[f]
           [] OTHER -> ever[f] \cup Entitled(f)']
    /\ always' = [f \in Federates |->
         CASE pc'[f] = "idle" -> {}
           [] pc[f] = "idle" -> Entitled(f)' \cap connected'
           [] pc[f] = "sent" -> always[f]
           [] OTHER -> always[f] \cap Entitled(f)' \cap connected']

Declare(f, c) ==
    \/ \E is \in IxSets : \/ Publish(f, c, is) \/ Unpublish(f, c, is)
                           \/ Subscribe(f, c, is) \/ Unsubscribe(f, c, is)
    \/ Unpublish(f, c, None)
    \/ Unsubscribe(f, c, None)

Request(f) ==
    /\ requests < MaxRequests
    /\ requests' = requests + 1
    /\ \/ \E c \in Classes : Declare(f, c) \/ Delete(f, c)
       \/ \E c \in Classes, i \in Interactions : SendLooksUp(f, c, i)
       \/ Resign(f) \/ Disconnect(f) \/ Resume(f)

Send(f) == SendCollects(f) \/ SendRoutes(f) \/ SendEnds(f)

Next ==
    /\ \E f \in Federates : Request(f) \/ (Send(f) /\ UNCHANGED requests)
    /\ Observe

Spec == Init /\ [][Next]_vars

-----------------------------------------------------------------------------
\* A directed interaction is queued for a federate only if at some moment of
\* the call that federate had registered the instance or subscribed to it,
\* whatever is unsubscribed, deleted or resigned between the three locks.
DirectedOnlyToEntitled ==
    \A f \in Federates : pc[f] = "sent" => targets[f] \subseteq ever[f]

\* A federate that is entitled to it and connected throughout the call gets
\* it: no step between the locks makes the sender lose a recipient.
DirectedReachesEntitled ==
    \A f \in Federates : pc[f] = "sent" => always[f] \subseteq targets[f]

\* A directed interaction goes to whoever is entitled to it throughout the call
\* and to nobody who never was.
DirectedExact == DirectedOnlyToEntitled /\ DirectedReachesEntitled
=============================================================================
