---- MODULE FederationRegistry ----
(***************************************************************************)
(* Creating, destroying, joining and resigning federations                 *)
(* (crates/hla-rti/src/dispatch/federation_mgmt.rs).  The registry maps    *)
(* names to federations that are shared by reference: a federation that    *)
(* was destroyed lives on while a handler or a membership refers to it.    *)
(* create and destroy run under the registry's write lock; join takes      *)
(* three locks one after the other, and one action stands for each.        *)
(***************************************************************************)
EXTENDS Integers, FiniteSets

CONSTANTS Sessions, Names,
          Requested,     \* federate names that joins may ask for
          MaxCreated,    \* federations ever created
          MaxJoins,      \* handles drawn in each of them
          None

\* A federate's name is a number.  The name made up for handle h,
\* format!("federate-{h:08X}"), is h; the numbers above MaxJoins are names no
\* handle gives.
ASSUME RegistryAssumption ==
    /\ IsFiniteSet(Sessions) /\ Requested \subseteq Nat
    /\ MaxCreated \in Nat /\ MaxJoins \in Nat
    /\ None \notin Nat \cup (Nat \X Nat) \cup (Nat \X (Nat \X Nat))

Federations == 1 .. MaxCreated

VARIABLES
    federations,       \* RtiNode.federations: name |-> federation
    created,           \* federations created so far
    federates,         \* the <<handle, name>> pairs of each federation
    next_federate_id,  \* handles drawn so far in each federation
    pc,                \* what the handler of each session does next
    federation,        \* the join's Arc<Federation>
    requested,         \* the name it asks for, None for a made-up one
    federate,          \* its <<handle, name>>
    membership,        \* ctx.membership: <<federation, federate>>
    overtaken,         \* federates entered after another join had overtaken
                       \* theirs, as <<federation, handle>>
    bereft             \* sessions whose federation was destroyed as they joined

\* No guard reads these two.
historyVars == <<overtaken, bereft>>

joinVars == <<pc, federation, requested, federate>>
vars == <<federations, created, federates, next_federate_id, joinVars,
          membership, historyVars>>

Goto(s, l) == pc' = [pc EXCEPT ![s] = l]

\* join returns and its locals are gone.
Return(s) ==
    /\ Goto(s, "idle")
    /\ federation' = [federation EXCEPT ![s] = None]
    /\ requested' = [requested EXCEPT ![s] = None]
    /\ federate' = [federate EXCEPT ![s] = None]

----------------------------------------------------------------------------

\* create_federation_inner, with modules that merge.
Create(s, n) ==
    /\ pc[s] = "idle"
    /\ federations[n] = None
    /\ created < MaxCreated
    /\ created' = created + 1
    /\ federations' = [federations EXCEPT ![n] = created + 1]
    /\ UNCHANGED <<federates, next_federate_id, joinVars, membership,
                   historyVars>>

\* Mutation of MayDestroy: joined federates do not matter.
MayDestroyAny(n) == federations[n] # None

MayDestroy(n) == federations[n] # None /\ federates[federations[n]] = {}

Destroy(s, n) ==
    /\ pc[s] = "idle"
    /\ MayDestroy(n)
    /\ federations' = [federations EXCEPT ![n] = None]
    /\ bereft' = bereft \cup
            {u \in Sessions : pc[u] # "idle" /\ federation[u] = federations[n]}
    /\ UNCHANGED <<created, federates, next_federate_id, joinVars, membership,
                   overtaken>>

\* join: look the federation up ...
JoinLookup(s, n, r) ==
    /\ pc[s] = "idle"
    /\ membership[s] = None
    /\ federations[n] # None
    /\ next_federate_id[federations[n]] < MaxJoins
    /\ federation' = [federation EXCEPT ![s] = federations[n]]
    /\ requested' = [requested EXCEPT ![s] = r]
    /\ Goto(s, "name")
    /\ bereft' = bereft \ {s}
    /\ UNCHANGED <<federations, created, federates, next_federate_id,
                   federate, membership, overtaken>>

\* Mutation of NameInUse: no name is refused.
NameNeverInUse(f, n) == FALSE

NameInUse(f, n) == \E x \in federates[f] : x[2] = n

DrawHandle(f) ==
    next_federate_id' = [next_federate_id EXCEPT ![f] = @ + 1]

FederateName(s, h) == IF requested[s] = None THEN h ELSE requested[s]

\* ... draw a handle; look for the name asked for, under the read lock ...
JoinName(s) ==
    LET f == federation[s]
        h == next_federate_id[f] + 1
    IN  /\ pc[s] = "name"
        /\ h <= MaxJoins
        /\ DrawHandle(f)
        /\ IF requested[s] # None /\ NameInUse(f, requested[s])
           THEN Return(s)
           ELSE /\ federate' = [federate EXCEPT ![s] = <<h, FederateName(s, h)>>]
                /\ Goto(s, "insert")
                /\ UNCHANGED <<federation, requested>>
        /\ UNCHANGED <<federations, created, federates, membership, historyVars>>

\* ... and enter the federate, under the write lock.
JoinInsert(s) ==
    LET f == federation[s]
    IN  /\ pc[s] = "insert"
        /\ federates' = [federates EXCEPT ![f] = @ \cup {federate[s]}]
        /\ membership' = [membership EXCEPT ![s] = <<f, federate[s]>>]
        /\ Return(s)
        /\ overtaken' = overtaken \cup
                {<<f, federate[u][1]>> :
                    u \in {v \in Sessions \ {s} :
                                pc[v] = "insert" /\ federation[v] = f}}
        /\ UNCHANGED <<federations, created, next_federate_id, bereft>>

Resign(s) ==
    /\ pc[s] = "idle"
    /\ membership[s] # None
    /\ LET m == membership[s]
       IN  federates' = [federates EXCEPT ![m[1]] = @ \ {m[2]}]
    /\ membership' = [membership EXCEPT ![s] = None]
    /\ UNCHANGED <<federations, created, next_federate_id, joinVars,
                   historyVars>>

----------------------------------------------------------------------------

Init ==
    /\ federations = [n \in Names |-> None]
    /\ created = 0
    /\ federates = [f \in Federations |-> {}]
    /\ next_federate_id = [f \in Federations |-> 0]
    /\ pc = [s \in Sessions |-> "idle"]
    /\ federation = [s \in Sessions |-> None]
    /\ requested = [s \in Sessions |-> None]
    /\ federate = [s \in Sessions |-> None]
    /\ membership = [s \in Sessions |-> None]
    /\ overtaken = {}
    /\ bereft = {}

Next ==
    \E s \in Sessions :
        \/ \E n \in Names :
            \/ Create(s, n)
            \/ Destroy(s, n)
            \/ \E r \in Requested \cup {None} : JoinLookup(s, n, r)
        \/ JoinName(s)
        \/ JoinInsert(s)
        \/ Resign(s)

Spec == Init /\ [][Next]_vars

----------------------------------------------------------------------------
(* Properties.                                                             *)

FederateNames == Requested \cup 1 .. MaxJoins
Federate == (1 .. MaxJoins) \X FederateNames

\* Every variable keeps its type.
TypeOK ==
    /\ federations \in [Names -> Federations \cup {None}]
    /\ created \in 0 .. MaxCreated
    /\ federates \in [Federations -> SUBSET Federate]
    /\ next_federate_id \in [Federations -> 0 .. MaxJoins]
    /\ pc \in [Sessions -> {"idle", "name", "insert"}]
    /\ federation \in [Sessions -> Federations \cup {None}]
    /\ requested \in [Sessions -> Requested \cup {None}]
    /\ federate \in [Sessions -> Federate \cup {None}]
    /\ membership \in [Sessions -> (Federations \X Federate) \cup {None}]
    /\ overtaken \in SUBSET (Federations \X (1 .. MaxJoins))
    /\ bereft \in SUBSET Sessions

\* The federates of a federation are exactly those the sessions hold a
\* membership of, one session each, and no two of them, nor of those about to
\* be entered, share a handle: also when joins run side by side.
MembershipsMatch ==
    /\ \A f \in Federations, x \in Federate :
        x \in federates[f] <=>
            \E s \in Sessions : membership[s] = <<f, x>>
    /\ \A f \in Federations : \A x, y \in federates[f] :
        x[1] = y[1] => x = y
    /\ \A s, u \in Sessions :
        /\ membership[s] # None /\ membership[s] = membership[u] => s = u
        /\ pc[s] = "insert" =>
            \A x \in federates[federation[s]] : x[1] # federate[s][1]

\* Saving tells the federates of a federation apart by name.  join keeps names
\* apart ("`FederateNameAlreadyInUse` on conflict") but for two cases: one of
\* the two was overtaken between the check of its name and its entry, or the
\* name was made up for the later one.
ClashesExplained ==
    \A f \in Federations : \A x, y \in federates[f] :
        x[2] = y[2] /\ x[1] < y[1] =>
            \/ <<f, x[1]>> \in overtaken \/ <<f, y[1]>> \in overtaken
            \/ y[2] = y[1]

\* A federation with a federate is in the registry ("Destroy blocked while a
\* federate is joined"), but for federates whose join was under way when the
\* federation, still empty, was destroyed.
OutsidersExplained ==
    \A s \in Sessions : membership[s] # None =>
        \/ \E n \in Names : federations[n] = membership[s][1]
        \/ s \in bereft

\* Members and federations belong together: memberships match the federates of
\* a federation, and the federation is in the registry but for that race.
MembershipsExact == MembershipsMatch /\ OutsidersExplained
=============================================================================
