---- MODULE RegistryProofs ----
(***************************************************************************)
(* Proofs about FederationRegistry, for any number of sessions, federation *)
(* names, federations and joins.                                           *)
(***************************************************************************)
EXTENDS FederationRegistry, TLAPS

\* A join under way has its federation and, once it has checked the name, its
\* federate; only a session that is not joining is a member.
Locals ==
    \A s \in Sessions :
        /\ pc[s] # "idle" => federation[s] # None
        /\ pc[s] = "insert" => federate[s] # None
        /\ membership[s] # None => pc[s] = "idle"

\* The handles of federates, entered or about to be, come from the counter of
\* their federation, and no two joins under way have the same one.
HandlesDrawn ==
    /\ \A f \in Federations : \A x \in federates[f] : x[1] <= next_federate_id[f]
    /\ \A s \in Sessions : pc[s] = "insert" =>
        federate[s][1] <= next_federate_id[federation[s]]
    /\ \A s, u \in Sessions :
        /\ pc[s] = "insert" /\ pc[u] = "insert"
        /\ federation[s] = federation[u]
        /\ federate[s][1] = federate[u][1]
        => s = u

\* A federate with a higher handle than one about to be entered has overtaken
\* that one; so has one with a lower handle and the same name, unless the name
\* is made up.
PendingExplained ==
    \A s \in Sessions : pc[s] = "insert" =>
        \A x \in federates[federation[s]] :
            /\ x[1] > federate[s][1] =>
                <<federation[s], federate[s][1]>> \in overtaken
            /\ x[1] < federate[s][1] /\ x[2] = federate[s][2] =>
                \/ <<federation[s], federate[s][1]>> \in overtaken
                \/ federate[s][2] = federate[s][1]

\* A join that is under way has its federation in the registry, unless that one
\* was destroyed in the meantime.
JoinsExplained ==
    \A s \in Sessions : pc[s] # "idle" =>
        \/ \E n \in Names : federations[n] = federation[s]
        \/ s \in bereft

Inv == TypeOK /\ Locals /\ HandlesDrawn /\ MembershipsMatch

----------------------------------------------------------------------------
(* Types, handles and memberships.                                         *)

\* None is neither a federation nor a federate.
LEMMA NoneApart == /\ None \notin Federations /\ None \notin Federate
                   /\ None \notin Federations \X Federate
                   /\ \A s \in Sessions : TypeOK /\ federation[s] # None => federation[s] \in Federations
                   /\ \A s \in Sessions : TypeOK /\ federate[s] # None => federate[s] \in Federate
<1>1. Federations \subseteq Nat /\ 1 .. MaxJoins \subseteq Nat
    BY RegistryAssumption DEF Federations
<1>2. FederateNames \subseteq Nat
    BY <1>1, RegistryAssumption, Zenon DEF FederateNames
<1>3. Federate \subseteq Nat \X Nat
    BY <1>1, <1>2, Zenon DEF Federate
<1>4. None \notin Federations /\ None \notin Federate /\ None \notin Federations \X Federate
    BY <1>1, <1>3, RegistryAssumption, Zenon
<1> QED BY <1>4, Zenon DEF TypeOK

\* The handle a join draws, and the federate it makes of it.
LEMMA DrawnFederate ==
    ASSUME TypeOK, NEW s \in Sessions, NEW h \in 1 .. MaxJoins
    PROVE  <<h, FederateName(s, h)>> \in Federate
  BY Zenon DEF TypeOK, FederateName, Federate, FederateNames

\* join returns.
LEMMA ReturnType ==
    ASSUME TypeOK, NEW s \in Sessions, Return(s)
    PROVE  /\ pc' \in [Sessions -> {"idle", "name", "insert"}]
           /\ federation' \in [Sessions -> Federations \cup {None}]
           /\ requested' \in [Sessions -> Requested \cup {None}]
           /\ federate' \in [Sessions -> Federate \cup {None}]
           /\ \A u \in Sessions :
                /\ pc'[u] = IF u = s THEN "idle" ELSE pc[u]
                /\ u # s => federation'[u] = federation[u] /\ federate'[u] = federate[u]
  BY Zenon DEF TypeOK, Return, Goto

\* A step that touches no federate, no membership and no join keeps the rest.
LEMMA MembersFrame ==
    ASSUME Inv,
           UNCHANGED <<federates, next_federate_id, pc, federation, federate, membership>>
    PROVE  Locals' /\ HandlesDrawn' /\ MembershipsMatch'
<1>1. Locals'
    BY Zenon DEF Inv, Locals
<1>2. HandlesDrawn'
    BY Zenon DEF Inv, HandlesDrawn
<1>3. MembershipsMatch'
    BY DEF Inv, MembershipsMatch
<1> QED BY <1>1, <1>2, <1>3, Zenon

\* A step that touches no federate and no membership keeps them matched, if the
\* joins under way have handles of their own.
LEMMA MatchFrame ==
    ASSUME MembershipsMatch, federates' = federates, membership' = membership,
           \A u \in Sessions : pc'[u] = "insert" =>
              \A x \in federates[federation'[u]] : x[1] # federate'[u][1]
    PROVE  MembershipsMatch'
<1>1. \A f \in Federations, x \in Federate :
        x \in federates'[f] <=> \E s \in Sessions : membership'[s] = <<f, x>>
    BY DEF MembershipsMatch
<1>2. \A f \in Federations : \A x, y \in federates'[f] : x[1] = y[1] => x = y
    BY Zenon DEF MembershipsMatch
<1>3. \A s, u \in Sessions : membership'[s] # None /\ membership'[s] = membership'[u] => s = u
    BY Zenon DEF MembershipsMatch
<1>4. \A s \in Sessions : pc'[s] = "insert" =>
        \A x \in federates'[federation'[s]] : x[1] # federate'[s][1]
    OBVIOUS
<1> QED BY <1>1, <1>2, <1>3, <1>4, Zenon DEF MembershipsMatch

\* Create and destroy touch no federate and no join.
LEMMA CreateStep ==
    ASSUME Inv, NEW s \in Sessions, NEW n \in Names, Create(s, n)
    PROVE  Inv'
<1>1. TypeOK'
  <2>1. created' \in 0 .. MaxCreated /\ created + 1 \in Federations
      BY RegistryAssumption DEF Inv, TypeOK, Create, Federations
  <2>2. federations' \in [Names -> Federations \cup {None}]
      BY <2>1, Zenon DEF Inv, TypeOK, Create
  <2> QED BY <2>1, <2>2, Zenon DEF Inv, TypeOK, Create, joinVars, historyVars
<1>2. Locals' /\ HandlesDrawn' /\ MembershipsMatch'
    BY MembersFrame, Zenon DEF Create, joinVars
<1> QED BY <1>1, <1>2, Zenon DEF Inv

\* Destroying a federation takes its name out of the registry, no more.
LEMMA DestroyStep ==
    ASSUME Inv, NEW s \in Sessions, NEW n \in Names, Destroy(s, n)
    PROVE  Inv'
<1>1. TypeOK'
  <2>1. federations' \in [Names -> Federations \cup {None}]
      BY Zenon DEF Inv, TypeOK, Destroy
  <2>2. bereft' \in SUBSET Sessions
      BY Zenon DEF Inv, TypeOK, Destroy
  <2> QED BY <2>1, <2>2, Zenon DEF Inv, TypeOK, Destroy, joinVars
<1>2. Locals' /\ HandlesDrawn' /\ MembershipsMatch'
    BY MembersFrame, Zenon DEF Destroy, joinVars
<1> QED BY <1>1, <1>2, Zenon DEF Inv

\* A join that has looked its federation up has no handle yet.
LEMMA JoinLookupStep ==
    ASSUME Inv, NEW s \in Sessions, NEW n \in Names, NEW r \in Requested \cup {None},
           JoinLookup(s, n, r)
    PROVE  Inv'
<1>0. /\ \A u \in Sessions : pc'[u] = IF u = s THEN "name" ELSE pc[u]
      /\ \A u \in Sessions : federation'[u] = IF u = s THEN federations[n] ELSE federation[u]
    BY Zenon DEF Inv, TypeOK, JoinLookup, Goto
<1>1. TypeOK'
  <2>1. /\ pc' \in [Sessions -> {"idle", "name", "insert"}]
        /\ federation' \in [Sessions -> Federations \cup {None}]
        /\ requested' \in [Sessions -> Requested \cup {None}]
      BY Zenon DEF Inv, TypeOK, JoinLookup, Goto
  <2>2. bereft' \in SUBSET Sessions
      BY Zenon DEF Inv, TypeOK, JoinLookup
  <2> QED BY <2>1, <2>2, Zenon DEF Inv, TypeOK, JoinLookup
<1>2. Locals'
    BY <1>0, Zenon DEF Inv, Locals, JoinLookup
<1>3. \A u \in Sessions : pc'[u] = "insert" => u # s /\ pc[u] = "insert"
    BY <1>0, Zenon
<1>4. /\ federates' = federates /\ next_federate_id' = next_federate_id
      /\ federate' = federate /\ membership' = membership
    BY Zenon DEF JoinLookup
<1>5. HandlesDrawn'
    BY <1>0, <1>3, <1>4 DEF Inv, HandlesDrawn
<1>6. MembershipsMatch'
    BY <1>0, <1>3, <1>4 DEF Inv, MembershipsMatch
<1> QED BY <1>1, <1>2, <1>5, <1>6, Zenon DEF Inv

\* A handle is drawn above all those in use, whether the name is refused or not.
LEMMA JoinNameStep ==
    ASSUME Inv, NEW s \in Sessions, JoinName(s)
    PROVE  Inv'
<1> DEFINE f == federation[s]
           h == next_federate_id[f] + 1
<1>0. f \in Federations /\ h \in 1 .. MaxJoins /\ pc[s] = "name"
    BY NoneApart, RegistryAssumption DEF Inv, Locals, TypeOK, JoinName
<1>1. /\ next_federate_id' \in [Federations -> 0 .. MaxJoins]
      /\ \A g \in Federations :
            next_federate_id'[g] = IF g = f THEN h ELSE next_federate_id[g]
    BY <1>0, RegistryAssumption DEF Inv, TypeOK, JoinName, DrawHandle
<1>2. /\ federates' = federates /\ membership' = membership
      /\ UNCHANGED <<federations, created, historyVars>>
    BY Zenon DEF JoinName
<1>3. \/ Return(s)
      \/ /\ federate' = [federate EXCEPT ![s] = <<h, FederateName(s, h)>>]
         /\ Goto(s, "insert")
         /\ UNCHANGED <<federation, requested>>
    BY Zenon DEF JoinName
<1>4. \A u \in Sessions : federation[u] # None => federation[u] \in Federations
    BY NoneApart, Zenon DEF Inv
<1>5. \A u \in Sessions : pc[u] = "insert" =>
        /\ federation[u] \in Federations
        /\ federate[u] \in Federate
        /\ federate[u][1] \in 1 .. MaxJoins
        /\ federate[u][1] <= next_federate_id[federation[u]]
    BY NoneApart, Zenon DEF Inv, Locals, HandlesDrawn, Federate
<1>6. \A g \in Federations : \A x \in federates[g] :
        x[1] \in 1 .. MaxJoins /\ x[1] <= next_federate_id[g]
    BY DEF Inv, TypeOK, HandlesDrawn, Federate
<1>7. \A g \in Federations : /\ next_federate_id[g] \in Nat
                             /\ next_federate_id'[g] \in Nat
                             /\ next_federate_id[g] <= next_federate_id'[g]
    BY <1>0, <1>1, RegistryAssumption DEF Inv, TypeOK
<1> HIDE DEF f, h
<1>8. CASE Return(s)
  <2>1. TypeOK'
      BY <1>1, <1>2, <1>8, ReturnType, Zenon DEF Inv, TypeOK, historyVars
  <2>2. \A u \in Sessions : /\ pc'[u] = "insert" => u # s /\ pc[u] = "insert"
                            /\ pc'[u] # "idle" => u # s /\ pc[u] # "idle"
                            /\ u = s => pc'[u] = "idle"
                            /\ u # s => /\ federation'[u] = federation[u]
                                        /\ federate'[u] = federate[u]
                                        /\ pc'[u] = pc[u]
      BY <1>8, ReturnType, Zenon DEF Inv
  <2>3. Locals'
      BY <1>2, <2>2, Zenon DEF Inv, Locals
  <2>4. HandlesDrawn'
    <3>1. \A g \in Federations : \A x \in federates'[g] : x[1] <= next_federate_id'[g]
        BY <1>2, <1>6, <1>7
    <3>2. \A u \in Sessions : pc'[u] = "insert" =>
            federate'[u][1] <= next_federate_id'[federation'[u]]
        BY <1>5, <1>7, <2>2
    <3>3. \A u, v \in Sessions :
            /\ pc'[u] = "insert" /\ pc'[v] = "insert"
            /\ federation'[u] = federation'[v]
            /\ federate'[u][1] = federate'[v][1]
            => u = v
        BY <2>2 DEF Inv, HandlesDrawn
    <3> QED BY <3>1, <3>2, <3>3, Zenon DEF HandlesDrawn
  <2>5. MembershipsMatch'
    <3>1. \A u \in Sessions : pc'[u] = "insert" =>
              \A x \in federates[federation'[u]] : x[1] # federate'[u][1]
        BY <2>2 DEF Inv, MembershipsMatch
    <3> QED BY <1>2, <3>1, MatchFrame, Zenon DEF Inv
  <2> QED BY <2>1, <2>3, <2>4, <2>5, Zenon DEF Inv
<1>9. CASE /\ federate' = [federate EXCEPT ![s] = <<h, FederateName(s, h)>>]
           /\ Goto(s, "insert")
           /\ UNCHANGED <<federation, requested>>
  <2>0. <<h, FederateName(s, h)>> \in Federate
      BY <1>0, DrawnFederate, Zenon DEF Inv
  <2>1. TypeOK'
    <3>1. /\ pc' \in [Sessions -> {"idle", "name", "insert"}]
          /\ federate' \in [Sessions -> Federate \cup {None}]
        BY <1>9, <2>0, Zenon DEF Inv, TypeOK, Goto
    <3> QED BY <1>1, <1>2, <1>9, <3>1, Zenon DEF Inv, TypeOK, historyVars
  <2>2. \A u \in Sessions : /\ pc'[u] = IF u = s THEN "insert" ELSE pc[u]
                            /\ federate'[u] = IF u = s THEN <<h, FederateName(s, h)>>
                                              ELSE federate[u]
                            /\ federation'[u] = federation[u]
      BY <1>9, Zenon DEF Inv, TypeOK, Goto
  <2>3. Locals'
    <3>1. federate'[s] # None
        BY <2>0, <2>2, NoneApart
    <3> QED BY <1>0, <1>2, <2>2, <3>1, Zenon DEF Inv, Locals
  <2>4. HandlesDrawn'
    <3>1. \A g \in Federations : \A x \in federates'[g] : x[1] <= next_federate_id'[g]
        BY <1>2, <1>6, <1>7
    <3>2. \A u \in Sessions : pc'[u] = "insert" =>
            federate'[u][1] <= next_federate_id'[federation'[u]]
        BY <1>0, <1>1, <1>5, <1>7, <2>2 DEF f
    <3>3. \A u \in Sessions : pc[u] = "insert" /\ federation[u] = f => federate[u][1] # h
        BY <1>0, <1>5, <1>7 DEF h
    <3>4. \A u, v \in Sessions :
            /\ pc'[u] = "insert" /\ pc'[v] = "insert"
            /\ federation'[u] = federation'[v]
            /\ federate'[u][1] = federate'[v][1]
            => u = v
        BY <2>2, <3>3 DEF Inv, HandlesDrawn, f
    <3> QED BY <3>1, <3>2, <3>4, Zenon DEF HandlesDrawn
  <2>5. MembershipsMatch'
    <3>1. \A x \in federates[f] : x[1] # h
        BY <1>0, <1>6, <1>7 DEF h
    <3>2. \A u \in Sessions : pc'[u] = "insert" =>
              \A x \in federates[federation'[u]] : x[1] # federate'[u][1]
        BY <2>2, <3>1 DEF Inv, MembershipsMatch, f
    <3> QED BY <1>2, <3>2, MatchFrame, Zenon DEF Inv
  <2> QED BY <2>1, <2>3, <2>4, <2>5, Zenon DEF Inv
<1> QED BY <1>3, <1>8, <1>9, Zenon

\* What a join that enters its federate does, state by state.
LEMMA InsertEffect ==
    ASSUME Inv, NEW s \in Sessions, JoinInsert(s)
    PROVE  LET f == federation[s]
               z == federate[s]
           IN  /\ f \in Federations /\ z \in Federate
               /\ pc[s] = "insert" /\ membership[s] = None
               /\ \A g \in Federations :
                    federates'[g] = IF g = f THEN federates[f] \cup {z} ELSE federates[g]
               /\ \A u \in Sessions :
                    /\ membership'[u] = IF u = s THEN <<f, z>> ELSE membership[u]
                    /\ pc'[u] = IF u = s THEN "idle" ELSE pc[u]
                    /\ u # s => federation'[u] = federation[u] /\ federate'[u] = federate[u]
               /\ next_federate_id' = next_federate_id
<1>1. pc[s] = "insert" /\ membership[s] = None
    BY Zenon DEF Inv, Locals, JoinInsert
<1>2. federation[s] \in Federations /\ federate[s] \in Federate
    BY <1>1, NoneApart, Zenon DEF Inv, Locals
<1>3. Return(s) /\ next_federate_id' = next_federate_id
    BY Zenon DEF JoinInsert
<1>4. \A g \in Federations : federates'[g] =
        IF g = federation[s] THEN federates[federation[s]] \cup {federate[s]} ELSE federates[g]
    BY <1>2, Zenon DEF JoinInsert, Inv, TypeOK
<1>5. \A u \in Sessions : membership'[u] =
        IF u = s THEN <<federation[s], federate[s]>> ELSE membership[u]
    BY <1>2, Zenon DEF JoinInsert, Inv, TypeOK
<1> QED BY <1>1, <1>2, <1>3, <1>4, <1>5, ReturnType, Zenon DEF Inv

\* Entering a federate and the membership that goes with it is one step.
LEMMA JoinInsertStep ==
    ASSUME Inv, NEW s \in Sessions, JoinInsert(s)
    PROVE  Inv'
<1> DEFINE f == federation[s]
           z == federate[s]
<1>0. /\ f \in Federations /\ z \in Federate
      /\ pc[s] = "insert" /\ membership[s] = None
      /\ \A g \in Federations :
            federates'[g] = IF g = f THEN federates[f] \cup {z} ELSE federates[g]
      /\ \A u \in Sessions :
            /\ membership'[u] = IF u = s THEN <<f, z>> ELSE membership[u]
            /\ pc'[u] = IF u = s THEN "idle" ELSE pc[u]
            /\ u # s => federation'[u] = federation[u] /\ federate'[u] = federate[u]
      /\ next_federate_id' = next_federate_id
    BY InsertEffect, Zenon
<1> HIDE DEF f, z
<1>1. \A u \in Sessions : pc[u] = "insert" =>
        federation[u] \in Federations /\ federate[u] \in Federate
    BY NoneApart, Zenon DEF Inv, Locals
<1>2. TypeOK'
  <2>1. federates' \in [Federations -> SUBSET Federate]
      BY <1>0 DEF JoinInsert, Inv, TypeOK, f, z
  <2>2. membership' \in [Sessions -> (Federations \X Federate) \cup {None}]
      BY <1>0, Zenon DEF JoinInsert, Inv, TypeOK, f, z
  <2>3. overtaken' \in SUBSET (Federations \X (1 .. MaxJoins))
    <3>1. \A u \in Sessions : pc[u] = "insert" => federate[u][1] \in 1 .. MaxJoins
        BY <1>1, Zenon DEF Federate
    <3> QED BY <1>0, <3>1 DEF JoinInsert, Inv, TypeOK, f
  <2>4. Return(s) /\ UNCHANGED <<federations, created, next_federate_id, bereft>>
      BY Zenon DEF JoinInsert
  <2> QED BY <2>1, <2>2, <2>3, <2>4, ReturnType, Zenon DEF Inv, TypeOK
<1>3. Locals'
    BY <1>0, Zenon DEF Inv, Locals
<1>4. HandlesDrawn'
  <2>1. \A g \in Federations : \A x \in federates'[g] : x[1] <= next_federate_id[g]
      BY <1>0 DEF Inv, HandlesDrawn, f, z
  <2>2. \A u \in Sessions : pc'[u] = "insert" =>
            federate'[u][1] <= next_federate_id[federation'[u]]
      BY <1>0, Zenon DEF Inv, HandlesDrawn
  <2>3. \A u, v \in Sessions :
            /\ pc'[u] = "insert" /\ pc'[v] = "insert"
            /\ federation'[u] = federation'[v]
            /\ federate'[u][1] = federate'[v][1]
            => u = v
      BY <1>0 DEF Inv, HandlesDrawn
  <2> QED BY <1>0, <2>1, <2>2, <2>3, Zenon DEF HandlesDrawn
<1>5. MembershipsMatch'
  <2>0. \A x \in federates[f] : x[1] # z[1]
      BY <1>0, Zenon DEF Inv, MembershipsMatch, f, z
  <2>1. \A g \in Federations, x \in Federate :
            x \in federates'[g] <=> \E u \in Sessions : membership'[u] = <<g, x>>
    <3> SUFFICES ASSUME NEW g \in Federations, NEW x \in Federate
                 PROVE  x \in federates'[g] <=> \E u \in Sessions : membership'[u] = <<g, x>>
        OBVIOUS
    <3>1. x \in federates[g] <=> \E u \in Sessions : membership[u] = <<g, x>>
        BY Zenon DEF Inv, MembershipsMatch
    <3>2. \A u \in Sessions : membership[u] = <<g, x>> => u # s
        BY <1>0, NoneApart
    <3>3. <<f, z>> = <<g, x>> <=> f = g /\ z = x
        OBVIOUS
    <3> QED BY <1>0, <3>1, <3>2, <3>3, Zenon
  <2>2. \A g \in Federations : \A x, y \in federates'[g] : x[1] = y[1] => x = y
    <3>1. \A g \in Federations : \A x, y \in federates[g] : x[1] = y[1] => x = y
        BY Zenon DEF Inv, MembershipsMatch
    <3> QED BY <1>0, <2>0, <3>1
  <2>3. \A u, v \in Sessions : membership'[u] # None /\ membership'[u] = membership'[v] => u = v
    <3>1. \A u \in Sessions : membership[u] # <<f, z>>
      <4>1. z \notin federates[f]
          BY <2>0, Zenon
      <4> QED BY <1>0, <4>1 DEF Inv, MembershipsMatch
    <3>2. \A u, v \in Sessions : membership[u] # None /\ membership[u] = membership[v] => u = v
        BY Zenon DEF Inv, MembershipsMatch
    <3> QED BY <1>0, <3>1, <3>2
  <2>4. \A u \in Sessions : pc'[u] = "insert" =>
            \A x \in federates'[federation'[u]] : x[1] # federate'[u][1]
    <3> SUFFICES ASSUME NEW u \in Sessions, pc'[u] = "insert",
                        NEW x \in federates'[federation'[u]]
                 PROVE  x[1] # federate'[u][1]
        OBVIOUS
    <3>1. /\ u # s /\ pc[u] = "insert"
          /\ federation'[u] = federation[u] /\ federate'[u] = federate[u]
        BY <1>0, Zenon
    <3>2. CASE x \in federates[federation[u]]
        BY <3>1, <3>2 DEF Inv, MembershipsMatch
    <3>3. CASE federation[u] = f /\ x = z
        BY <1>0, <3>1, <3>3 DEF Inv, HandlesDrawn, f, z
    <3> QED BY <1>0, <1>1, <3>1, <3>2, <3>3
  <2> QED BY <2>1, <2>2, <2>3, <2>4, Zenon DEF MembershipsMatch
<1> QED BY <1>2, <1>3, <1>4, <1>5, Zenon DEF Inv

\* What resigning does: one membership and its federate go.
LEMMA ResignEffect ==
    ASSUME Inv, NEW s \in Sessions, Resign(s)
    PROVE  /\ membership[s] \in Federations \X Federate
           /\ \A g \in Federations : federates'[g] =
                IF g = membership[s][1] THEN federates[g] \ {membership[s][2]} ELSE federates[g]
           /\ \A u \in Sessions : membership'[u] = IF u = s THEN None ELSE membership[u]
           /\ UNCHANGED <<federations, created, next_federate_id, joinVars, historyVars>>
<1>1. membership[s] \in Federations \X Federate
    BY Zenon DEF Inv, TypeOK, Resign
<1>2. \A g \in Federations : federates'[g] =
        IF g = membership[s][1] THEN federates[g] \ {membership[s][2]} ELSE federates[g]
    BY <1>1, Zenon DEF Inv, TypeOK, Resign
<1>3. \A u \in Sessions : membership'[u] = IF u = s THEN None ELSE membership[u]
    BY Zenon DEF Inv, TypeOK, Resign
<1> QED BY <1>1, <1>2, <1>3, Zenon DEF Resign

\* Resigning ends one membership and takes the one federate that goes with it.
LEMMA ResignStep ==
    ASSUME Inv, NEW s \in Sessions, Resign(s)
    PROVE  Inv'
<1>1. PICK f \in Federations, z \in Federate : membership[s] = <<f, z>>
    BY ResignEffect
<1>2. /\ \A g \in Federations :
            federates'[g] = IF g = f THEN federates[g] \ {z} ELSE federates[g]
      /\ \A u \in Sessions : membership'[u] = IF u = s THEN None ELSE membership[u]
      /\ federation' = federation /\ federate' = federate /\ pc' = pc
      /\ next_federate_id' = next_federate_id
    BY <1>1, ResignEffect DEF joinVars
<1>3. \A g \in Federations : federates'[g] \subseteq federates[g]
    BY <1>2, Zenon
<1>4. \A u \in Sessions : pc[u] = "insert" => federation[u] \in Federations
    BY NoneApart, Zenon DEF Inv, Locals
<1>5. TypeOK'
  <2>1. /\ federates' \in [Federations -> SUBSET Federate]
        /\ membership' \in [Sessions -> (Federations \X Federate) \cup {None}]
      BY <1>1, Zenon DEF Inv, TypeOK, Resign
  <2> QED BY <2>1, Zenon DEF Inv, TypeOK, Resign, joinVars, historyVars
<1>6. Locals'
    BY <1>2, Zenon DEF Inv, Locals
<1>7. HandlesDrawn'
    BY <1>2, <1>3, Zenon DEF Inv, HandlesDrawn
<1>8. MembershipsMatch'
  <2>1. \A u \in Sessions : membership[u] = <<f, z>> => u = s
    <3>1. membership[s] # None
        BY <1>1, NoneApart
    <3> QED BY <1>1, <3>1, Zenon DEF Inv, MembershipsMatch
  <2>2. \A g \in Federations, x \in Federate :
            x \in federates'[g] <=> \E u \in Sessions : membership'[u] = <<g, x>>
    <3> SUFFICES ASSUME NEW g \in Federations, NEW x \in Federate
                 PROVE  x \in federates'[g] <=> \E u \in Sessions : membership'[u] = <<g, x>>
        OBVIOUS
    <3>1. x \in federates[g] <=> \E u \in Sessions : membership[u] = <<g, x>>
        BY Zenon DEF Inv, MembershipsMatch
    <3>2. None # <<g, x>>
        BY NoneApart
    <3>3. x \in federates'[g] <=> x \in federates[g] /\ ~ (g = f /\ x = z)
        BY <1>2, Zenon
    <3> QED BY <1>1, <1>2, <2>1, <3>1, <3>2, <3>3
  <2>3. \A g \in Federations : \A x, y \in federates'[g] : x[1] = y[1] => x = y
      BY <1>3, Zenon DEF Inv, MembershipsMatch
  <2>4. \A u, v \in Sessions : membership'[u] # None /\ membership'[u] = membership'[v] => u = v
      BY <1>2 DEF Inv, MembershipsMatch
  <2>5. \A u \in Sessions : pc'[u] = "insert" =>
            \A x \in federates'[federation'[u]] : x[1] # federate'[u][1]
      BY <1>2, <1>3, <1>4, Zenon DEF Inv, MembershipsMatch
  <2> QED BY <2>2, <2>3, <2>4, <2>5, Zenon DEF MembershipsMatch
<1> QED BY <1>5, <1>6, <1>7, <1>8, Zenon DEF Inv

\* An empty registry meets the invariant.
LEMMA InvInit == Init => Inv
<1> SUFFICES ASSUME Init PROVE Inv
    OBVIOUS
<1>1. TypeOK
    BY RegistryAssumption DEF Init, TypeOK
<1>2. Locals /\ HandlesDrawn
    BY Zenon DEF Init, Locals, HandlesDrawn
<1>3. MembershipsMatch
    BY NoneApart DEF Init, MembershipsMatch
<1> QED BY <1>1, <1>2, <1>3, Zenon DEF Inv

\* The invariant is inductive: one lemma for each handler.
LEMMA InvNext == Inv /\ [Next]_vars => Inv'
<1> SUFFICES ASSUME Inv, [Next]_vars PROVE Inv'
    OBVIOUS
<1>1. CASE UNCHANGED vars
  <2>1. TypeOK'
      BY <1>1, Zenon DEF Inv, TypeOK, vars, joinVars, historyVars
  <2> QED BY <1>1, <2>1, MembersFrame, Zenon DEF Inv, vars, joinVars
<1>2. CASE Next
    BY <1>2, CreateStep, DestroyStep, JoinLookupStep, JoinNameStep, JoinInsertStep,
       ResignStep, Zenon DEF Next
<1> QED BY <1>1, <1>2, Zenon

\* Every variable keeps its type, handles are drawn once, and memberships match
\* the federates of the federations, however joins and resignations interleave.
THEOREM Registered == Spec => []Inv
  BY InvInit, InvNext, PTL DEF Spec

----------------------------------------------------------------------------
(* Federations that are gone, and names that are used twice.               *)

\* A federation that the registry holds keeps its place there unless it is
\* destroyed, and then it has no federates.
LEMMA OutsidersStep ==
    Inv /\ JoinsExplained /\ OutsidersExplained /\ [Next]_vars
        => JoinsExplained' /\ OutsidersExplained'
<1> SUFFICES ASSUME Inv, JoinsExplained, OutsidersExplained, [Next]_vars
             PROVE  JoinsExplained' /\ OutsidersExplained'
    OBVIOUS
<1>0. /\ None \notin Federations
      /\ \A u \in Sessions : pc[u] # "idle" => federation[u] \in Federations
      /\ \A u \in Sessions : membership[u] # None => membership[u][1] \in Federations
      /\ federations \in [Names -> Federations \cup {None}]
    BY NoneApart, Zenon DEF Inv, Locals, TypeOK
<1>1. ASSUME NEW s \in Sessions, NEW n \in Names, Create(s, n)
      PROVE  JoinsExplained' /\ OutsidersExplained'
  <2>1. \A m \in Names : federations[m] # None => federations'[m] = federations[m]
      BY <1>1, Zenon DEF Create, Inv, TypeOK
  <2>2. UNCHANGED <<pc, federation, membership, bereft>>
      BY <1>1, Zenon DEF Create, joinVars, historyVars
  <2> QED BY <1>0, <2>1, <2>2 DEF JoinsExplained, OutsidersExplained
<1>2. ASSUME NEW s \in Sessions, NEW n \in Names, Destroy(s, n)
      PROVE  JoinsExplained' /\ OutsidersExplained'
  <2>1. \A m \in Names : m # n => federations'[m] = federations[m]
      BY <1>2, Zenon DEF Destroy, Inv, TypeOK
  <2>2. UNCHANGED <<pc, federation, membership>>
      BY <1>2, Zenon DEF Destroy, joinVars
  <2>3. /\ bereft \subseteq bereft'
        /\ \A u \in Sessions : pc[u] # "idle" /\ federation[u] = federations[n] => u \in bereft'
      BY <1>2, Zenon DEF Destroy
  <2>4. JoinsExplained'
      BY <2>1, <2>2, <2>3, Zenon DEF JoinsExplained
  <2>5. \A u \in Sessions : membership[u] # None => membership[u][1] # federations[n]
    <3> SUFFICES ASSUME NEW u \in Sessions, membership[u] # None
                 PROVE  membership[u][1] # federations[n]
        OBVIOUS
    <3>1. PICK f \in Federations, x \in Federate : membership[u] = <<f, x>>
        BY DEF Inv, TypeOK
    <3>2. x \in federates[f]
        BY <3>1, Zenon DEF Inv, MembershipsMatch
    <3> QED BY <1>2, <3>1, <3>2 DEF Destroy, MayDestroy
  <2>6. OutsidersExplained'
      BY <2>1, <2>2, <2>3, <2>5, Zenon DEF OutsidersExplained
  <2> QED BY <2>4, <2>6, Zenon
<1>3. ASSUME NEW s \in Sessions, NEW n \in Names, NEW r \in Requested \cup {None},
             JoinLookup(s, n, r)
      PROVE  JoinsExplained' /\ OutsidersExplained'
  <2>1. /\ \A u \in Sessions : /\ u # s => pc'[u] = pc[u] /\ federation'[u] = federation[u]
                               /\ u # s /\ u \in bereft => u \in bereft'
        /\ federation'[s] = federations[n]
        /\ membership[s] = None
      BY <1>3, Zenon DEF JoinLookup, Goto, Inv, TypeOK
  <2>2. UNCHANGED <<federations, membership>>
      BY <1>3, Zenon DEF JoinLookup
  <2>3. JoinsExplained'
      BY <2>1, <2>2, Zenon DEF JoinsExplained
  <2>4. OutsidersExplained'
      BY <2>1, <2>2, Zenon DEF OutsidersExplained
  <2> QED BY <2>3, <2>4, Zenon
<1>4. ASSUME NEW s \in Sessions, JoinName(s)
      PROVE  JoinsExplained' /\ OutsidersExplained'
  <2>1. UNCHANGED <<federations, membership, bereft>>
      BY <1>4, Zenon DEF JoinName, historyVars
  <2>2. \A u \in Sessions : pc'[u] # "idle" => pc[u] # "idle" /\ federation'[u] = federation[u]
    <3>1. pc[s] # "idle"
        BY <1>4, Zenon DEF JoinName
    <3>2. CASE Return(s)
        BY <3>2, ReturnType, Zenon DEF Inv
    <3>3. CASE Goto(s, "insert") /\ federation' = federation
        BY <3>1, <3>3, Zenon DEF Goto, Inv, TypeOK
    <3> QED BY <1>4, <3>2, <3>3, Zenon DEF JoinName
  <2> QED BY <2>1, <2>2, Zenon DEF JoinsExplained, OutsidersExplained
<1>5. ASSUME NEW s \in Sessions, JoinInsert(s)
      PROVE  JoinsExplained' /\ OutsidersExplained'
  <2>1. UNCHANGED <<federations, bereft>>
      BY <1>5, Zenon DEF JoinInsert
  <2>2. /\ pc[s] # "idle"
        /\ \A u \in Sessions :
             /\ membership'[u] = IF u = s THEN <<federation[s], federate[s]>> ELSE membership[u]
             /\ pc'[u] # "idle" => pc[u] # "idle" /\ federation'[u] = federation[u]
      BY <1>5, InsertEffect, Zenon
  <2>3. JoinsExplained'
      BY <2>1, <2>2, Zenon DEF JoinsExplained
  <2>4. OutsidersExplained'
      BY <2>1, <2>2 DEF JoinsExplained, OutsidersExplained
  <2> QED BY <2>3, <2>4, Zenon
<1>6. ASSUME NEW s \in Sessions, Resign(s)
      PROVE  JoinsExplained' /\ OutsidersExplained'
    BY <1>6, ResignEffect DEF JoinsExplained, OutsidersExplained, joinVars, historyVars
<1>7. CASE UNCHANGED vars
    BY <1>7, Zenon DEF vars, joinVars, historyVars, JoinsExplained, OutsidersExplained
<1> QED BY <1>1, <1>2, <1>3, <1>4, <1>5, <1>6, <1>7, Zenon DEF Next

\* Every federate of a federation is joined to one that the registry holds, but
\* for the race of its join with destroy, and it is joined by one session.
THEOREM MembershipsAreExact == Spec => []MembershipsExact
<1>1. Init => JoinsExplained /\ OutsidersExplained
    BY Zenon DEF Init, JoinsExplained, OutsidersExplained
<1>2. Inv => MembershipsMatch
    BY Zenon DEF Inv
<1> QED BY <1>1, <1>2, OutsidersStep, Registered, PTL DEF Spec, MembershipsExact

\* Steps that enter no federate and start no entry explain what was explained.
LEMMA ClashesFrame ==
    ASSUME Inv, PendingExplained, ClashesExplained,
           \A f \in Federations : federates'[f] \subseteq federates[f],
           overtaken' = overtaken,
           \A u \in Sessions : pc'[u] = "insert" =>
              /\ pc[u] = "insert"
              /\ federation'[u] = federation[u] /\ federate'[u] = federate[u]
    PROVE  PendingExplained' /\ ClashesExplained'
<1>1. \A u \in Sessions : pc[u] = "insert" => federation[u] \in Federations
    BY NoneApart, Zenon DEF Inv, Locals
<1>2. PendingExplained'
    BY <1>1, Zenon DEF PendingExplained
<1>3. ClashesExplained'
    BY Zenon DEF ClashesExplained
<1> QED BY <1>2, <1>3, Zenon

\* A join that has checked its name has the highest handle so far, and a name
\* that is its own or that nobody has.
LEMMA ClashesName ==
    ASSUME Inv, PendingExplained, ClashesExplained, NEW s \in Sessions, JoinName(s)
    PROVE  PendingExplained' /\ ClashesExplained'
<1> DEFINE f == federation[s]
           h == next_federate_id[f] + 1
<1>0. UNCHANGED <<federates, overtaken>>
    BY Zenon DEF JoinName, historyVars
<1>1. ClashesExplained'
    BY <1>0, Zenon DEF ClashesExplained
<1>2. CASE Return(s)
  <2>1. \A u \in Sessions : pc'[u] = "insert" =>
            /\ pc[u] = "insert"
            /\ federation'[u] = federation[u] /\ federate'[u] = federate[u]
      BY <1>2, ReturnType, Zenon DEF Inv
  <2> QED BY <1>0, <2>1, ClashesFrame, Zenon
<1>3. CASE /\ ~ (requested[s] # None /\ NameInUse(f, requested[s]))
           /\ federate' = [federate EXCEPT ![s] = <<h, FederateName(s, h)>>]
           /\ Goto(s, "insert")
           /\ UNCHANGED <<federation, requested>>
  <2>1. \A u \in Sessions : /\ pc'[u] = IF u = s THEN "insert" ELSE pc[u]
                            /\ federate'[u] = IF u = s THEN <<h, FederateName(s, h)>>
                                              ELSE federate[u]
                            /\ federation'[u] = federation[u]
      BY <1>3, Zenon DEF Inv, TypeOK, Goto
  <2>2. /\ f \in Federations /\ next_federate_id[f] \in Nat
        /\ \A x \in federates[f] : x[1] \in Nat /\ x[1] <= next_federate_id[f]
    <3>1. f \in Federations
        BY NoneApart, Zenon DEF Inv, Locals, JoinName
    <3> QED BY <3>1 DEF Inv, TypeOK, HandlesDrawn, Federate
  <2>3. \A x \in federates[f] : ~ (x[1] > h)
      BY <2>2
  <2>4. \A x \in federates[f] : x[2] = FederateName(s, h) => FederateName(s, h) = h
      BY <1>3, Zenon DEF FederateName, NameInUse
  <2> HIDE DEF f, h
  <2>5. PendingExplained'
    <3> SUFFICES ASSUME NEW u \in Sessions, pc'[u] = "insert",
                        NEW x \in federates[federation[u]]
                 PROVE  /\ x[1] > federate'[u][1] =>
                            <<federation[u], federate'[u][1]>> \in overtaken
                        /\ x[1] < federate'[u][1] /\ x[2] = federate'[u][2] =>
                            \/ <<federation[u], federate'[u][1]>> \in overtaken
                            \/ federate'[u][2] = federate'[u][1]
        BY <1>0, <2>1, Zenon DEF PendingExplained
    <3>1. CASE u = s
        BY <2>1, <2>3, <2>4, <3>1 DEF f
    <3>2. CASE u # s
        BY <2>1, <3>2, Zenon DEF PendingExplained
    <3> QED BY <3>1, <3>2, Zenon
  <2> QED BY <1>1, <2>5, Zenon
<1> QED BY <1>2, <1>3, Zenon DEF JoinName

\* A federate that is entered overtakes all that are about to be.
LEMMA ClashesInsert ==
    ASSUME Inv, PendingExplained, ClashesExplained, NEW s \in Sessions, JoinInsert(s)
    PROVE  PendingExplained' /\ ClashesExplained'
<1> DEFINE f == federation[s]
           z == federate[s]
<1>0. /\ f \in Federations /\ z \in Federate /\ pc[s] = "insert"
      /\ \A g \in Federations :
            federates'[g] = IF g = f THEN federates[f] \cup {z} ELSE federates[g]
      /\ \A u \in Sessions :
            /\ pc'[u] = IF u = s THEN "idle" ELSE pc[u]
            /\ u # s => federation'[u] = federation[u] /\ federate'[u] = federate[u]
    BY InsertEffect, Zenon
<1>1. /\ overtaken \subseteq overtaken'
      /\ \A u \in Sessions \ {s} : pc[u] = "insert" /\ federation[u] = f =>
            <<f, federate[u][1]>> \in overtaken'
    BY Zenon DEF JoinInsert
<1>2. \A x \in federates[f] :
        /\ x[1] > z[1] => <<f, z[1]>> \in overtaken
        /\ x[1] < z[1] /\ x[2] = z[2] => <<f, z[1]>> \in overtaken \/ z[2] = z[1]
    BY <1>0, Zenon DEF PendingExplained
<1>3. \A u \in Sessions : pc[u] = "insert" => federation[u] \in Federations
    BY NoneApart, Zenon DEF Inv, Locals
<1> HIDE DEF f, z
<1>4. PendingExplained'
  <2> SUFFICES ASSUME NEW u \in Sessions, pc'[u] = "insert",
                      NEW x \in federates'[federation'[u]]
               PROVE  \/ <<federation'[u], federate'[u][1]>> \in overtaken'
                      \/ /\ ~ (x[1] > federate'[u][1])
                         /\ x[1] < federate'[u][1] /\ x[2] = federate'[u][2] =>
                              federate'[u][2] = federate'[u][1]
      BY Zenon DEF PendingExplained
  <2>1. /\ u # s /\ pc[u] = "insert"
        /\ federation'[u] = federation[u] /\ federate'[u] = federate[u]
      BY <1>0, Zenon
  <2>2. CASE federation[u] = f
      BY <1>1, <2>1, <2>2, Zenon
  <2>3. CASE federation[u] # f
    <3>1. x \in federates[federation[u]]
        BY <1>0, <1>3, <2>1, <2>3, Zenon
    <3> QED BY <1>1, <2>1, <3>1, Zenon DEF PendingExplained
  <2> QED BY <2>2, <2>3, Zenon
<1>5. ClashesExplained'
  <2> SUFFICES ASSUME NEW g \in Federations, NEW x \in federates'[g], NEW y \in federates'[g],
                      x[2] = y[2], x[1] < y[1]
               PROVE  \/ <<g, x[1]>> \in overtaken' \/ <<g, y[1]>> \in overtaken'
                      \/ y[2] = y[1]
      BY Zenon DEF ClashesExplained
  <2>1. CASE x \in federates[g] /\ y \in federates[g]
      BY <1>1, <2>1, Zenon DEF ClashesExplained
  <2>2. CASE g = f /\ y = z /\ x \in federates[f]
      BY <1>1, <1>2, <2>2, Zenon
  <2>3. CASE g = f /\ x = z /\ y \in federates[f]
    <3>1. y[1] > z[1]
      <4>1. z[1] \in Nat /\ y[1] \in Nat
          BY <1>0, <2>3, RegistryAssumption DEF Inv, TypeOK, Federate
      <4> QED BY <2>3, <4>1, Zenon
    <3> QED BY <1>1, <1>2, <2>3, <3>1, Zenon
  <2>4. ~ (x = z /\ y = z)
    <3>1. z[1] \in Nat
        BY <1>0, RegistryAssumption DEF Federate
    <3> QED BY <3>1
  <2> QED BY <1>0, <2>1, <2>2, <2>3, <2>4
<1> QED BY <1>4, <1>5, Zenon

\* Clashes of names are explained after every step.
LEMMA ClashesStep ==
    Inv /\ PendingExplained /\ ClashesExplained /\ [Next]_vars
        => PendingExplained' /\ ClashesExplained'
<1> SUFFICES ASSUME Inv, PendingExplained, ClashesExplained, [Next]_vars
             PROVE  PendingExplained' /\ ClashesExplained'
    OBVIOUS
<1>1. CASE UNCHANGED <<federates, overtaken, pc, federation, federate>>
    BY <1>1, ClashesFrame, Zenon
<1>2. ASSUME NEW s \in Sessions, NEW n \in Names, NEW r \in Requested \cup {None},
             JoinLookup(s, n, r)
      PROVE  PendingExplained' /\ ClashesExplained'
  <2>1. UNCHANGED <<federates, overtaken>>
      BY <1>2, Zenon DEF JoinLookup
  <2>2. \A u \in Sessions : pc'[u] = "insert" =>
            /\ pc[u] = "insert"
            /\ federation'[u] = federation[u] /\ federate'[u] = federate[u]
      BY <1>2, Zenon DEF JoinLookup, Goto, Inv, TypeOK
  <2> QED BY <2>1, <2>2, ClashesFrame, Zenon
<1>3. ASSUME NEW s \in Sessions, Resign(s)
      PROVE  PendingExplained' /\ ClashesExplained'
  <2>1. \A f \in Federations : federates'[f] \subseteq federates[f]
      BY <1>3, ResignEffect, Zenon
  <2>2. UNCHANGED <<pc, federation, federate, overtaken>>
      BY <1>3, Zenon DEF Resign, joinVars, historyVars
  <2> QED BY <2>1, <2>2, ClashesFrame, Zenon
<1>4. ASSUME NEW s \in Sessions, NEW n \in Names, Create(s, n) \/ Destroy(s, n)
      PROVE  PendingExplained' /\ ClashesExplained'
    BY <1>1, <1>4, Zenon DEF Create, Destroy, joinVars, historyVars
<1>5. CASE UNCHANGED vars
    BY <1>1, <1>5, Zenon DEF vars, joinVars, historyVars
<1> QED BY <1>2, <1>3, <1>4, <1>5, ClashesName, ClashesInsert, Zenon DEF Next

\* Two federates of a federation share a name only when one of them was
\* overtaken between the check of its name and its entry, or when the name was
\* made up for the later one: join's check excludes everything else.
THEOREM ClashesAreExplained == Spec => []ClashesExplained
<1>1. Init => PendingExplained /\ ClashesExplained
    BY Zenon DEF Init, PendingExplained, ClashesExplained
<1> QED BY <1>1, ClashesStep, Registered, PTL DEF Spec
====
