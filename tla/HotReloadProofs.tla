---------------------------- MODULE HotReloadProofs ----------------------------
(***************************************************************************)
(* Theorems about HotReload for every number of admins, processes, reload  *)
(* slots and changes: type correctness, NoChangeHidden, the implementation *)
(* of VersionedConfig, and the monotonicity of a process whose reloads do  *)
(* not overlap.                                                            *)
(***************************************************************************)
EXTENDS HotReload, TLAPS

(* The strengthening. SafeRead(v, k) is what an answer v of getLatest(),
   evaluated when k changes were committed, is good for later: every change
   committed after it gets a version above v, whenever it is bumped.         *)

Published(v) == v \in VersionsInTable \cup {0}

SafeRead(v, k) ==
    /\ Published(v)
    /\ \A row \in configVersions : row.mutation > k => row.version > v
    /\ \A a \in Admins :
           admin[a].pc = "read" /\ admin[a].mutation > k => admin[a].latest >= v

LatestExists == \E v \in Nat : IsLatest(v)

\* Rows and admin requests refer to committed changes, and bump() holds a
\* version of the table.
BumpsKnown ==
    /\ \A row \in configVersions : row.mutation <= Committed
    /\ \A a \in Admins : admin[a].mutation <= Committed
    /\ \A a \in Admins : admin[a].pc = "read" => Published(admin[a].latest)

CachesSafe == \A g \in Gateways : SafeRead(cache[g].version, cache[g].versionAt)

LoadsSafe ==
    \A g \in Gateways : \A l \in Loads :
        load[g][l].pc = "loading" /\ "version" \in load[g][l].answered =>
            SafeRead(load[g][l].result.version, load[g][l].result.versionAt)

\* The version 0 of an empty memory counts as a read of the fresh database.
ReadInv ==
    /\ TypeOK
    /\ LatestExists
    /\ BumpsKnown
    /\ SafeRead(0, 0)
    /\ CachesSafe
    /\ LoadsSafe

-----------------------------------------------------------------------------
(* Type correctness *)

LEMMA ConstantsTyped ==
    /\ EmptyConfig \in CachedConfig
    /\ IdleAdmin \in AdminState
    /\ FreeLoad \in LoadState
    /\ StartedLoad \in LoadState
    /\ StartedLoad = [pc |-> "loading", latest |-> 0, answered |-> {}, result |-> EmptyConfig]
  BY DEF EmptyConfig, CachedConfig, IdleAdmin, AdminState, FreeLoad, StartedLoad,
         LoadState, Queries

LEMMA AnswerTyped ==
    ASSUME NEW r \in LoadState, NEW q \in Queries, NEW c \in CachedConfig
    PROVE  Answer(r, q, c) \in LoadState
  BY DEF Answer, LoadState

LEMMA CommittedIsNat == TypeOK => Committed \in Nat
  BY DEF TypeOK, Committed

LEMMA LoadTyped ==
    ASSUME TypeOK, NEW g \in Gateways, NEW l \in Loads
    PROVE  load[g][l] \in LoadState /\ load[g][l].result \in CachedConfig
  BY DEF TypeOK, LoadState

LEMMA ContentReadTyped ==
    ASSUME TypeOK, NEW g \in Gateways, NEW l \in Loads
    PROVE  /\ [load[g][l].result EXCEPT !.routesAt = Committed] \in CachedConfig
           /\ [load[g][l].result EXCEPT !.policiesAt = Committed] \in CachedConfig
  <1>1. load[g][l].result \in CachedConfig /\ Committed \in Nat
    BY LoadTyped, CommittedIsNat
  <1> QED
    BY <1>1 DEF CachedConfig

LEMMA LatestIsNat ==
    ASSUME TypeOK, NEW v \in VersionsInTable \cup {0} PROVE v \in Nat
  BY DEF TypeOK, VersionsInTable

LEMMA InitTypeOK == Init => TypeOK
  BY ConstantsTyped DEF Init, TypeOK

LEMMA NextTypeOK == TypeOK /\ [Next]_vars => TypeOK'
  <1> SUFFICES ASSUME TypeOK, [Next]_vars PROVE TypeOK'
    OBVIOUS
  <1> USE DEF TypeOK
  <1>1. ASSUME NEW a \in Admins, Mutate(a) PROVE TypeOK'
    BY <1>1 DEF Mutate, AdminState, Committed, gatewayVars
  <1>2. ASSUME NEW a \in Admins, BumpReadLatest(a) PROVE TypeOK'
    <2>1. PICK v \in VersionsInTable \cup {0} :
              admin' = [admin EXCEPT ![a] =
                  [pc |-> "read", mutation |-> admin[a].mutation, latest |-> v]]
      BY <1>2 DEF BumpReadLatest
    <2>2. v \in Nat
      BY <2>1, LatestIsNat
    <2> QED
      BY <1>2, <2>1, <2>2 DEF BumpReadLatest, AdminState, dbVars, gatewayVars
  <1>3. ASSUME NEW a \in Admins, BumpInsert(a) PROVE TypeOK'
    BY <1>3, ConstantsTyped DEF BumpInsert, AdminState, gatewayVars
  <1>4. ASSUME NEW a \in Admins, BumpFails(a) PROVE TypeOK'
    BY <1>4, ConstantsTyped DEF BumpFails, dbVars, gatewayVars
  <1>5. ASSUME NEW g \in Gateways, Boot(g) PROVE TypeOK'
    BY <1>5, ConstantsTyped DEF Boot, adminVars
  <1>6. ASSUME NEW g \in Gateways, Exit(g) PROVE TypeOK'
    BY <1>6, ConstantsTyped DEF Exit, adminVars
  <1>7. ASSUME NEW g \in Gateways, NEW l \in Loads, Tick(g, l) PROVE TypeOK'
    <2>1. PICK v \in VersionsInTable \cup {0} :
              load' = [load EXCEPT ![g][l] =
                          [FreeLoad EXCEPT !.pc = "checked", !.latest = v]]
      BY <1>7 DEF Tick
    <2>2. [FreeLoad EXCEPT !.pc = "checked", !.latest = v] \in LoadState
      BY LatestIsNat, ConstantsTyped DEF LoadState
    <2> QED
      BY <1>7, <2>1, <2>2 DEF Tick, adminVars
  <1>8. ASSUME NEW g \in Gateways, NEW l \in Loads, CheckVersion(g, l) PROVE TypeOK'
    BY <1>8, ConstantsTyped DEF CheckVersion, adminVars
  <1>9. ASSUME NEW g \in Gateways, NEW l \in Loads, ReadRoutes(g, l) PROVE TypeOK'
    <2>2. Answer(load[g][l], "routes", [load[g][l].result EXCEPT !.routesAt = Committed])
              \in LoadState
      BY ContentReadTyped, AnswerTyped, LoadTyped DEF Queries, Tables
    <2> QED
      BY <1>9, <2>2 DEF ReadRoutes, adminVars
  <1>10. ASSUME NEW g \in Gateways, NEW l \in Loads, ReadPolicies(g, l) PROVE TypeOK'
    <2>2. Answer(load[g][l], "policies", [load[g][l].result EXCEPT !.policiesAt = Committed])
              \in LoadState
      BY ContentReadTyped, AnswerTyped, LoadTyped DEF Queries, Tables
    <2> QED
      BY <1>10, <2>2 DEF ReadPolicies, adminVars
  <1>11. ASSUME NEW g \in Gateways, NEW l \in Loads, ReadVersion(g, l) PROVE TypeOK'
    <2>1. PICK v \in VersionsInTable \cup {0} :
              load' = [load EXCEPT ![g][l] =
                  Answer(@, "version",
                         [@.result EXCEPT !.version = v, !.versionAt = Committed])]
      BY <1>11 DEF ReadVersion
    <2>2. [load[g][l].result EXCEPT !.version = v, !.versionAt = Committed] \in CachedConfig
      BY LatestIsNat, LoadTyped, CommittedIsNat DEF CachedConfig
    <2>3. Answer(load[g][l], "version",
                 [load[g][l].result EXCEPT !.version = v, !.versionAt = Committed])
              \in LoadState
      BY <2>2, AnswerTyped, LoadTyped DEF Queries
    <2> QED
      BY <1>11, <2>1, <2>3 DEF ReadVersion, adminVars
  <1>12. ASSUME NEW g \in Gateways, NEW l \in Loads, Swap(g, l) PROVE TypeOK'
    BY <1>12, LoadTyped, ConstantsTyped DEF Swap, adminVars
  <1>13. ASSUME NEW g \in Gateways, NEW l \in Loads, LoadFails(g, l) PROVE TypeOK'
    BY <1>13, ConstantsTyped DEF LoadFails, adminVars
  <1>14. CASE UNCHANGED vars
    BY <1>14 DEF vars
  <1> QED
    BY <1>1, <1>2, <1>3, <1>4, <1>5, <1>6, <1>7, <1>8, <1>9, <1>10, <1>11, <1>12,
       <1>13, <1>14 DEF Next, Reload

\* The state of HotReload keeps its types, whatever the bounds.
THEOREM TypeCorrect == Spec => []TypeOK
  BY InitTypeOK, NextTypeOK, PTL DEF Spec

-----------------------------------------------------------------------------
(* Reads of the version stay safe: no change is hidden *)

AdminStep(a) == Mutate(a) \/ BumpReadLatest(a) \/ BumpInsert(a) \/ BumpFails(a)

LEMMA StepKinds ==
    ASSUME [Next]_vars
    PROVE  \/ (\E a \in Admins : AdminStep(a)) /\ UNCHANGED gatewayVars
           \/ UNCHANGED adminVars
  <1>1. ASSUME NEW a \in Admins, AdminStep(a) PROVE UNCHANGED gatewayVars
    BY <1>1 DEF AdminStep, Mutate, BumpReadLatest, BumpInsert, BumpFails
  <1>2. ASSUME NEW g \in Gateways, Boot(g) \/ Exit(g) PROVE UNCHANGED adminVars
    BY <1>2 DEF Boot, Exit
  <1>3. ASSUME NEW g \in Gateways, NEW l \in Loads, Reload(g, l) \/ LoadFails(g, l)
        PROVE  UNCHANGED adminVars
    <2>1. CASE Tick(g, l) \/ CheckVersion(g, l) \/ ReadRoutes(g, l)
      BY <2>1 DEF Tick, CheckVersion, ReadRoutes
    <2>2. CASE ReadPolicies(g, l) \/ ReadVersion(g, l)
      BY <2>2 DEF ReadPolicies, ReadVersion
    <2>3. CASE Swap(g, l) \/ LoadFails(g, l)
      BY <2>3 DEF Swap, LoadFails
    <2> QED
      BY <1>3, <2>1, <2>2, <2>3 DEF Reload
  <1>4. CASE UNCHANGED vars
    BY <1>4 DEF vars, adminVars
  <1> QED
    BY <1>1, <1>2, <1>3, <1>4 DEF Next, AdminStep

\* One step of an admin request, as far as the table of versions sees it.
LEMMA AdminStepEffect ==
    ASSUME TypeOK, NEW a \in Admins, AdminStep(a)
    PROVE  /\ admin' = [admin EXCEPT ![a] = admin'[a]]
           /\ admin'[a] \in AdminState
           /\ \/ /\ UNCHANGED configVersions
                 /\ admin'[a].pc # "read"
                 /\ \/ /\ UNCHANGED mutations
                       /\ admin'[a].mutation = 0
                    \/ /\ Committed' = Committed + 1
                       /\ admin'[a].mutation = Committed + 1
              \/ /\ UNCHANGED <<configVersions, mutations>>
                 /\ admin'[a].pc = "read"
                 /\ admin'[a].mutation = admin[a].mutation
                 /\ IsLatest(admin'[a].latest)
              \/ /\ UNCHANGED mutations
                 /\ admin[a].pc = "read"
                 /\ configVersions' = configVersions \cup
                        {[version |-> admin[a].latest + 1, mutation |-> admin[a].mutation]}
                 /\ admin'[a] = IdleAdmin
  <1> USE DEF TypeOK
  <1>1. CASE Mutate(a)
    <2>1. Len(mutations') = Len(mutations) + 1
      BY <1>1 DEF Mutate
    <2> QED
      BY <1>1, <2>1 DEF Mutate, AdminState, Committed
  <1>2. CASE BumpReadLatest(a)
    <2>1. PICK v \in VersionsInTable \cup {0} :
              /\ IsLatest(v)
              /\ admin' = [admin EXCEPT ![a] =
                     [pc |-> "read", mutation |-> admin[a].mutation, latest |-> v]]
      BY <1>2 DEF BumpReadLatest
    <2> QED
      BY <1>2, <2>1, LatestIsNat DEF BumpReadLatest, AdminState, dbVars
  <1>3. CASE BumpInsert(a)
    BY <1>3, ConstantsTyped DEF BumpInsert
  <1>4. CASE BumpFails(a)
    BY <1>4, ConstantsTyped DEF BumpFails, IdleAdmin, dbVars
  <1> QED
    BY <1>1, <1>2, <1>3, <1>4 DEF AdminStep

\* A version read from the table stays safe: a later change either reads a
\* latest version at least as high before it inserts, or has not read yet.
LEMMA SafeReadStable ==
    ASSUME TypeOK, [Next]_vars, NEW v \in Nat, NEW k \in Nat, SafeRead(v, k)
    PROVE  SafeRead(v, k)'
  <1>1. CASE UNCHANGED adminVars
    BY <1>1 DEF SafeRead, Published, VersionsInTable, adminVars
  <1>2. ASSUME NEW a \in Admins, AdminStep(a) PROVE SafeRead(v, k)'
    <2> USE <1>2, AdminStepEffect DEF SafeRead, Published, VersionsInTable, TypeOK
    <2>1. CASE UNCHANGED configVersions /\ admin'[a].pc # "read"
      BY <2>1 DEF AdminState
    <2>2. CASE /\ UNCHANGED configVersions
               /\ IsLatest(admin'[a].latest)
      <3>1. admin'[a].latest >= v
        BY <2>2, LatestIsNat DEF IsLatest, AdminState
      <3> QED
        BY <2>2, <3>1 DEF AdminState
    <2>3. CASE /\ admin[a].pc = "read"
               /\ configVersions' = configVersions \cup
                      {[version |-> admin[a].latest + 1, mutation |-> admin[a].mutation]}
               /\ admin'[a] = IdleAdmin
      <3> DEFINE new == [version |-> admin[a].latest + 1, mutation |-> admin[a].mutation]
      <3>1. new.mutation > k => new.version > v
        BY <2>3 DEF AdminState
      <3>2. \A row \in configVersions' : row.mutation > k => row.version > v
        BY <2>3, <3>1
      <3>3. Published(v)'
        BY <2>3
      <3> QED
        BY <2>3, <3>2, <3>3 DEF IdleAdmin
    <2> QED
      BY <2>1, <2>2, <2>3
  <1> QED
    BY <1>1, <1>2, StepKinds

LEMMA InsertedVersion ==
    ASSUME NEW row, configVersions' = configVersions \cup {row}
    PROVE  VersionsInTable' = VersionsInTable \cup {row.version}
  BY DEF VersionsInTable

\* The table always has a latest version: an insertion makes one of the two
\* maxima, the new row or the former latest one.
LEMMA LatestExistsStable ==
    ASSUME TypeOK, LatestExists, BumpsKnown, [Next]_vars
    PROVE  LatestExists'
  <1> USE DEF LatestExists, IsLatest
  <1>1. CASE UNCHANGED configVersions
    BY <1>1 DEF VersionsInTable
  <1>2. ASSUME NEW row, row.version \in Nat, configVersions' = configVersions \cup {row}
        PROVE  LatestExists'
    <2>1. VersionsInTable' = VersionsInTable \cup {row.version}
      BY <1>2, InsertedVersion
    <2>2. \A w \in VersionsInTable : w \in Nat
      BY LatestIsNat
    <2>3. PICK v \in Nat : IsLatest(v)
      OBVIOUS
    <2>4. CASE row.version >= v
      <3>1. IsLatest(row.version)'
        BY <1>2, <2>1, <2>2, <2>3, <2>4
      <3> QED
        BY <1>2, <3>1
    <2>5. CASE row.version < v
      <3>1. IsLatest(v)'
        BY <1>2, <2>1, <2>2, <2>3, <2>5
      <3> QED
        BY <3>1
    <2> QED
      BY <1>2, <2>3, <2>4, <2>5
  <1>3. ASSUME NEW a \in Admins, AdminStep(a) PROVE LatestExists'
    <2> DEFINE new == [version |-> admin[a].latest + 1, mutation |-> admin[a].mutation]
    <2>1. new.version \in Nat
      BY DEF AdminState, TypeOK
    <2>2. CASE configVersions' = configVersions \cup {new}
      BY <1>2, <2>1, <2>2
    <2> QED
      BY <1>1, <1>3, <2>2, AdminStepEffect
  <1> QED
    BY <1>1, <1>3, StepKinds DEF adminVars

LEMMA BumpsKnownStable ==
    ASSUME TypeOK, BumpsKnown, [Next]_vars
    PROVE  BumpsKnown'
  <1> USE DEF BumpsKnown, Published
  <1>1. CASE UNCHANGED adminVars
    BY <1>1 DEF adminVars, Committed, VersionsInTable
  <1>2. ASSUME NEW a \in Admins, AdminStep(a) PROVE BumpsKnown'
    <2> USE DEF TypeOK, AdminState
    <2>0. Committed \in Nat /\ (UNCHANGED mutations => Committed' = Committed)
      BY CommittedIsNat DEF Committed
    <2>1. Committed' \in Nat /\ Committed' >= Committed
      BY <1>2, <2>0, AdminStepEffect
    <2>2. \A b \in Admins : b # a => admin'[b] = admin[b]
      BY <1>2, AdminStepEffect
    <2>3. admin'[a].mutation <= Committed'
      BY <1>2, <2>0, <2>1, AdminStepEffect DEF IdleAdmin
    <2>4. admin'[a].pc = "read" => admin'[a].latest \in VersionsInTable' \cup {0}
      BY <1>2, AdminStepEffect DEF IdleAdmin, IsLatest, VersionsInTable
    <2>5. VersionsInTable \subseteq VersionsInTable'
      BY <1>2, AdminStepEffect DEF VersionsInTable
    <2>6. \A row \in configVersions' : row.mutation <= Committed'
      <3>1. ASSUME NEW row \in configVersions PROVE row.mutation <= Committed'
        BY <2>0, <2>1, <3>1
      <3>2. admin[a].mutation <= Committed'
        BY <2>0, <2>1
      <3>3. \A row \in configVersions' :
                row \in configVersions \/ row.mutation = admin[a].mutation
        <4> DEFINE new == [version |-> admin[a].latest + 1, mutation |-> admin[a].mutation]
        <4>1. configVersions' = configVersions \/ configVersions' = configVersions \cup {new}
          BY <1>2, AdminStepEffect
        <4>2. new.mutation = admin[a].mutation
          OBVIOUS
        <4> HIDE DEF new
        <4> QED
          BY <4>1, <4>2
      <3> QED
        BY <3>1, <3>2, <3>3
    <2>7. \A b \in Admins : admin'[b].mutation <= Committed'
      <3>1. ASSUME NEW b \in Admins, b # a PROVE admin'[b].mutation <= Committed'
        <4>1. admin[b].mutation <= Committed /\ admin[b].mutation \in Nat
          OBVIOUS
        <4> QED
          BY <2>0, <2>1, <2>2, <3>1, <4>1
      <3> QED
        BY <2>3, <3>1
    <2>8. \A b \in Admins :
              admin'[b].pc = "read" => admin'[b].latest \in VersionsInTable' \cup {0}
      BY <2>2, <2>4, <2>5
    <2> QED
      BY <2>6, <2>7, <2>8
  <1> QED
    BY <1>1, <1>2, StepKinds

LEMMA InitReadInv == Init => ReadInv
  <1> SUFFICES ASSUME Init PROVE ReadInv
    OBVIOUS
  <1>1. VersionsInTable = {}
    BY DEF Init, VersionsInTable
  <1>2. LatestExists
    BY <1>1 DEF LatestExists, IsLatest
  <1>3. BumpsKnown
    BY DEF Init, BumpsKnown, IdleAdmin, Committed
  <1>4. CachesSafe
    BY DEF Init, CachesSafe, SafeRead, Published, EmptyConfig, IdleAdmin
  <1>5. LoadsSafe
    BY DEF Init, LoadsSafe, FreeLoad
  <1>6. SafeRead(0, 0)
    BY DEF Init, SafeRead, Published, IdleAdmin
  <1> QED
    BY <1>2, <1>3, <1>4, <1>5, <1>6, InitTypeOK DEF ReadInv

\* Nothing was committed or bumped after a read evaluated just now.
LEMMA LatestIsSafe ==
    ASSUME TypeOK, BumpsKnown, NEW v \in VersionsInTable \cup {0}, IsLatest(v)
    PROVE  SafeRead(v, Committed)
  <1>1. /\ Committed \in Nat
        /\ configVersions \subseteq [version : Nat, mutation : Nat]
        /\ admin \in [Admins -> AdminState]
    BY CommittedIsNat DEF TypeOK
  <1> QED
    BY <1>1 DEF SafeRead, Published, BumpsKnown, AdminState

\* What one step may do to a reload in flight: start it, answer its version
\* query with the latest version of this moment, or leave that answer alone.
LEMMA LoadStepEffect ==
    ASSUME TypeOK, [Next]_vars, NEW g \in Gateways, NEW l \in Loads,
           load'[g][l].pc = "loading", "version" \in load'[g][l].answered
    PROVE  \/ /\ load[g][l].pc = "loading"
              /\ "version" \in load[g][l].answered
              /\ load'[g][l].result.version = load[g][l].result.version
              /\ load'[g][l].result.versionAt = load[g][l].result.versionAt
           \/ /\ load'[g][l].result.version \in VersionsInTable \cup {0}
              /\ IsLatest(load'[g][l].result.version)
              /\ load'[g][l].result.versionAt = Committed
              /\ UNCHANGED <<adminVars, phase, cache>>
  <1> USE DEF TypeOK, LoadState, CachedConfig
  <1>1. ASSUME NEW a \in Admins, AdminStep(a) PROVE load'[g][l] = load[g][l]
    BY <1>1 DEF AdminStep, Mutate, BumpReadLatest, BumpInsert, BumpFails, gatewayVars
  <1>2. ASSUME NEW h \in Gateways, Boot(h) PROVE load'[g][l] = load[g][l]
    BY <1>2, ConstantsTyped DEF Boot
  <1>3. ASSUME NEW h \in Gateways, Exit(h) PROVE load'[g][l] = load[g][l]
    BY <1>3, ConstantsTyped DEF Exit, FreeLoad
  <1>4. ASSUME NEW h \in Gateways, NEW k \in Loads, Tick(h, k)
        PROVE  load'[g][l] = load[g][l]
    BY <1>4, ConstantsTyped DEF Tick, FreeLoad
  <1>5. ASSUME NEW h \in Gateways, NEW k \in Loads,
               CheckVersion(h, k) \/ Swap(h, k) \/ LoadFails(h, k)
        PROVE  load'[g][l] = load[g][l]
    <2>1. FreeLoad.pc # "loading" /\ "version" \notin StartedLoad.answered
      BY ConstantsTyped DEF FreeLoad
    <2>2. CASE CheckVersion(h, k)
      BY <2>1, <2>2 DEF CheckVersion
    <2>3. CASE Swap(h, k)
      BY <2>1, <2>3 DEF Swap
    <2>4. CASE LoadFails(h, k)
      BY <2>1, <2>4 DEF LoadFails
    <2> QED
      BY <1>5, <2>2, <2>3, <2>4
  <1>6. ASSUME NEW h \in Gateways, NEW k \in Loads,
               ReadRoutes(h, k) \/ ReadPolicies(h, k)
        PROVE  /\ load[g][l].pc = "loading"
               /\ "version" \in load[g][l].answered
               /\ load'[g][l].result.version = load[g][l].result.version
               /\ load'[g][l].result.versionAt = load[g][l].result.versionAt
    <2>1. ASSUME NEW q \in Tables, NEW c \in CachedConfig,
                 c.version = load[h][k].result.version,
                 c.versionAt = load[h][k].result.versionAt,
                 load[h][k].pc = "loading",
                 load' = [load EXCEPT ![h][k] = Answer(load[h][k], q, c)]
          PROVE  /\ load[g][l].pc = "loading"
                 /\ "version" \in load[g][l].answered
                 /\ load'[g][l].result.version = load[g][l].result.version
                 /\ load'[g][l].result.versionAt = load[g][l].result.versionAt
      <3>1. CASE g = h /\ l = k
        <4>1. load'[g][l] = Answer(load[g][l], q, c)
          BY <2>1, <3>1
        <4>2. load[g][l] \in LoadState
          OBVIOUS
        <4> QED
          BY <2>1, <3>1, <4>1, <4>2 DEF Answer, Tables
      <3>2. CASE ~(g = h /\ l = k)
        BY <2>1, <3>2
      <3> QED
        BY <3>1, <3>2
    <2>2. CASE ReadRoutes(h, k)
      <3>1. [load[h][k].result EXCEPT !.routesAt = Committed] \in CachedConfig
        BY ContentReadTyped
      <3> QED
        BY <2>1, <2>2, <3>1 DEF ReadRoutes, Unanswered, Tables
    <2>3. CASE ReadPolicies(h, k)
      <3>1. [load[h][k].result EXCEPT !.policiesAt = Committed] \in CachedConfig
        BY ContentReadTyped
      <3> QED
        BY <2>1, <2>3, <3>1 DEF ReadPolicies, Unanswered, Tables
    <2> QED
      BY <1>6, <2>2, <2>3
  <1>7. ASSUME NEW h \in Gateways, NEW k \in Loads, ReadVersion(h, k)
        PROVE  \/ load'[g][l] = load[g][l]
               \/ /\ load'[g][l].result.version \in VersionsInTable \cup {0}
                  /\ IsLatest(load'[g][l].result.version)
                  /\ load'[g][l].result.versionAt = Committed
                  /\ UNCHANGED <<adminVars, phase, cache>>
    BY <1>7 DEF ReadVersion, Unanswered, Answer, adminVars
  <1>8. CASE UNCHANGED vars
    BY <1>8 DEF vars
  <1> QED
    BY <1>1, <1>2, <1>3, <1>4, <1>5, <1>6, <1>7, <1>8 DEF Next, Reload, AdminStep

\* A cache changes only when a reload that has read its version replaces it, or
\* when its process exits.
LEMMA CacheStepEffect ==
    ASSUME TypeOK, [Next]_vars, NEW g \in Gateways
    PROVE  \/ cache'[g] = cache[g]
           \/ \E l \in Loads :
                  /\ load[g][l].pc = "loading"
                  /\ "version" \in load[g][l].answered
                  /\ cache'[g] = load[g][l].result
                  /\ load' = [load EXCEPT ![g][l] = FreeLoad]
           \/ /\ cache'[g] = EmptyConfig
              /\ phase'[g] = "down"
              /\ load'[g] = [l \in Loads |-> FreeLoad]
  <1> USE DEF TypeOK
  <1>1. ASSUME NEW a \in Admins, AdminStep(a) PROVE UNCHANGED cache
    BY <1>1 DEF AdminStep, Mutate, BumpReadLatest, BumpInsert, BumpFails, gatewayVars
  <1>2. ASSUME NEW h \in Gateways, Exit(h)
        PROVE  \/ cache'[g] = cache[g]
               \/ /\ cache'[g] = EmptyConfig
                  /\ phase'[g] = "down"
                  /\ load'[g] = [l \in Loads |-> FreeLoad]
    BY <1>2 DEF Exit
  <1>3. ASSUME NEW h \in Gateways, NEW k \in Loads, Swap(h, k)
        PROVE  \/ cache'[g] = cache[g]
               \/ /\ load[g][k].pc = "loading"
                  /\ "version" \in load[g][k].answered
                  /\ cache'[g] = load[g][k].result
                  /\ load' = [load EXCEPT ![g][k] = FreeLoad]
    BY <1>3 DEF Swap, Queries
  <1>4. ASSUME NEW h \in Gateways, Boot(h) PROVE UNCHANGED cache
    BY <1>4 DEF Boot
  <1>5. ASSUME NEW h \in Gateways, NEW k \in Loads,
               \/ Tick(h, k) \/ CheckVersion(h, k) \/ ReadRoutes(h, k)
               \/ ReadPolicies(h, k) \/ ReadVersion(h, k) \/ LoadFails(h, k)
        PROVE  UNCHANGED cache
    BY <1>5 DEF Tick, CheckVersion, ReadRoutes, ReadPolicies, ReadVersion, LoadFails
  <1>6. CASE UNCHANGED vars
    BY <1>6 DEF vars
  <1> QED
    BY <1>1, <1>2, <1>3, <1>4, <1>5, <1>6 DEF Next, Reload, AdminStep

LEMMA CachesSafeStable == ReadInv /\ [Next]_vars => CachesSafe'
  <1> SUFFICES ASSUME ReadInv, [Next]_vars, NEW g \in Gateways
               PROVE  SafeRead(cache[g].version, cache[g].versionAt)'
    BY DEF CachesSafe
  <1> USE DEF ReadInv
  <1>1. CASE cache'[g] = cache[g]
    <2>1. cache[g].version \in Nat /\ cache[g].versionAt \in Nat
      BY DEF TypeOK, CachedConfig
    <2>2. SafeRead(cache[g].version, cache[g].versionAt)
      BY DEF CachesSafe
    <2> DEFINE v == cache[g].version
               k == cache[g].versionAt
    <2>3. ASSUME NEW w \in Nat, NEW n \in Nat, SafeRead(w, n) PROVE SafeRead(w, n)'
      BY <2>3, SafeReadStable
    <2> QED
      BY <1>1, <2>1, <2>2, <2>3 DEF SafeRead, Published
  <1>2. ASSUME NEW l \in Loads, load[g][l].pc = "loading",
               "version" \in load[g][l].answered, cache'[g] = load[g][l].result
        PROVE  SafeRead(cache[g].version, cache[g].versionAt)'
    <2>1. load[g][l].result.version \in Nat /\ load[g][l].result.versionAt \in Nat
      BY LoadTyped DEF CachedConfig
    <2>2. SafeRead(load[g][l].result.version, load[g][l].result.versionAt)
      BY <1>2 DEF LoadsSafe
    <2>3. ASSUME NEW w \in Nat, NEW n \in Nat, SafeRead(w, n) PROVE SafeRead(w, n)'
      BY <2>3, SafeReadStable
    <2> QED
      BY <1>2, <2>1, <2>2, <2>3 DEF SafeRead, Published
  <1>3. CASE cache'[g] = EmptyConfig
    <2>1. SafeRead(0, 0)'
      BY SafeReadStable
    <2> QED
      BY <1>3, <2>1 DEF EmptyConfig, SafeRead, Published
  <1> QED
    BY <1>1, <1>2, <1>3, CacheStepEffect

LEMMA LoadsSafeStable == ReadInv /\ [Next]_vars => LoadsSafe'
  <1> SUFFICES ASSUME ReadInv, [Next]_vars, NEW g \in Gateways, NEW l \in Loads,
                      load'[g][l].pc = "loading", "version" \in load'[g][l].answered
               PROVE  SafeRead(load[g][l].result.version, load[g][l].result.versionAt)'
    BY DEF LoadsSafe
  <1> USE DEF ReadInv
  <1>1. load[g][l].result.version \in Nat /\ load[g][l].result.versionAt \in Nat
    BY LoadTyped DEF CachedConfig
  <1>2. ASSUME NEW w \in Nat, NEW n \in Nat, SafeRead(w, n) PROVE SafeRead(w, n)'
    BY <1>2, SafeReadStable
  <1>3. CASE /\ load[g][l].pc = "loading"
             /\ "version" \in load[g][l].answered
             /\ load'[g][l].result.version = load[g][l].result.version
             /\ load'[g][l].result.versionAt = load[g][l].result.versionAt
    <2>1. SafeRead(load[g][l].result.version, load[g][l].result.versionAt)
      BY <1>3 DEF LoadsSafe
    <2> QED
      BY <1>1, <1>2, <1>3, <2>1 DEF SafeRead, Published
  <1>4. CASE /\ load'[g][l].result.version \in VersionsInTable \cup {0}
             /\ IsLatest(load'[g][l].result.version)
             /\ load'[g][l].result.versionAt = Committed
             /\ UNCHANGED <<adminVars, phase, cache>>
    <2>1. SafeRead(load'[g][l].result.version, Committed)
      BY <1>4, LatestIsSafe
    <2> QED
      BY <1>4, <2>1 DEF SafeRead, Published, VersionsInTable, adminVars
  <1> QED
    BY <1>3, <1>4, LoadStepEffect

LEMMA NextReadInv == ReadInv /\ [Next]_vars => ReadInv'
  <1> SUFFICES ASSUME ReadInv, [Next]_vars PROVE ReadInv'
    OBVIOUS
  <1>1. TypeOK'
    BY NextTypeOK DEF ReadInv
  <1>2. LatestExists' /\ BumpsKnown' /\ SafeRead(0, 0)'
    BY LatestExistsStable, BumpsKnownStable, SafeReadStable DEF ReadInv
  <1>3. CachesSafe' /\ LoadsSafe'
    BY CachesSafeStable, LoadsSafeStable
  <1> QED
    BY <1>1, <1>2, <1>3 DEF ReadInv

\* Every answer of getLatest() that a reload or a cached config rests on is safe:
\* a change committed after it gets a version above it (config-cache.ts).
THEOREM ReadInvariant == Spec => []ReadInv
  BY InitReadInv, NextReadInv, PTL DEF Spec

LEMMA ReadInvHidesNothing == ReadInv => NoChangeHidden
  <1> SUFFICES ASSUME ReadInv, NEW g \in Gateways, NEW row \in configVersions,
                      VersionReadFirst(cache[g]), row.version <= cache[g].version
               PROVE  Reflects(cache[g], row)
    BY DEF NoChangeHidden
  <1>1. /\ row.version \in Nat /\ row.mutation \in Nat
        /\ cache[g] \in CachedConfig
    BY DEF ReadInv, TypeOK
  <1>2. row.mutation <= cache[g].versionAt
    BY <1>1 DEF ReadInv, CachesSafe, SafeRead, CachedConfig
  <1> QED
    BY <1>1, <1>2 DEF VersionReadFirst, Reflects, CachedConfig

\* No published change is ever hidden from a process that read its version
\* first, for any number of racing admins, failures and overlapping reloads.
THEOREM NothingHidden == Spec => []NoChangeHidden
  BY ReadInvariant, ReadInvHidesNothing, PTL

-----------------------------------------------------------------------------
(* The implementation of VersionedConfig *)

LEMMA LatestVersionIs ==
    ASSUME TypeOK, LatestExists
    PROVE  /\ LatestVersion \in Nat
           /\ IsLatest(LatestVersion)
  <1>1. PICK v \in VersionsInTable \cup {0} : IsLatest(v)
    BY DEF LatestExists, IsLatest
  <1>2. LatestVersion \in VersionsInTable \cup {0} /\ IsLatest(LatestVersion)
    BY <1>1 DEF LatestVersion
  <1> QED
    BY <1>2, LatestIsNat

LEMMA LatestUnique ==
    ASSUME TypeOK, NEW v \in VersionsInTable \cup {0}, NEW w \in VersionsInTable \cup {0},
           IsLatest(v), IsLatest(w)
    PROVE  v = w
  BY LatestIsNat DEF IsLatest

\* The latest version stays or moves up by one: bump() inserts the successor of
\* a version of the table, which is the latest one or has been overtaken.
LEMMA LatestStep ==
    ASSUME ReadInv, [Next]_vars
    PROVE  \/ LatestVersion' = LatestVersion
           \/ LatestVersion' = LatestVersion + 1 /\ UNCHANGED gatewayVars
  <1> USE DEF ReadInv
  <1>1. CASE UNCHANGED configVersions
    BY <1>1 DEF LatestVersion, VersionsInTable, IsLatest
  <1>2. ASSUME NEW row, NEW v \in VersionsInTable \cup {0}, row.version = v + 1,
               configVersions' = configVersions \cup {row}
        PROVE  LatestVersion' = LatestVersion \/ LatestVersion' = LatestVersion + 1
    <2>1. VersionsInTable' = VersionsInTable \cup {v + 1}
      BY <1>2, InsertedVersion
    <2>2. /\ LatestVersion \in Nat
          /\ LatestVersion \in VersionsInTable \cup {0}
          /\ \A w \in VersionsInTable : w <= LatestVersion
      BY LatestVersionIs DEF IsLatest
    <2>3. /\ LatestVersion' \in Nat
          /\ LatestVersion' \in VersionsInTable' \cup {0}
          /\ \A w \in VersionsInTable' : w <= LatestVersion'
      <3>1. TypeOK' /\ LatestExists'
        BY NextReadInv
      <3>2. (TypeOK /\ LatestExists => LatestVersion \in Nat /\ IsLatest(LatestVersion))'
        BY LatestVersionIs, PTL
      <3> QED
        BY <3>1, <3>2 DEF IsLatest
    <2>4. v \in Nat /\ v <= LatestVersion
      BY <2>2, LatestIsNat
    <2> QED
      BY <2>1, <2>2, <2>3, <2>4
  <1>3. ASSUME NEW a \in Admins, AdminStep(a)
        PROVE  LatestVersion' = LatestVersion \/ LatestVersion' = LatestVersion + 1
    <2> DEFINE new == [version |-> admin[a].latest + 1, mutation |-> admin[a].mutation]
    <2>1. CASE admin[a].pc = "read" /\ configVersions' = configVersions \cup {new}
      <3>1. admin[a].latest \in VersionsInTable \cup {0} /\ new.version = admin[a].latest + 1
        BY <2>1 DEF BumpsKnown, Published
      <3> QED
        BY <1>2, <2>1, <3>1
    <2> QED
      BY <1>1, <1>3, <2>1, AdminStepEffect
  <1> QED
    BY <1>1, <1>3, StepKinds DEF adminVars

LEMMA CacheStepFrame ==
    ASSUME TypeOK, [Next]_vars
    PROVE  \/ UNCHANGED cache
           \/ \E g \in Gateways : cache' = [cache EXCEPT ![g] = cache'[g]]
  <1> USE DEF TypeOK
  <1>1. ASSUME NEW a \in Admins, AdminStep(a) PROVE UNCHANGED cache
    BY <1>1 DEF AdminStep, Mutate, BumpReadLatest, BumpInsert, BumpFails, gatewayVars
  <1>2. ASSUME NEW h \in Gateways, Exit(h)
        PROVE  cache' = [cache EXCEPT ![h] = cache'[h]]
    BY <1>2 DEF Exit
  <1>3. ASSUME NEW h \in Gateways, NEW k \in Loads, Swap(h, k)
        PROVE  cache' = [cache EXCEPT ![h] = cache'[h]]
    BY <1>3 DEF Swap
  <1>4. ASSUME NEW h \in Gateways, Boot(h) PROVE UNCHANGED cache
    BY <1>4 DEF Boot
  <1>5. ASSUME NEW h \in Gateways, NEW k \in Loads,
               \/ Tick(h, k) \/ CheckVersion(h, k) \/ ReadRoutes(h, k)
               \/ ReadPolicies(h, k) \/ ReadVersion(h, k) \/ LoadFails(h, k)
        PROVE  UNCHANGED cache
    BY <1>5 DEF Tick, CheckVersion, ReadRoutes, ReadPolicies, ReadVersion, LoadFails
  <1>6. CASE UNCHANGED vars
    BY <1>6 DEF vars
  <1> QED
    BY <1>1, <1>2, <1>3, <1>4, <1>5, <1>6 DEF Next, Reload, AdminStep

LEMMA InitPublication == Init => Publication!Init
  <1> SUFFICES ASSUME Init PROVE Publication!Init
    OBVIOUS
  <1>1. VersionsInTable = {}
    BY DEF Init, VersionsInTable
  <1>2. LatestVersion = 0
    BY <1>1 DEF LatestVersion, IsLatest
  <1>3. [g \in Gateways |-> cache[g].version] = [g \in Gateways |-> 0]
    BY DEF Init, EmptyConfig
  <1> QED
    BY <1>2, <1>3 DEF Publication!Init

LEMMA NextPublication ==
    ReadInv /\ [Next]_vars => [Publication!Next]_(Publication!vars)
  <1> SUFFICES ASSUME ReadInv, [Next]_vars
               PROVE  [Publication!Next]_(Publication!vars)
    OBVIOUS
  <1> DEFINE adopted == [g \in Gateways |-> cache[g].version]
  <1>1. CASE LatestVersion' = LatestVersion + 1 /\ UNCHANGED gatewayVars
    <2>1. Publication!Publish
      BY <1>1 DEF Publication!Publish, gatewayVars
    <2> QED
      BY <2>1 DEF Publication!Next
  <1>2. CASE LatestVersion' = LatestVersion /\ UNCHANGED cache
    BY <1>2 DEF Publication!vars
  <1>3. CASE LatestVersion' = LatestVersion /\ ~UNCHANGED cache
    <2>1. PICK g \in Gateways : cache' = [cache EXCEPT ![g] = cache'[g]]
      BY <1>3, CacheStepFrame DEF ReadInv
    <2>2. cache'[g].version \in VersionsInTable' \cup {0}
      BY NextReadInv DEF ReadInv, CachesSafe, SafeRead, Published
    <2>3. TypeOK' /\ LatestExists'
      BY NextReadInv DEF ReadInv
    <2>4. (TypeOK /\ LatestExists => LatestVersion \in Nat /\ IsLatest(LatestVersion))'
      BY LatestVersionIs, PTL
    <2>5. cache'[g].version \in Nat
      BY <2>3 DEF TypeOK, CachedConfig
    <2>6. cache'[g].version \in 0 .. LatestVersion
      BY <1>3, <2>2, <2>3, <2>4, <2>5 DEF IsLatest
    <2>7. [h \in Gateways |-> cache[h].version]'
              = [adopted EXCEPT ![g] = cache'[g].version]
      BY <2>1 DEF ReadInv, TypeOK
    <2>8. Publication!Adopt(g)
      BY <1>3, <2>6, <2>7 DEF Publication!Adopt
    <2> QED
      BY <2>8 DEF Publication!Next
  <1> QED
    BY <1>1, <1>2, <1>3, LatestStep

\* Config hot reload implements versioned publication: the latest version moves
\* up one at a time and no process ever claims a version nobody published.
THEOREM Implements == Spec => ImplementsVersionedConfig
  BY ReadInvariant, InitPublication, NextPublication, PTL
     DEF Spec, ImplementsVersionedConfig, Publication!Spec

-----------------------------------------------------------------------------
(* The versions of the table *)

\* bump() inserts the successor of a version of the table or of 0, so that it
\* repeats a version or adds the next one.
LEMMA GapFreeInsert ==
    ASSUME ReadInv, VersionsGapFree, [Next]_vars,
           NEW row, NEW v \in VersionsInTable \cup {0}, row.version = v + 1,
           configVersions' = configVersions \cup {row}
    PROVE  VersionsGapFree'
  <1>1. VersionsInTable' = VersionsInTable \cup {v + 1}
    BY InsertedVersion
  <1>2. LatestVersion \in Nat /\ VersionsInTable = 1 .. LatestVersion
    BY LatestVersionIs DEF ReadInv, VersionsGapFree
  <1>3. v \in Nat /\ v <= LatestVersion
    BY <1>2
  <1>4. /\ LatestVersion' \in Nat
        /\ LatestVersion' \in VersionsInTable' \cup {0}
        /\ \A w \in VersionsInTable' : w <= LatestVersion'
    <2>1. TypeOK' /\ LatestExists'
      BY NextReadInv DEF ReadInv
    <2>2. (TypeOK /\ LatestExists => LatestVersion \in Nat /\ IsLatest(LatestVersion))'
      BY LatestVersionIs, PTL
    <2> QED
      BY <2>1, <2>2 DEF IsLatest
  <1>5. CASE v = LatestVersion
    <2>1. VersionsInTable' = 1 .. LatestVersion + 1
      BY <1>1, <1>2, <1>5
    <2>2. LatestVersion' = LatestVersion + 1
      BY <1>2, <1>4, <2>1
    <2> QED
      BY <2>1, <2>2 DEF VersionsGapFree
  <1>6. CASE v < LatestVersion
    <2>1. VersionsInTable' = 1 .. LatestVersion
      BY <1>1, <1>2, <1>3, <1>6
    <2>2. LatestVersion \in VersionsInTable'
      BY <1>2, <1>3, <1>6, <2>1
    <2>3. LatestVersion' = LatestVersion
      BY <1>2, <1>4, <2>1, <2>2
    <2> QED
      BY <2>1, <2>3 DEF VersionsGapFree
  <1> QED
    BY <1>2, <1>3, <1>5, <1>6

LEMMA GapFreeStable ==
    ASSUME ReadInv, VersionsGapFree, [Next]_vars
    PROVE  VersionsGapFree'
  <1>1. CASE UNCHANGED configVersions
    BY <1>1 DEF VersionsGapFree, LatestVersion, VersionsInTable, IsLatest
  <1>2. ASSUME NEW a \in Admins, AdminStep(a) PROVE VersionsGapFree'
    <2> DEFINE new == [version |-> admin[a].latest + 1, mutation |-> admin[a].mutation]
    <2>1. CASE admin[a].pc = "read" /\ configVersions' = configVersions \cup {new}
      <3>1. admin[a].latest \in VersionsInTable \cup {0} /\ new.version = admin[a].latest + 1
        BY <2>1 DEF ReadInv, BumpsKnown, Published
      <3> QED
        BY <2>1, <3>1, GapFreeInsert
    <2> QED
      BY <1>1, <1>2, <2>1, AdminStepEffect DEF ReadInv
  <1> QED
    BY <1>1, <1>2, StepKinds DEF adminVars

\* However bumps race and fail, the versions of the table are those from 1 to
\* the latest one (config-version.repository.ts).
THEOREM VersionsHaveNoGap == Spec => []VersionsGapFree
  <1>1. Init => VersionsGapFree
    <2> SUFFICES ASSUME Init PROVE VersionsGapFree
      OBVIOUS
    <2>1. VersionsInTable = {}
      BY DEF Init, VersionsInTable
    <2>2. LatestVersion = 0
      <3>1. ReadInv
        BY InitReadInv
      <3>2. IsLatest(LatestVersion)
        BY <3>1, LatestVersionIs DEF ReadInv
      <3> QED
        BY <2>1, <3>2 DEF IsLatest
    <2> QED
      BY <2>1, <2>2 DEF VersionsGapFree
  <1> QED
    BY <1>1, ReadInvariant, GapFreeStable, PTL DEF Spec

-----------------------------------------------------------------------------
(* A process whose reloads do not overlap *)

\* The answer a reload holds is not older than the config it will replace.
LoadsAdvance ==
    \A g \in Gateways : \A l \in Loads :
        load[g][l].pc = "loading" /\ "version" \in load[g][l].answered =>
            load[g][l].result.version >= cache[g].version

LEMMA LoadsAdvanceStable ==
    ASSUME NEW only, Loads = {only}, ReadInv, LoadsAdvance, [Next]_vars
    PROVE  LoadsAdvance'
  <1> SUFFICES ASSUME NEW g \in Gateways, NEW l \in Loads,
                      load'[g][l].pc = "loading", "version" \in load'[g][l].answered
               PROVE  load'[g][l].result.version >= cache'[g].version
    BY DEF LoadsAdvance
  <1> USE DEF ReadInv
  <1>1. cache[g].version \in Nat /\ load'[g][l].result.version \in Nat
    <2>1. TypeOK'
      BY NextTypeOK
    <2>2. load'[g][l] \in LoadState
      BY <2>1 DEF TypeOK
    <2>3. load'[g][l].result \in CachedConfig /\ cache[g] \in CachedConfig
      BY <2>2 DEF LoadState, TypeOK
    <2> QED
      BY <2>3 DEF CachedConfig
  <1>2. CASE cache'[g] = cache[g]
    <2>1. CASE /\ load[g][l].pc = "loading"
               /\ "version" \in load[g][l].answered
               /\ load'[g][l].result.version = load[g][l].result.version
      BY <1>2, <2>1 DEF LoadsAdvance
    <2>2. CASE IsLatest(load'[g][l].result.version)
      <3>1. cache[g].version \in VersionsInTable \cup {0}
        BY DEF CachesSafe, SafeRead, Published
      <3> QED
        BY <1>1, <1>2, <2>2, <3>1 DEF IsLatest
    <2> QED
      BY <2>1, <2>2, LoadStepEffect
  <1>3. CASE cache'[g] = EmptyConfig
    BY <1>1, <1>3 DEF EmptyConfig
  <1>4. ASSUME NEW k \in Loads, load' = [load EXCEPT ![g][k] = FreeLoad] PROVE FALSE
    <2>1. load'[g][l] = FreeLoad
      BY <1>4 DEF TypeOK
    <2> QED
      BY <2>1 DEF FreeLoad
  <1> QED
    BY <1>2, <1>3, <1>4, CacheStepEffect

\* With one reload slot, no reload ever replaces the config by an older one.
THEOREM SerialReloadsAreMonotone ==
    ASSUME NEW only, Loads = {only}
    PROVE  Spec => CachedVersionMonotone
  <1>1. Init => LoadsAdvance
    BY DEF Init, LoadsAdvance, FreeLoad
  <1>2. ReadInv /\ LoadsAdvance /\ [Next]_vars => LoadsAdvance'
    BY LoadsAdvanceStable
  <1>3. ReadInv /\ LoadsAdvance /\ [Next]_vars =>
            [\A g \in Gateways :
                cache'[g].version >= cache[g].version \/ phase'[g] = "down"]_vars
    <2> SUFFICES ASSUME ReadInv, LoadsAdvance, [Next]_vars, NEW g \in Gateways
                 PROVE  cache'[g].version >= cache[g].version \/ phase'[g] = "down"
      OBVIOUS
    <2>1. cache[g].version \in Nat
      BY DEF ReadInv, TypeOK, CachedConfig
    <2> QED
      BY <2>1, CacheStepEffect DEF ReadInv, LoadsAdvance
  <1> QED
    BY <1>1, <1>2, <1>3, ReadInvariant, PTL DEF Spec, CachedVersionMonotone

=============================================================================
