---------------------------- MODULE DeploymentProofs ----------------------------
(***************************************************************************)
(* Theorems about Deployment for every number of runners, migrations,      *)
(* requests, clients and signals: the ledger of migrations is true, the    *)
(* gateway serves only over a complete schema, and a shutdown is clean.    *)
(***************************************************************************)
EXTENDS Deployment, SequenceTheorems, FiniteSetTheorems, TLAPS

-----------------------------------------------------------------------------
(* The migrations. A runner looks at no version beyond the first that is not
   recorded; in front of its COMMIT it is exactly there; and PostgreSQL keeps
   two transactions of one version apart.                                    *)

Recorded == Len(ledger)

NotAhead == \A r \in Runners : Active(r) => runner[r].version <= Recorded + 2

CommitsNext == \A r \in Runners : At(r, "committing") => runner[r].version = Recorded + 2

Serialised ==
    \A r, other \in Runners :
        InTransaction(r) /\ InTransaction(other) /\ runner[r].version = runner[other].version
            => r = other

DoneIsComplete == \A r \in Runners : At(r, "done") => Recorded + 1 >= LastVersion

MigrationsInv ==
    /\ MigrationsTypeOK
    /\ LedgerIsTrue
    /\ NotAhead
    /\ CommitsNext
    /\ Serialised
    /\ DoneIsComplete

LEMMA LedgerTyped ==
    ASSUME MigrationsTypeOK
    PROVE  /\ ledger \in Seq(Versions)
           /\ Recorded \in Nat
           /\ Versions \subseteq Nat
           /\ 2 \in Versions
           /\ LastVersion \in Nat
  BY MigrationsAssumption DEF MigrationsTypeOK, Recorded, Versions

\* The ledger holds the versions up to its length, and no others.
LEMMA RecordedVersions ==
    ASSUME MigrationsTypeOK, LedgerIsTrue
    PROVE  \A v \in Versions : v \in Range(ledger) <=> v <= Recorded + 1
  <1> SUFFICES ASSUME NEW v \in Versions
               PROVE  v \in Range(ledger) <=> v <= Recorded + 1
    OBVIOUS
  <1>1. v \in Nat /\ v >= 2
    BY MigrationsAssumption DEF Versions
  <1>2. \A i \in 1 .. Recorded : ledger[i] = i + 1
    BY DEF LedgerIsTrue, Recorded
  <1>3. Range(ledger) = {ledger[i] : i \in 1 .. Recorded}
    BY LedgerTyped DEF Range, Recorded
  <1>4. ASSUME v <= Recorded + 1 PROVE v \in Range(ledger)
    <2>1. v - 1 \in 1 .. Recorded /\ ledger[v - 1] = v
      BY <1>1, <1>2, <1>4, LedgerTyped
    <2> QED
      BY <2>1, <1>3
  <1>5. ASSUME v \in Range(ledger) PROVE v <= Recorded + 1
    BY <1>2, <1>3, <1>5, LedgerTyped
  <1> QED
    BY <1>4, <1>5

\* A ledger as long as the list of migrations is a complete schema.
LEMMA LongLedgerIsComplete ==
    ASSUME MigrationsTypeOK, LedgerIsTrue, Recorded + 1 >= LastVersion
    PROVE  Complete
  <1>1. \A v \in Versions : v <= Recorded + 1
    BY LedgerTyped DEF Versions
  <1>2. \A v \in Versions : v \in Range(ledger)
    BY <1>1, RecordedVersions
  <1> QED
    BY <1>2 DEF Complete, LedgerIsTrue, MigrationsTypeOK

-----------------------------------------------------------------------------
(* Types of the migrations *)

LEMMA RunnerTyped ==
    ASSUME MigrationsTypeOK, NEW r \in Runners
    PROVE  /\ runner[r] \in Runner
           /\ runner[r].version \in Versions
           /\ runner[r].step \in Steps
  BY DEF MigrationsTypeOK, Runner

LEMMA EndedTyped ==
    ASSUME NEW how \in {"done", "failed"}
    PROVE  /\ NotRunning \in Runner
           /\ Ended(how) \in Runner
           /\ Ended(how).step = how
           /\ NotRunning.step = "off"
  <1>1. 2 \in Versions
    BY MigrationsAssumption DEF Versions
  <1> QED
    BY <1>1 DEF NotRunning, Ended, Runner, Steps

\* What a step makes of the runner that takes it.
LEMMA MoveEffect ==
    ASSUME MigrationsTypeOK, NEW r \in Runners, NEW step \in Steps, Move(r, step)
    PROVE  /\ runner' \in [Runners -> Runner]
           /\ runner'[r].step = step
           /\ runner'[r].version = runner[r].version
           /\ \A other \in Runners \ {r} : runner'[other] = runner[other]
  BY DEF Move, MigrationsTypeOK, Runner

LEMMA FailEffect ==
    ASSUME MigrationsTypeOK, NEW r \in Runners, Fail(r)
    PROVE  /\ runner' \in [Runners -> Runner]
           /\ runner'[r].step = "failed"
           /\ \A other \in Runners \ {r} : runner'[other] = runner[other]
  BY EndedTyped DEF Fail, MigrationsTypeOK

LEMMA NextVersionEffect ==
    ASSUME MigrationsTypeOK, NEW r \in Runners, NextVersion(r)
    PROVE  /\ runner' \in [Runners -> Runner]
           /\ \/ /\ runner[r].version < LastVersion
                 /\ runner'[r].step = "checking"
                 /\ runner'[r].version = runner[r].version + 1
              \/ runner[r].version = LastVersion /\ runner'[r].step = "done"
           /\ \A other \in Runners \ {r} : runner'[other] = runner[other]
  <1>1. runner[r] \in Runner /\ runner[r].version \in 2 .. LastVersion /\ LastVersion \in Nat
    BY RunnerTyped, MigrationsAssumption DEF Versions
  <1> DEFINE next == [step |-> "checking", version |-> runner[r].version + 1,
                      found |-> FALSE]
  <1>2. CASE runner[r].version < LastVersion
    <2>1. next \in Runner /\ next.step = "checking" /\ next.version = runner[r].version + 1
      BY <1>1, <1>2 DEF Runner, Versions, Steps
    <2>2. runner' = [runner EXCEPT ![r] = next]
      BY <1>2 DEF NextVersion
    <2> HIDE DEF next
    <2>3. /\ runner' \in [Runners -> Runner]
          /\ runner'[r] = next
          /\ \A other \in Runners \ {r} : runner'[other] = runner[other]
      BY <2>1, <2>2 DEF MigrationsTypeOK
    <2> QED
      BY <1>2, <2>1, <2>3
  <1>3. CASE runner[r].version = LastVersion
    <2>0. ~(runner[r].version < LastVersion)
      BY <1>1, <1>3
    <2>1. runner' = [runner EXCEPT ![r] = Ended("done")]
      BY <2>0 DEF NextVersion
    <2> QED
      BY <1>3, <2>1, EndedTyped DEF MigrationsTypeOK
  <1> QED
    BY <1>1, <1>2, <1>3

-----------------------------------------------------------------------------
(* Steps of a runner. Of the others a step needs only that they stay as they
   were; what it does to the ledger it does by a commit.                      *)

Others(r) == \A other \in Runners \ {r} : runner'[other] = runner[other]

\* The ledger stays, and the runner that moves keeps its part of the invariant.
LEMMA QuietStep ==
    ASSUME MigrationsInv, NEW r \in Runners,
           runner' \in [Runners -> Runner], Others(r),
           ledgerExists' \in BOOLEAN, ledger' = ledger, schema' = schema,
           Active(r)' => runner'[r].version <= Recorded + 2,
           At(r, "committing")' => runner'[r].version = Recorded + 2,
           InTransaction(r)' =>
               \A other \in Runners \ {r} :
                   InTransaction(other) => runner[other].version # runner'[r].version,
           At(r, "done")' => Recorded + 1 >= LastVersion
    PROVE  MigrationsInv'
  <1>1. MigrationsTypeOK' /\ LedgerIsTrue' /\ Recorded' = Recorded
    BY DEF MigrationsInv, MigrationsTypeOK, LedgerIsTrue, Recorded
  <1>2. NotAhead'
    BY <1>1 DEF MigrationsInv, NotAhead, Active, Others
  <1>3. CommitsNext'
    BY <1>1 DEF MigrationsInv, CommitsNext, At, Others
  <1>4. Serialised'
    BY DEF MigrationsInv, Serialised, InTransaction, Others
  <1>5. DoneIsComplete'
    BY <1>1 DEF MigrationsInv, DoneIsComplete, At, Others
  <1> QED
    BY <1>1, <1>2, <1>3, <1>4, <1>5 DEF MigrationsInv

\* A runner that leaves the loop without an end of its own is out of it all.
LEMMA FailKeeps ==
    ASSUME MigrationsInv, NEW r \in Runners, Fail(r),
           ledgerExists' \in BOOLEAN, ledger' = ledger, schema' = schema
    PROVE  MigrationsInv'
  <1>1. /\ runner' \in [Runners -> Runner]
        /\ runner'[r].step = "failed"
        /\ Others(r)
    BY FailEffect DEF MigrationsInv, Others
  <1> QED
    BY <1>1, QuietStep DEF Active, At, InTransaction

\* On to the next version when the ledger holds this one.
LEMMA NextVersionKeeps ==
    ASSUME MigrationsInv, NEW r \in Runners, NextVersion(r),
           runner[r].version \in Range(ledger),
           UNCHANGED <<ledgerExists, ledger, schema>>
    PROVE  MigrationsInv'
  <1>1. runner[r].version <= Recorded + 1 /\ runner[r].version \in Nat
    BY RecordedVersions, RunnerTyped, LedgerTyped DEF MigrationsInv
  <1>2. /\ runner' \in [Runners -> Runner]
        /\ Others(r)
        /\ \/ /\ runner'[r].step = "checking"
              /\ runner'[r].version = runner[r].version + 1
           \/ runner[r].version = LastVersion /\ runner'[r].step = "done"
    BY NextVersionEffect DEF MigrationsInv, Others
  <1>3. Recorded \in Nat /\ ledgerExists' \in BOOLEAN
    BY LedgerTyped DEF MigrationsInv, MigrationsTypeOK
  <1>4. Active(r)' => runner'[r].version <= Recorded + 2
    BY <1>1, <1>2, <1>3 DEF Active
  <1>5. ~At(r, "committing")' /\ ~InTransaction(r)'
    BY <1>2 DEF At, InTransaction
  <1>6. At(r, "done")' => Recorded + 1 >= LastVersion
    BY <1>1, <1>2, <1>3 DEF At
  <1> QED
    BY <1>2, <1>3, <1>4, <1>5, <1>6, QuietStep

\* A runner that is killed or whose container is reset.
LEMMA StopKeeps ==
    ASSUME MigrationsInv, NEW r \in Runners,
           runner' = [runner EXCEPT ![r] = NotRunning],
           UNCHANGED <<ledgerExists, ledger, schema>>
    PROVE  MigrationsInv'
  <1>1. /\ runner' \in [Runners -> Runner]
        /\ runner'[r] = NotRunning
        /\ Others(r)
        /\ ledgerExists' \in BOOLEAN
    BY EndedTyped DEF MigrationsInv, MigrationsTypeOK, Others
  <1>2. runner'[r].step = "off"
    BY <1>1, EndedTyped
  <1> QED
    BY <1>1, <1>2, QuietStep DEF Active, At, InTransaction

LEMMA LaunchKeeps ==
    ASSUME MigrationsInv, NEW r \in Runners, Launch(r) PROVE MigrationsInv'
  <1> DEFINE begun == [step |-> IF database = "down" THEN "failed" ELSE "creating",
                       version |-> 2,
                       found |-> ledgerExists]
  <1>1. begun \in Runner /\ begun.step \in {"creating", "failed"} /\ begun.version = 2
    BY LedgerTyped DEF MigrationsInv, MigrationsTypeOK, Runner, Steps
  <1>2. runner' = [runner EXCEPT ![r] = begun] /\ UNCHANGED <<ledgerExists, ledger, schema>>
    BY DEF Launch
  <1> HIDE DEF begun
  <1>3. /\ runner' \in [Runners -> Runner]
        /\ runner'[r] = begun
        /\ Others(r)
        /\ ledgerExists' \in BOOLEAN
    BY <1>1, <1>2 DEF MigrationsInv, MigrationsTypeOK, Others
  <1>4. Active(r)' => runner'[r].version <= Recorded + 2
    BY <1>1, <1>3, LedgerTyped DEF MigrationsInv
  <1>5. ~At(r, "committing")' /\ ~InTransaction(r)' /\ ~At(r, "done")'
    BY <1>1, <1>3 DEF At, InTransaction
  <1> QED
    BY <1>2, <1>3, <1>4, <1>5, QuietStep

\* To another step of the same version, outside of the transaction.
LEMMA MoveKeeps ==
    ASSUME MigrationsInv, NEW r \in Runners, NEW step \in {"checking", "applying"},
           Active(r), Move(r, step), ledgerExists' \in BOOLEAN, ledger' = ledger,
           schema' = schema
    PROVE  MigrationsInv'
  <1>1. /\ runner' \in [Runners -> Runner]
        /\ runner'[r].step = step
        /\ runner'[r].version = runner[r].version
        /\ Others(r)
    BY MoveEffect DEF MigrationsInv, Others, Steps
  <1>2. runner'[r].version <= Recorded + 2
    BY <1>1 DEF MigrationsInv, NotAhead
  <1> QED
    BY <1>1, <1>2, QuietStep DEF At, InTransaction

LEMMA CreateLedgerKeeps ==
    ASSUME MigrationsInv, NEW r \in Runners, CreateLedger(r) PROVE MigrationsInv'
  <1>1. ledgerExists' \in BOOLEAN /\ ledger' = ledger /\ schema' = schema /\ Active(r)
    BY DEF CreateLedger, Active, At
  <1>2. CASE runner' = [runner EXCEPT ![r].step = "checking", ![r].found = FALSE]
    <2>1. /\ runner' \in [Runners -> Runner]
          /\ runner'[r].step = "checking"
          /\ runner'[r].version = runner[r].version
          /\ Others(r)
      BY <1>2 DEF MigrationsInv, MigrationsTypeOK, Runner, Steps, Others
    <2>2. runner'[r].version <= Recorded + 2
      BY <1>1, <2>1 DEF MigrationsInv, NotAhead
    <2> QED
      BY <1>1, <2>1, <2>2, QuietStep DEF At, InTransaction
  <1>3. CASE Fail(r)
    BY <1>1, <1>3, FailKeeps
  <1> QED
    BY <1>2, <1>3 DEF CreateLedger

LEMMA CheckVersionKeeps ==
    ASSUME MigrationsInv, NEW r \in Runners, CheckVersion(r) PROVE MigrationsInv'
  <1>1. UNCHANGED <<ledgerExists, ledger, schema>> /\ ledgerExists' \in BOOLEAN /\ Active(r)
    BY DEF CheckVersion, Active, At, MigrationsInv, MigrationsTypeOK
  <1>2. CASE runner[r].version \in Range(ledger)
    <2>1. NextVersion(r)
      BY <1>2 DEF CheckVersion
    <2> QED
      BY <1>1, <1>2, <2>1, NextVersionKeeps
  <1>3. CASE runner[r].version \notin Range(ledger)
    <2>1. Move(r, "applying")
      BY <1>3 DEF CheckVersion
    <2> QED
      BY <1>1, <2>1, MoveKeeps
  <1> QED
    BY <1>2, <1>3

\* The transaction opens: no other of the same version is open.
LEMMA ApplyKeeps ==
    ASSUME MigrationsInv, NEW r \in Runners, Apply(r) PROVE MigrationsInv'
  <1>1. UNCHANGED <<ledgerExists, ledger, schema>> /\ ledgerExists' \in BOOLEAN /\ Active(r)
    BY DEF Apply, Active, At, MigrationsInv, MigrationsTypeOK
  <1>2. CASE Fail(r)
    BY <1>1, <1>2, FailKeeps
  <1>3. CASE Move(r, "recording")
    <2>1. /\ runner' \in [Runners -> Runner]
          /\ runner'[r].step = "recording"
          /\ runner'[r].version = runner[r].version
          /\ Others(r)
      BY <1>3, MoveEffect DEF MigrationsInv, Others, Steps
    <2>2. runner'[r].version <= Recorded + 2
      BY <1>1, <2>1 DEF MigrationsInv, NotAhead
    <2>3. \A other \in Runners \ {r} :
              InTransaction(other) => runner[other].version # runner'[r].version
      BY <2>1 DEF Apply
    <2>4. ~At(r, "committing")' /\ ~At(r, "done")'
      BY <2>1 DEF At
    <2> QED
      BY <1>1, <2>1, <2>2, <2>3, <2>4, QuietStep
  <1> QED
    BY <1>2, <1>3 DEF Apply

\* The row is new, so its version is the next one.
LEMMA RecordKeeps ==
    ASSUME MigrationsInv, NEW r \in Runners, Record(r) PROVE MigrationsInv'
  <1>1. UNCHANGED <<ledgerExists, ledger, schema>> /\ ledgerExists' \in BOOLEAN
    BY DEF Record, MigrationsInv, MigrationsTypeOK
  <1>2. Active(r) /\ InTransaction(r)
    BY DEF Record, Active, At, InTransaction
  <1>3. CASE runner[r].version \in Range(ledger)
    <2>1. Fail(r)
      BY <1>3 DEF Record
    <2> QED
      BY <1>1, <2>1, FailKeeps
  <1>4. CASE runner[r].version \notin Range(ledger)
    <2>1. Move(r, "committing")
      BY <1>4 DEF Record
    <2>2. /\ runner' \in [Runners -> Runner]
          /\ runner'[r].step = "committing"
          /\ runner'[r].version = runner[r].version
          /\ Others(r)
      BY <2>1, MoveEffect DEF MigrationsInv, Others, Steps
    <2>3. runner[r].version \in Nat /\ Recorded \in Nat
      BY RunnerTyped, LedgerTyped DEF MigrationsInv
    <2>4. ~(runner[r].version <= Recorded + 1)
      BY <1>4, RecordedVersions, RunnerTyped DEF MigrationsInv
    <2>5. runner[r].version <= Recorded + 2
      BY <1>2 DEF MigrationsInv, NotAhead
    <2>6. runner'[r].version = Recorded + 2
      BY <2>2, <2>3, <2>4, <2>5
    <2>7. \A other \in Runners \ {r} :
              InTransaction(other) => runner[other].version # runner'[r].version
      BY <1>2, <2>2 DEF MigrationsInv, Serialised
    <2>8. ~At(r, "done")'
      BY <2>2 DEF At
    <2> QED
      BY <1>1, <2>2, <2>3, <2>6, <2>7, <2>8, QuietStep
  <1> QED
    BY <1>3, <1>4

-----------------------------------------------------------------------------
(* The commit *)

\* A commit makes the ledger longer by the next version, and no other runner is
\* about to commit.
LEMMA CommitEffect ==
    ASSUME MigrationsInv, NEW r \in Runners, At(r, "committing"), Committed(r)
    PROVE  /\ ledger' \in Seq(Versions)
           /\ schema' \subseteq Versions
           /\ LedgerIsTrue'
           /\ Recorded' = Recorded + 1
           /\ \A other \in Runners \ {r} : ~At(other, "committing")
  <1> DEFINE v == runner[r].version
  <1>1. v \in Versions /\ v = Recorded + 2
    BY RunnerTyped DEF MigrationsInv, CommitsNext
  <1>2. ledger \in Seq(Versions) /\ Recorded \in Nat /\ Recorded = Len(ledger)
    BY LedgerTyped DEF MigrationsInv, Recorded
  <1>3. ledger' = Append(ledger, v) /\ schema' = schema \cup {v}
    BY DEF Committed
  <1> HIDE DEF v
  <1>4. /\ ledger' \in Seq(Versions)
        /\ Len(ledger') = Len(ledger) + 1
        /\ \A i \in 1 .. Len(ledger) : ledger'[i] = ledger[i]
        /\ ledger'[Len(ledger) + 1] = v
    BY <1>1, <1>2, <1>3, AppendProperties
  <1>5. Recorded' = Recorded + 1
    BY <1>2, <1>4 DEF Recorded
  <1>6. \A i \in 1 .. Len(ledger) : ledger[i] = i + 1
    BY DEF MigrationsInv, LedgerIsTrue
  <1>7. \A i \in 1 .. Len(ledger') : ledger'[i] = i + 1
    BY <1>1, <1>2, <1>4, <1>6
  <1>8. Range(ledger') = Range(ledger) \cup {v}
    <2>1. Range(ledger') = {ledger'[i] : i \in 1 .. Len(ledger) + 1}
      BY <1>4 DEF Range
    <2>2. Range(ledger) = {ledger[i] : i \in 1 .. Len(ledger)}
      BY <1>2 DEF Range
    <2> QED
      BY <1>2, <1>4, <2>1, <2>2
  <1>9. schema' = Range(ledger')
    BY <1>3, <1>8 DEF MigrationsInv, LedgerIsTrue
  <1>10. schema' \subseteq Versions
    BY <1>1, <1>3 DEF MigrationsInv, MigrationsTypeOK
  <1>11. ASSUME NEW other \in Runners \ {r} PROVE ~At(other, "committing")
    <2>1. At(other, "committing") => runner[other].version = v
      BY <1>1 DEF MigrationsInv, CommitsNext
    <2> QED
      BY <2>1 DEF MigrationsInv, Serialised, InTransaction, At, v
  <1> QED
    BY <1>4, <1>5, <1>7, <1>9, <1>10, <1>11 DEF LedgerIsTrue

LEMMA CommitKeeps ==
    ASSUME MigrationsInv, NEW r \in Runners, Commit(r) PROVE MigrationsInv'
  <1>1. /\ At(r, "committing") /\ Committed(r) /\ NextVersion(r)
        /\ ledgerExists' = ledgerExists
    BY DEF Commit
  <1>2. /\ ledger' \in Seq(Versions)
        /\ schema' \subseteq Versions
        /\ LedgerIsTrue'
        /\ Recorded' = Recorded + 1
        /\ \A other \in Runners \ {r} : ~At(other, "committing")
    BY <1>1, CommitEffect
  <1>3. /\ runner' \in [Runners -> Runner]
        /\ Others(r)
        /\ \/ /\ runner'[r].step = "checking"
              /\ runner'[r].version = runner[r].version + 1
           \/ runner[r].version = LastVersion /\ runner'[r].step = "done"
    BY <1>1, NextVersionEffect DEF MigrationsInv, Others
  <1>4. runner[r].version = Recorded + 2 /\ Recorded \in Nat
    BY <1>1, LedgerTyped DEF MigrationsInv, CommitsNext
  <1>5. MigrationsTypeOK'
    BY <1>1, <1>2, <1>3 DEF MigrationsInv, MigrationsTypeOK
  <1>6. NotAhead'
    <2>1. Active(r)' => runner'[r].version <= Recorded' + 2
      BY <1>2, <1>3, <1>4 DEF Active
    <2>2. ASSUME NEW other \in Runners \ {r}
          PROVE  Active(other)' => runner'[other].version <= Recorded' + 2
      <3>1. Active(other) => runner[other].version <= Recorded + 2
        BY DEF MigrationsInv, NotAhead
      <3>2. runner[other].version \in Nat
        BY RunnerTyped, LedgerTyped DEF MigrationsInv
      <3> QED
        BY <1>2, <1>3, <1>4, <3>1, <3>2 DEF Others, Active
    <2> QED
      BY <2>1, <2>2 DEF NotAhead
  <1>7. CommitsNext'
    BY <1>2, <1>3 DEF CommitsNext, At, Others
  <1>8. Serialised'
    <2>1. ~InTransaction(r)'
      BY <1>3 DEF InTransaction
    <2> QED
      BY <1>3, <2>1 DEF Serialised, InTransaction, Others, MigrationsInv
  <1>9. DoneIsComplete'
    <2>1. At(r, "done")' => Recorded' + 1 >= LastVersion
      BY <1>2, <1>3, <1>4 DEF At
    <2>2. ASSUME NEW other \in Runners \ {r}
          PROVE  At(other, "done")' => Recorded' + 1 >= LastVersion
      <3>1. At(other, "done") => Recorded + 1 >= LastVersion
        BY DEF MigrationsInv, DoneIsComplete
      <3> QED
        BY <1>2, <1>3, <1>4, <3>1, LedgerTyped DEF Others, At, MigrationsInv
    <2> QED
      BY <2>1, <2>2 DEF DoneIsComplete
  <1> QED
    BY <1>2, <1>5, <1>6, <1>7, <1>8, <1>9 DEF MigrationsInv

\* PostgreSQL stops: no runner is active, whether or not a commit took effect.
LEMMA LoseConnectionsKeeps ==
    ASSUME MigrationsInv, LoseConnections PROVE MigrationsInv'
  <1>1. /\ runner' = [r \in Runners |-> IF Active(r) THEN Ended("failed") ELSE runner[r]]
        /\ ledgerExists' = ledgerExists
    BY DEF LoseConnections
  <1>2. /\ runner' \in [Runners -> Runner]
        /\ \A r \in Runners : ~Active(r)'
        /\ \A r \in Runners : At(r, "done")' => At(r, "done")
    <2>1. ASSUME NEW r \in Runners
          PROVE  runner'[r] \in Runner /\ ~Active(r)' /\ (At(r, "done")' => At(r, "done"))
      <3>1. CASE Active(r)
        <4>1. runner'[r] = Ended("failed")
          BY <1>1, <3>1
        <4> QED
          BY <4>1, EndedTyped DEF Active, At
      <3>2. CASE ~Active(r)
        <4>1. runner'[r] = runner[r]
          BY <1>1, <3>2
        <4> QED
          BY <3>2, <4>1, RunnerTyped DEF Active, At, MigrationsInv
      <3> QED
        BY <3>1, <3>2
    <2> QED
      BY <1>1, <2>1
  <1>3. /\ ledger' \in Seq(Versions)
        /\ schema' \subseteq Versions
        /\ LedgerIsTrue'
        /\ Recorded' = Recorded \/ Recorded' = Recorded + 1
    <2>1. CASE UNCHANGED <<ledger, schema>>
      BY <2>1 DEF MigrationsInv, MigrationsTypeOK, LedgerIsTrue, Recorded
    <2>2. CASE \E r \in Runners : At(r, "committing") /\ Committed(r)
      BY <2>2, CommitEffect
    <2> QED
      BY <2>1, <2>2 DEF LoseConnections
  <1>4. MigrationsTypeOK'
    BY <1>1, <1>2, <1>3 DEF MigrationsInv, MigrationsTypeOK
  <1>5. NotAhead' /\ CommitsNext' /\ Serialised'
    BY <1>2 DEF NotAhead, CommitsNext, Serialised, Active, At, InTransaction
  <1>6. DoneIsComplete'
    BY <1>2, <1>3, LedgerTyped DEF MigrationsInv, DoneIsComplete
  <1> QED
    BY <1>3, <1>4, <1>5, <1>6 DEF MigrationsInv

-----------------------------------------------------------------------------
(* The migrations in the deployment *)

LEMMA InitMigrationsInv == Init => MigrationsInv
  <1> SUFFICES ASSUME Init PROVE MigrationsInv
    OBVIOUS
  <1>1. /\ ledgerExists = FALSE /\ ledger = <<>> /\ schema = {}
        /\ runner = [r \in Runners |-> NotRunning]
    BY DEF Init, MigrationsInit
  <1>0. NotRunning \in Runner /\ NotRunning.step = "off"
    BY EndedTyped
  <1>2. MigrationsTypeOK
    <2>1. ledgerExists \in BOOLEAN
      BY <1>1
    <2>2. ledger \in Seq(Versions) /\ schema \subseteq Versions
      BY <1>1
    <2>3. runner \in [Runners -> Runner]
      BY <1>0, <1>1
    <2> QED
      BY <2>1, <2>2, <2>3 DEF MigrationsTypeOK
  <1>3. LedgerIsTrue
    BY <1>1 DEF LedgerIsTrue, Range
  <1>4. \A r \in Runners : runner[r].step = "off"
    BY <1>0, <1>1
  <1> QED
    BY <1>2, <1>3, <1>4 DEF MigrationsInv, NotAhead, CommitsNext, Serialised, DoneIsComplete,
        Active, At, InTransaction

LEMMA UnchangedMigrations ==
    ASSUME MigrationsInv, UNCHANGED migrationVars PROVE MigrationsInv'
  BY DEF migrationVars, MigrationsInv, MigrationsTypeOK, LedgerIsTrue, NotAhead, CommitsNext,
      Serialised, DoneIsComplete, Recorded, Active, At, InTransaction

LEMMA MigrateKeeps ==
    ASSUME MigrationsInv, NEW r \in Runners, RunnerStep(r) PROVE MigrationsInv'
  BY CreateLedgerKeeps, CheckVersionKeeps, ApplyKeeps, RecordKeeps, CommitKeeps
  DEF RunnerStep

LEMMA KillKeeps ==
    ASSUME MigrationsInv, NEW r \in Runners, Kill(r) PROVE MigrationsInv'
  BY FailKeeps DEF Kill, MigrationsInv, MigrationsTypeOK

\* What PostgreSQL, the platform and the administrators do beside the runners and
\* the gateway.
Surroundings ==
    DatabaseStarts \/ DatabaseHangs \/ DatabaseAnswers \/ Publish \/ GivesUp

LEMMA SurroundingsLeave ==
    ASSUME Surroundings
    PROVE  /\ UNCHANGED migrationVars
           /\ UNCHANGED processVars \/ GivesUp
  BY DEF Surroundings, DatabaseStarts, DatabaseHangs, DatabaseAnswers, Publish, GivesUp

LEMMA NextMigrationsInv == MigrationsInv /\ [Next]_vars => MigrationsInv'
  <1> SUFFICES ASSUME MigrationsInv, [Next]_vars PROVE MigrationsInv'
    OBVIOUS
  <1>1. CASE UNCHANGED vars
    BY <1>1, UnchangedMigrations DEF vars
  <1>2. CASE Boot
    BY <1>2, LaunchKeeps, DeploymentAssumption DEF Boot
  <1>3. CASE Serve \/ MigrationFails \/ Surroundings \/ Process(ProcessStep)
    BY <1>3, UnchangedMigrations, SurroundingsLeave DEF Serve, MigrationFails, Process
  <1>4. CASE Interrupt \/ RestartPolicy \/ Redeploy
    <2>1. /\ runner' = [runner EXCEPT ![Gateway] = NotRunning]
          /\ UNCHANGED <<ledgerExists, ledger, schema>>
      BY <1>4 DEF Interrupt, RestartPolicy, Redeploy, ReturnsTo
    <2> QED
      BY <2>1, StopKeeps, DeploymentAssumption
  <1>5. CASE DatabaseStops
    BY <1>5, LoseConnectionsKeeps DEF DatabaseStops
  <1>6. ASSUME NEW r \in Runners, Migrate(r) PROVE MigrationsInv'
    BY <1>6, MigrateKeeps DEF Migrate
  <1>7. ASSUME NEW r \in Operators, Operate(r) PROVE MigrationsInv'
    <2>1. r \in Runners
      BY DEF Operators
    <2> QED
      BY <1>7, <2>1, LaunchKeeps, KillKeeps DEF Operate
  <1> QED
    BY <1>1, <1>2, <1>3, <1>4, <1>5, <1>6, <1>7 DEF Next, Surroundings

\* Versions are recorded once each and without a gap, and exactly the recorded
\* migrations are in effect, for every number of runners and versions
\* (scripts/migrate.ts).
THEOREM LedgerKept == Spec => []LedgerIsTrue
  <1>1. MigrationsInv => LedgerIsTrue
    BY DEF MigrationsInv
  <1> QED
    BY <1>1, InitMigrationsInv, NextMigrationsInv, PTL DEF Spec

-----------------------------------------------------------------------------
(* The server runs only over a complete schema. *)

\* A server that runs has been running or has just been started.
LEMMA RunningStarts ==
    ASSUME [Next]_vars, Running' PROVE Running \/ Serve
  <1>1. CASE phase' = phase
    BY <1>1 DEF Running, Closing
  <1>2. CASE Process(ProcessStep)
    <2> USE DEF Running, Closing, Ends
    <2>1. CASE RedisSettles \/ BootTimesOut \/ Ready
      BY <2>1 DEF RedisSettles, BootTimesOut, Ready
    <2>2. ASSUME NEW u \in Borrowers, BorrowerStep(u) PROVE Running
      BY <2>2 DEF BorrowerStep, Acquire, AcquireFails, Answered, QueryAnswered, CheckThrows
    <2>3. ASSUME NEW c \in Requests, BeginCheck(c) \/ BeginQuery(c) \/ PingSettles(c) \/ Reply(c)
          PROVE  Running
      BY <2>3 DEF BeginCheck, BeginQuery, PingSettles, Reply
    <2>4. CASE BeginReload \/ EndReload \/ RedisChanges
      BY <2>4 DEF BeginReload, EndReload, RedisChanges
    <2>5. CASE Signal \/ Drained \/ RedisQuits \/ PoolEnds
      BY <2>5 DEF Signal, Drained, RedisQuits, PoolEnds
    <2> QED
      BY <1>2, <2>1, <2>2, <2>3, <2>4, <2>5 DEF Process, ProcessStep
  <1>3. CASE DatabaseStops
    BY <1>1, <1>3 DEF DatabaseStops, ConnectionsBreak, Ends, Running, Closing
  <1>4. CASE Interrupt \/ MigrationFails \/ RestartPolicy \/ Redeploy
    BY <1>4 DEF Interrupt, Killed, MigrationFails, RestartPolicy, Redeploy, ReturnsTo, Ends,
        Running, Closing
  <1>5. CASE Boot \/ Surroundings
    BY <1>1, <1>5, SurroundingsLeave DEF Boot, GivesUp, processVars
  <1>6. ASSUME NEW r \in Runners, Migrate(r) PROVE Running
    BY <1>1, <1>6 DEF Migrate, processVars, Running, Closing
  <1>7. ASSUME NEW r \in Operators, Operate(r) PROVE Running
    BY <1>1, <1>7 DEF Operate, processVars, Running, Closing
  <1>8. CASE UNCHANGED vars
    BY <1>1, <1>8 DEF vars, processVars
  <1> QED
    BY <1>2, <1>3, <1>4, <1>5, <1>6, <1>7, <1>8 DEF Next, Surroundings

\* No step takes a migration back.
LEMMA SchemaGrows ==
    ASSUME [Next]_vars PROVE schema \subseteq schema'
  <1>1. CASE UNCHANGED migrationVars
    BY <1>1 DEF migrationVars
  <1>2. ASSUME NEW r \in Runners, Migrate(r) PROVE schema \subseteq schema'
    BY <1>2 DEF Migrate, RunnerStep, CreateLedger, CheckVersion, Apply, Record, Commit, Committed
  <1>3. ASSUME NEW r \in Operators, Operate(r) PROVE schema \subseteq schema'
    BY <1>3 DEF Operate, Launch, Kill
  <1>4. CASE DatabaseStops
    BY <1>4 DEF DatabaseStops, LoseConnections, Committed
  <1>5. CASE Boot \/ Interrupt \/ RestartPolicy \/ Redeploy
    BY <1>5 DEF Boot, Launch, Interrupt, RestartPolicy, Redeploy, ReturnsTo
  <1>6. CASE Serve \/ MigrationFails \/ Surroundings \/ Process(ProcessStep)
    BY <1>1, <1>6, SurroundingsLeave DEF Serve, MigrationFails, Process
  <1>7. CASE UNCHANGED vars
    BY <1>1, <1>7 DEF vars
  <1> QED
    BY <1>2, <1>3, <1>4, <1>5, <1>6, <1>7 DEF Next, Surroundings

\* A COMMIT appends to the ledger, and nothing else writes it.
LEMMA LedgerAppends ==
    ASSUME [Next]_vars
    PROVE  ledger' = ledger \/ \E r \in Runners : ledger' = Append(ledger, runner[r].version)
  <1>1. CASE UNCHANGED migrationVars
    BY <1>1 DEF migrationVars
  <1>2. ASSUME NEW r \in Runners, Migrate(r)
        PROVE  ledger' = ledger \/ ledger' = Append(ledger, runner[r].version)
    BY <1>2 DEF Migrate, RunnerStep, CreateLedger, CheckVersion, Apply, Record, Commit, Committed
  <1>3. ASSUME NEW r \in Operators, Operate(r) PROVE ledger' = ledger
    BY <1>3 DEF Operate, Launch, Kill
  <1>4. CASE DatabaseStops
    BY <1>4 DEF DatabaseStops, LoseConnections, Committed
  <1>5. CASE Boot \/ Interrupt \/ RestartPolicy \/ Redeploy
    BY <1>5 DEF Boot, Launch, Interrupt, RestartPolicy, Redeploy, ReturnsTo
  <1>6. CASE Serve \/ MigrationFails \/ Surroundings \/ Process(ProcessStep)
    BY <1>1, <1>6, SurroundingsLeave DEF Serve, MigrationFails, Process
  <1>7. CASE UNCHANGED vars
    BY <1>1, <1>7 DEF vars
  <1> QED
    BY <1>2, <1>3, <1>4, <1>5, <1>6, <1>7 DEF Next, Surroundings

MigrationsOnlyAdded ==
    /\ schema \subseteq schema'
    /\ Len(ledger) <= Len(ledger')
    /\ \A i \in 1 .. Len(ledger) : ledger'[i] = ledger[i]

\* What is migrated and recorded stays so: no runner that fails, is killed or
\* loses its connection at any statement takes back what another committed.
THEOREM MigrationsStay == Spec => [][MigrationsOnlyAdded]_vars
  <1>1. MigrationsInv /\ [Next]_vars => [MigrationsOnlyAdded]_vars
    <2> SUFFICES ASSUME MigrationsInv, [Next]_vars
                 PROVE  MigrationsOnlyAdded
      OBVIOUS
    <2>1. ledger \in Seq(Versions) /\ runner \in [Runners -> Runner]
      BY DEF MigrationsInv, MigrationsTypeOK
    <2>2. \A r \in Runners : runner[r].version \in Versions
      BY <2>1 DEF Runner
    <2>3. Len(ledger) <= Len(ledger') /\ \A i \in 1 .. Len(ledger) : ledger'[i] = ledger[i]
      BY <2>1, <2>2, LedgerAppends
    <2> QED
      BY <2>3, SchemaGrows DEF MigrationsOnlyAdded
  <1> QED
    BY <1>1, InitMigrationsInv, NextMigrationsInv, PTL DEF Spec

LEMMA NextServesComplete ==
    MigrationsInv /\ ServesCompleteSchema /\ [Next]_vars => ServesCompleteSchema'
  <1> SUFFICES ASSUME MigrationsInv, ServesCompleteSchema, [Next]_vars, Running'
               PROVE  Complete'
    BY DEF ServesCompleteSchema
  <1>1. Complete
    <2>1. CASE Running
      BY <2>1 DEF ServesCompleteSchema
    <2>2. CASE Serve
      <3>1. At(Gateway, "done")
        BY <2>2 DEF Serve, At
      <3>2. Recorded + 1 >= LastVersion
        BY <3>1, DeploymentAssumption DEF MigrationsInv, DoneIsComplete
      <3> QED
        BY <3>2, LongLedgerIsComplete DEF MigrationsInv
    <2> QED
      BY <2>1, <2>2, RunningStarts
  <1>2. schema' \subseteq Versions
    BY NextMigrationsInv DEF MigrationsInv, MigrationsTypeOK
  <1> QED
    BY <1>1, <1>2, SchemaGrows DEF Complete

\* Whenever a server process runs, every migration is in effect: the `&&' of the
\* Dockerfile is as good as a check of the schema.
THEOREM ServesComplete == Spec => []ServesCompleteSchema
  <1>1. Init => ServesCompleteSchema
    BY DEF Init, ProcessInit, ServesCompleteSchema, Running, Closing
  <1> QED
    BY <1>1, NextServesComplete, InitMigrationsInv, NextMigrationsInv, PTL DEF Spec

-----------------------------------------------------------------------------
(* The pool never lends more than it has, lost clients included, and nothing
   of a request is left where the shutdown is past its first step.           *)

Holders == {u \in Borrowers : client[u] = "holding"}

ClientStates == {"none", "waiting", "holding", "ok", "current", "failed"}

PoolInv == lost + Lent <= PoolMax

Stopped == phase \in {"quitting", "ending"} \/ (phase = "exited" /\ exit = "success")

ProcessInv ==
    /\ ProcessTypeOK
    /\ PoolInv
    /\ StopIsClean

LEMMA LentIsNat ==
    /\ IsFiniteSet(Holders)
    /\ Lent = Cardinality(Holders)
    /\ Lent \in Nat
  <1>1. IsFiniteSet(Borrowers)
    BY FS_AddElement, ProcessAssumption DEF Borrowers
  <1>2. IsFiniteSet(Holders)
    BY <1>1, FS_Subset DEF Holders
  <1>3. Lent = Cardinality(Holders)
    BY DEF Lent, Holders
  <1> QED
    BY <1>2, <1>3, FS_CardinalityType

\* One borrower moves.
LEMMA ClientMoves ==
    ASSUME ProcessTypeOK, NEW u \in Borrowers, NEW state \in ClientStates,
           client' = [client EXCEPT ![u] = state]
    PROVE  /\ client' \in [Borrowers -> ClientStates]
           /\ client'[u] = state
           /\ \A other \in Borrowers \ {u} : client'[other] = client[other]
  BY DEF ProcessTypeOK, ClientStates

\* ... to a state without a client.
LEMMA Releases ==
    ASSUME ProcessTypeOK, NEW u \in Borrowers, NEW state \in ClientStates \ {"holding"},
           client' = [client EXCEPT ![u] = state]
    PROVE  Lent' = IF u \in Holders THEN Lent - 1 ELSE Lent
  <1>1. Holders' = Holders \ {u}
    <2>1. /\ client'[u] # "holding"
          /\ \A other \in Borrowers \ {u} : client'[other] = client[other]
      BY ClientMoves
    <2> QED
      BY <2>1 DEF Holders
  <1>2. Lent' = Cardinality(Holders')
    BY DEF Lent, Holders
  <1> QED
    BY <1>1, <1>2, LentIsNat, FS_RemoveElement

\* ... to a client.
LEMMA Takes ==
    ASSUME ProcessTypeOK, NEW u \in Borrowers \ Holders,
           client' = [client EXCEPT ![u] = "holding"]
    PROVE  Lent' = Lent + 1
  <1>1. Holders' = Holders \cup {u}
    <2>1. "holding" \in ClientStates
      BY DEF ClientStates
    <2>2. /\ client'[u] = "holding"
          /\ \A other \in Borrowers \ {u} : client'[other] = client[other]
      BY <2>1, ClientMoves
    <2> QED
      BY <2>2 DEF Holders
  <1>2. Lent' = Cardinality(Holders')
    BY DEF Lent, Holders
  <1> QED
    BY <1>1, <1>2, LentIsNat, FS_AddElement

NobodyHolds == \A u \in Borrowers : client[u] # "holding"

LEMMA NothingLent == NobodyHolds => Lent = 0
  <1> SUFFICES ASSUME NobodyHolds PROVE Lent = 0
    OBVIOUS
  <1>1. Holders = {}
    BY DEF Holders, NobodyHolds
  <1> QED
    BY <1>1, LentIsNat, FS_EmptySet

LEMMA SameClients == client' = client => Lent' = Lent
  BY DEF Lent

\* StopIsClean is kept by a step that neither reaches the end of a shutdown nor
\* begins a request past it.
LEMMA StopKept ==
    ASSUME StopIsClean, Stopped' => Stopped, timer' => timer,
           Stopped => \A c \in Requests : client[c] = "none" => client'[c] = "none"
    PROVE  StopIsClean'
  BY DEF StopIsClean, Stopped, NoRequests

LEMMA EndKeeps ==
    ASSUME ProcessInv, NEW how \in {"success", "failure", "killed"}, Ends(how),
           redis' \in {"up", "down", "silent"}
    PROVE  ProcessInv'
  <1>1. /\ phase' = "exited" /\ exit' = how /\ shutdowns' = 0 /\ timer' = FALSE
        /\ loaded' = FALSE /\ client' = NoClients /\ ping' = NoPings /\ lost' = 0
    BY DEF Ends, Cleared
  <1>2. /\ \A u \in Borrowers : client'[u] = "none"
        /\ client' \in [Borrowers -> ClientStates]
    BY <1>1 DEF NoClients, ClientStates
  <1>3. ProcessTypeOK'
    <2>1. loaded' \in BOOLEAN /\ timer' \in BOOLEAN
      BY <1>1
    <2>2. ping' \in [Requests -> {"none", "sent", "settled"}]
      BY <1>1 DEF NoPings
    <2>3. shutdowns' \in 0 .. MaxSignals /\ lost' \in 0 .. PoolMax
      BY <1>1, ProcessAssumption
    <2> QED
      BY <1>1, <1>2, <2>1, <2>2, <2>3 DEF ProcessTypeOK, Phases, ClientStates
  <1>4. PoolInv'
    <2>1. Lent' = 0
      <3>1. NobodyHolds'
        BY <1>2 DEF NobodyHolds
      <3>2. (NobodyHolds => Lent = 0)'
        BY NothingLent, PTL
      <3> QED
        BY <3>1, <3>2
    <2> QED
      BY <1>1, <2>1, ProcessAssumption DEF PoolInv
  <1>5. StopIsClean'
    BY <1>1, <1>2 DEF StopIsClean, NoRequests, Borrowers
  <1> QED
    BY <1>3, <1>4, <1>5 DEF ProcessInv

\* A step that touches no client.
LEMMA IdleStep ==
    ASSUME ProcessInv, client' = client, lost' = lost, ProcessTypeOK', StopIsClean'
    PROVE  ProcessInv'
  BY SameClients DEF ProcessInv, PoolInv

\* A step in which one borrower comes to have no client, and none is lost.
LEMMA ReleaseStep ==
    ASSUME ProcessInv, NEW u \in Borrowers, NEW state \in ClientStates \ {"holding"},
           client' = [client EXCEPT ![u] = state], lost' = lost,
           ProcessTypeOK', StopIsClean'
    PROVE  ProcessInv'
  <1>1. Lent' = Lent \/ Lent' = Lent - 1
    BY Releases DEF ProcessInv
  <1>2. lost \in Nat /\ PoolMax \in Nat /\ Lent \in Nat
    BY ProcessAssumption, LentIsNat DEF ProcessInv, ProcessTypeOK
  <1>3. PoolInv'
    BY <1>1, <1>2 DEF ProcessInv, PoolInv
  <1> QED
    BY <1>3 DEF ProcessInv

\* Starting up.
LEMMA StartupKeeps ==
    ASSUME ProcessInv, Start \/ RedisSettles \/ BootTimesOut \/ Ready PROVE ProcessInv'
  <1> USE DEF ProcessInv
  <1>1. CASE Start
    <2>1. ProcessTypeOK'
      BY <1>1 DEF Start, ProcessTypeOK, Phases
    <2>2. StopIsClean'
      BY <1>1 DEF Start, StopIsClean
    <2> QED
      BY <1>1, <2>1, <2>2, IdleStep DEF Start
  <1>2. CASE RedisSettles
    <2>1. client' = [client EXCEPT ![Reload] = "waiting"] /\ phase' = "loading" /\ lost' = lost
      BY <1>2 DEF RedisSettles
    <2>2. ProcessTypeOK'
      BY <1>2, <2>1 DEF RedisSettles, ProcessTypeOK, Phases
    <2>3. StopIsClean'
      BY <2>1 DEF StopIsClean
    <2> QED
      BY <2>1, <2>2, <2>3, ReleaseStep DEF Borrowers, ClientStates
  <1>3. CASE BootTimesOut
    BY <1>3, EndKeeps DEF BootTimesOut, ProcessTypeOK
  <1>4. CASE Ready
    <2>1. client' = [client EXCEPT ![Reload] = "none"] /\ phase' = "serving" /\ lost' = lost
      BY <1>4 DEF Ready
    <2>2. loaded' \in BOOLEAN /\ timer' \in BOOLEAN
      BY <1>4 DEF Ready
    <2>3. ProcessTypeOK'
      BY <1>4, <2>1, <2>2 DEF Ready, ProcessTypeOK, Phases
    <2>4. StopIsClean'
      BY <2>1 DEF StopIsClean
    <2> QED
      BY <2>1, <2>3, <2>4, ReleaseStep DEF Borrowers, ClientStates
  <1> QED
    BY <1>1, <1>2, <1>3, <1>4

\* Borrowing from the pool.
LEMMA BorrowerKeeps ==
    ASSUME ProcessInv, NEW u \in Borrowers, BorrowerStep(u) PROVE ProcessInv'
  <1> USE DEF ProcessInv
  <1>1. CASE Acquire(u)
    <2>1. /\ client' = [client EXCEPT ![u] = "holding"] /\ client[u] = "waiting" /\ Free > 0
          /\ UNCHANGED <<redis, phase, exit, shutdowns, timer, loaded, ping, lost>>
      BY <1>1 DEF Acquire
    <2>2. ProcessTypeOK'
      BY <2>1 DEF ProcessTypeOK
    <2>3. StopIsClean'
      BY <2>1, StopKept, ClientMoves DEF Stopped, Borrowers, ClientStates
    <2>4. Lent' = Lent + 1
      BY <2>1, Takes DEF Holders
    <2>5. lost \in Nat /\ PoolMax \in Nat /\ Lent \in Nat
      BY ProcessAssumption, LentIsNat DEF ProcessTypeOK
    <2>6. PoolInv'
      BY <2>1, <2>4, <2>5 DEF PoolInv, Free
    <2> QED
      BY <2>2, <2>3, <2>6
  <1>2. CASE AcquireFails(u)
    <2>1. /\ client' = [client EXCEPT ![u] = "failed"] /\ client[u] = "waiting"
          /\ UNCHANGED <<redis, phase, exit, shutdowns, timer, loaded, ping, lost>>
      BY <1>2 DEF AcquireFails
    <2>2. ProcessTypeOK'
      BY <2>1 DEF ProcessTypeOK
    <2>3. StopIsClean'
      BY <2>1, StopKept, ClientMoves DEF Stopped, Borrowers, ClientStates
    <2> QED
      BY <2>1, <2>2, <2>3, ReleaseStep DEF ClientStates
  <1>3. CASE QueryAnswered(u)
    <2>1. PICK state \in {"ok", "current"} : client' = [client EXCEPT ![u] = state]
      BY <1>3 DEF QueryAnswered
    <2>2. /\ client[u] = "holding"
          /\ UNCHANGED <<redis, phase, exit, shutdowns, timer, loaded, ping, lost>>
      BY <1>3 DEF QueryAnswered
    <2>3. ProcessTypeOK'
      BY <2>1, <2>2 DEF ProcessTypeOK
    <2>4. StopIsClean'
      BY <2>1, <2>2, StopKept, ClientMoves DEF Stopped, Borrowers, ClientStates
    <2> QED
      BY <2>1, <2>2, <2>3, <2>4, ReleaseStep DEF ClientStates
  <1>4. CASE CheckThrows(u)
    <2>1. /\ client' = [client EXCEPT ![u] = "failed"] /\ client[u] = "holding"
          /\ lost' = lost + 1
          /\ UNCHANGED <<redis, phase, exit, shutdowns, timer, loaded, ping>>
      BY <1>4 DEF CheckThrows, Checking
    <2>2. lost \in Nat /\ PoolMax \in Nat /\ Lent \in Nat
      BY ProcessAssumption, LentIsNat DEF ProcessTypeOK
    <2>3. Lent' = Lent - 1
      BY <2>1, Releases DEF Holders, ClientStates
    <2>4. Lent - 1 \in Nat
      <3>1. Lent' = Cardinality(Holders') /\ Lent' \in Nat
        <4>1. (Lent \in Nat)'
          BY LentIsNat, PTL
        <4> QED
          BY <4>1 DEF Lent, Holders
      <3> QED
        BY <2>3, <3>1
    <2>5. PoolInv' /\ lost' \in 0 .. PoolMax
      BY <2>1, <2>2, <2>3, <2>4 DEF PoolInv
    <2>6. ProcessTypeOK'
      BY <2>1, <2>5 DEF ProcessTypeOK
    <2>7. StopIsClean'
      BY <2>1, StopKept, ClientMoves DEF Stopped, Borrowers, ClientStates
    <2> QED
      BY <2>5, <2>6, <2>7
  <1> QED
    BY <1>1, <1>2, <1>3, <1>4 DEF BorrowerStep, Answered

\* Requests begin, get their answers and end.
LEMMA RequestKeeps ==
    ASSUME ProcessInv, NEW c \in Requests,
           BeginCheck(c) \/ BeginQuery(c) \/ PingSettles(c) \/ Reply(c)
    PROVE  ProcessInv'
  <1> USE DEF ProcessInv
  <1>0. c \in Borrowers
    BY DEF Borrowers
  <1>1. CASE BeginCheck(c)
    <2>1. /\ client' = [client EXCEPT ![c] = "waiting"] /\ phase = "serving"
          /\ ping' = [ping EXCEPT ![c] = "sent"]
          /\ UNCHANGED <<redis, phase, exit, shutdowns, timer, loaded, lost>>
      BY <1>1 DEF BeginCheck
    <2>2. ProcessTypeOK'
      BY <2>1 DEF ProcessTypeOK
    <2>3. StopIsClean'
      BY <2>1 DEF StopIsClean
    <2> QED
      BY <1>0, <2>1, <2>2, <2>3, ReleaseStep DEF ClientStates
  <1>2. CASE BeginQuery(c)
    <2>1. /\ client' = [client EXCEPT ![c] = "waiting"] /\ phase = "serving"
          /\ UNCHANGED <<redis, phase, exit, shutdowns, timer, loaded, ping, lost>>
      BY <1>2 DEF BeginQuery
    <2>2. ProcessTypeOK'
      BY <2>1 DEF ProcessTypeOK
    <2>3. StopIsClean'
      BY <2>1 DEF StopIsClean
    <2> QED
      BY <1>0, <2>1, <2>2, <2>3, ReleaseStep DEF ClientStates
  <1>3. CASE PingSettles(c)
    <2>1. ping' = [ping EXCEPT ![c] = "settled"]
      BY <1>3 DEF PingSettles
    <2>2. UNCHANGED <<redis, phase, exit, shutdowns, timer, loaded, client, lost>>
      BY <1>3 DEF PingSettles
    <2>3. ProcessTypeOK'
      BY <2>1, <2>2 DEF ProcessTypeOK
    <2>4. StopIsClean'
      BY <2>2 DEF StopIsClean, NoRequests
    <2> QED
      BY <2>2, <2>3, <2>4, IdleStep
  <1>4. CASE Reply(c)
    <2>1. /\ client' = [client EXCEPT ![c] = "none"]
          /\ ping' = [ping EXCEPT ![c] = "none"]
          /\ UNCHANGED <<redis, phase, exit, shutdowns, timer, loaded, lost>>
      BY <1>4 DEF Reply
    <2>2. ProcessTypeOK'
      BY <2>1 DEF ProcessTypeOK
    <2>3. StopIsClean'
      BY <1>0, <2>1, StopKept, ClientMoves DEF Stopped, Borrowers, ClientStates
    <2> QED
      BY <1>0, <2>1, <2>2, <2>3, ReleaseStep DEF ClientStates
  <1> QED
    BY <1>1, <1>2, <1>3, <1>4

\* The reload timer, and Redis.
LEMMA ReloadKeeps ==
    ASSUME ProcessInv, BeginReload \/ EndReload \/ RedisChanges PROVE ProcessInv'
  <1> USE DEF ProcessInv
  <1>0. Reload \in Borrowers /\ Reload \notin Requests
    BY ProcessAssumption DEF Borrowers
  <1>1. CASE BeginReload
    <2>1. /\ client' = [client EXCEPT ![Reload] = "waiting"]
          /\ UNCHANGED <<redis, phase, exit, shutdowns, timer, loaded, ping, lost>>
      BY <1>1 DEF BeginReload
    <2>2. ProcessTypeOK'
      BY <2>1 DEF ProcessTypeOK
    <2>3. StopIsClean'
      BY <1>0, <2>1, StopKept, ClientMoves DEF Stopped, Borrowers, ClientStates
    <2> QED
      BY <1>0, <2>1, <2>2, <2>3, ReleaseStep DEF ClientStates
  <1>2. CASE EndReload
    <2>1. /\ client' = [client EXCEPT ![Reload] = "none"]
          /\ UNCHANGED <<redis, phase, exit, shutdowns, timer, ping, lost>>
      BY <1>2 DEF EndReload
    <2>2. loaded' \in BOOLEAN
      BY <1>2 DEF EndReload, ProcessTypeOK
    <2>3. ProcessTypeOK'
      BY <2>1, <2>2 DEF ProcessTypeOK
    <2>4. StopIsClean'
      BY <1>0, <2>1, StopKept, ClientMoves DEF Stopped, Borrowers, ClientStates
    <2> QED
      BY <1>0, <2>1, <2>3, <2>4, ReleaseStep DEF ClientStates
  <1>3. CASE RedisChanges
    <2>1. ProcessTypeOK'
      BY <1>3 DEF RedisChanges, ProcessTypeOK
    <2>2. StopIsClean'
      BY <1>3 DEF RedisChanges, StopIsClean, NoRequests
    <2> QED
      BY <1>3, <2>1, <2>2, IdleStep DEF RedisChanges
  <1> QED
    BY <1>1, <1>2, <1>3

\* The shutdown: it goes past its first step when no request is left, and from
\* then on none begins.
LEMMA ShutdownKeeps ==
    ASSUME ProcessInv, Signal \/ Drained \/ RedisQuits \/ PoolEnds PROVE ProcessInv'
  <1> USE DEF ProcessInv
  <1>1. CASE Signal
    <2>1. shutdowns' \in 0 .. MaxSignals
      BY <1>1, ProcessAssumption DEF Signal, ProcessTypeOK
    <2>2. phase' \in Phases
      BY <1>1 DEF Signal, ProcessTypeOK, Phases
    <2>3. UNCHANGED <<redis, exit, timer, loaded, client, ping, lost>>
      BY <1>1 DEF Signal
    <2>4. ProcessTypeOK'
      BY <2>1, <2>2, <2>3 DEF ProcessTypeOK
    <2>5. Stopped' => Stopped
      BY <1>1 DEF Signal, Closing, Stopped
    <2>6. StopIsClean'
      BY <2>3, <2>5, StopKept
    <2> QED
      BY <2>3, <2>4, <2>6, IdleStep
  <1>2. CASE Drained
    <2>1. /\ NoRequests /\ timer' = FALSE /\ phase' = "quitting"
          /\ UNCHANGED <<redis, exit, shutdowns, loaded, client, ping, lost>>
      BY <1>2 DEF Drained
    <2>2. timer' \in BOOLEAN
      BY <2>1
    <2>3. ProcessTypeOK'
      BY <2>1, <2>2 DEF ProcessTypeOK, Phases
    <2>4. StopIsClean'
      BY <2>1 DEF StopIsClean, NoRequests
    <2> QED
      BY <2>1, <2>3, <2>4, IdleStep
  <1>3. CASE RedisQuits
    <2>1. /\ phase = "quitting" /\ phase' = "ending"
          /\ UNCHANGED <<redis, exit, shutdowns, timer, loaded, client, ping, lost>>
      BY <1>3 DEF RedisQuits
    <2>2. ProcessTypeOK'
      BY <2>1 DEF ProcessTypeOK, Phases
    <2>3. StopIsClean'
      BY <2>1, StopKept DEF Stopped
    <2> QED
      BY <2>1, <2>2, <2>3, IdleStep
  <1>4. CASE PoolEnds
    BY <1>4, EndKeeps DEF PoolEnds, ProcessTypeOK
  <1> QED
    BY <1>1, <1>2, <1>3, <1>4

LEMMA ProcessStepKeeps ==
    ASSUME ProcessInv, ProcessStep PROVE ProcessInv'
  BY StartupKeeps, BorrowerKeeps, RequestKeeps, ReloadKeeps, ShutdownKeeps DEF ProcessStep

\* PostgreSQL breaks all connections.
LEMMA BreakKeeps ==
    ASSUME ProcessInv, ConnectionsBreak PROVE ProcessInv'
  <1> USE DEF ProcessInv
  <1>1. CASE Exposed
    BY <1>1, EndKeeps DEF ConnectionsBreak, ProcessTypeOK
  <1>2. CASE ~Exposed
    <2>1. /\ client' = [u \in Borrowers |->
                 IF client[u] = "holding" THEN "failed" ELSE client[u]]
          /\ UNCHANGED <<redis, phase, exit, shutdowns, timer, loaded, ping, lost>>
      BY <1>2 DEF ConnectionsBreak
    <2>2. ProcessTypeOK'
      BY <2>1 DEF ProcessTypeOK
    <2>3. StopIsClean'
      BY <2>1, StopKept DEF Stopped, Borrowers
    <2>4. Lent' = 0
      <3>1. NobodyHolds'
        BY <2>1 DEF NobodyHolds
      <3>2. (NobodyHolds => Lent = 0)'
        BY NothingLent, PTL
      <3> QED
        BY <3>1, <3>2
    <2>5. lost \in 0 .. PoolMax /\ PoolMax \in Nat
      BY ProcessAssumption DEF ProcessTypeOK
    <2>6. PoolInv'
      BY <2>1, <2>4, <2>5 DEF PoolInv
    <2> QED
      BY <2>2, <2>3, <2>6
  <1> QED
    BY <1>1, <1>2

LEMMA UnchangedProcess ==
    ASSUME ProcessInv, UNCHANGED processVars PROVE ProcessInv'
  <1>1. ProcessTypeOK' /\ StopIsClean' /\ client' = client /\ lost' = lost
    BY DEF processVars, ProcessInv, ProcessTypeOK, StopIsClean, NoRequests
  <1> QED
    BY <1>1, IdleStep

\* The container comes back as it was left, but for its phase.
LEMMA ReturnKeeps ==
    ASSUME ProcessInv, ReturnsTo PROVE ProcessInv'
  <1> USE DEF ProcessInv
  <1>1. /\ phase' = "off" /\ exit' = "none"
        /\ UNCHANGED <<redis, shutdowns, timer, loaded, client, ping, lost>>
    BY DEF ReturnsTo
  <1>2. ProcessTypeOK'
    BY <1>1 DEF ProcessTypeOK, Phases
  <1>3. StopIsClean'
    BY <1>1 DEF StopIsClean
  <1> QED
    BY <1>1, <1>2, <1>3, IdleStep

\* The platform leaves a failed container as it is.
LEMMA GivesUpKeeps ==
    ASSUME ProcessInv, GivesUp PROVE ProcessInv'
  <1> USE DEF ProcessInv
  <1>1. /\ exit = "failure" /\ exit' = "abandoned"
        /\ UNCHANGED <<redis, phase, shutdowns, timer, loaded, client, ping, lost>>
    BY DEF GivesUp
  <1>2. ProcessTypeOK'
    BY <1>1 DEF ProcessTypeOK
  <1>3. StopIsClean'
    BY <1>1, StopKept DEF Stopped
  <1> QED
    BY <1>1, <1>2, <1>3, IdleStep

LEMMA InitProcessInv == Init => ProcessInv
  <1> SUFFICES ASSUME Init PROVE ProcessInv
    OBVIOUS
  <1>1. /\ redis = "up" /\ phase = "off" /\ exit = "none" /\ shutdowns = 0 /\ lost = 0
        /\ timer = FALSE /\ loaded = FALSE /\ client = NoClients /\ ping = NoPings
    BY DEF Init, ProcessInit
  <1>2. timer \in BOOLEAN /\ loaded \in BOOLEAN
    BY <1>1
  <1>3. /\ client \in [Borrowers -> ClientStates]
        /\ ping \in [Requests -> {"none", "sent", "settled"}]
        /\ NobodyHolds
    BY <1>1 DEF NoClients, NoPings, ClientStates, NobodyHolds
  <1>4. ProcessTypeOK
    BY <1>1, <1>2, <1>3, ProcessAssumption DEF ProcessTypeOK, Phases, ClientStates
  <1>5. PoolInv
    BY <1>1, <1>3, NothingLent, ProcessAssumption DEF PoolInv
  <1>6. StopIsClean
    BY <1>1 DEF StopIsClean
  <1> QED
    BY <1>4, <1>5, <1>6 DEF ProcessInv

LEMMA NextProcessInv == ProcessInv /\ [Next]_vars => ProcessInv'
  <1> SUFFICES ASSUME ProcessInv, [Next]_vars PROVE ProcessInv'
    OBVIOUS
  <1>1. CASE UNCHANGED vars
    BY <1>1, UnchangedProcess DEF vars
  <1>2. CASE Boot \/ Surroundings
    BY <1>2, UnchangedProcess, SurroundingsLeave, GivesUpKeeps DEF Boot
  <1>3. CASE Serve
    BY <1>3, StartupKeeps DEF Serve
  <1>4. CASE MigrationFails
    BY <1>4, EndKeeps DEF MigrationFails, ProcessInv, ProcessTypeOK
  <1>5. CASE Interrupt
    BY <1>5, EndKeeps DEF Interrupt, Killed, ProcessInv, ProcessTypeOK
  <1>6. CASE RestartPolicy \/ Redeploy
    BY <1>6, ReturnKeeps DEF RestartPolicy, Redeploy
  <1>7. CASE DatabaseStops
    BY <1>7, BreakKeeps DEF DatabaseStops
  <1>8. CASE Process(ProcessStep)
    BY <1>8, ProcessStepKeeps DEF Process
  <1>9. ASSUME NEW r \in Runners, Migrate(r) PROVE ProcessInv'
    BY <1>9, UnchangedProcess DEF Migrate
  <1>10. ASSUME NEW r \in Operators, Operate(r) PROVE ProcessInv'
    BY <1>10, UnchangedProcess DEF Operate
  <1> QED
    BY <1>1, <1>2, <1>3, <1>4, <1>5, <1>6, <1>7, <1>8, <1>9, <1>10 DEF Next, Surroundings

\* When a shutdown touches Redis and the pool no request is left and no timer is
\* set, for every number of requests and signals (server.ts, app.ts).
THEOREM StopsCleanly == Spec => []StopIsClean
  <1>1. ProcessInv => StopIsClean
    BY DEF ProcessInv
  <1> QED
    BY <1>1, InitProcessInv, NextProcessInv, PTL DEF Spec

\* The pool never has more clients than its `max', the ones that failed checks
\* lost included (config/database.ts).
THEOREM PoolBounded == Spec => [](lost + Lent <= PoolMax)
  <1>1. ProcessInv => lost + Lent <= PoolMax
    BY DEF ProcessInv, PoolInv
  <1> QED
    BY <1>1, InitProcessInv, NextProcessInv, PTL DEF Spec

\* Every variable keeps its type.
THEOREM DeploymentTyped == Spec => []TypeOK
  <1>1. Init => PostgresTypeOK
    BY DEF Init, PostgresInit, PostgresTypeOK
  <1>2. PostgresTypeOK /\ [Next]_vars => PostgresTypeOK'
    <2> SUFFICES ASSUME PostgresTypeOK, [Next]_vars PROVE PostgresTypeOK'
      OBVIOUS
    <2>1. UNCHANGED <<database, published>> \/ DatabaseStops \/ Surroundings
      BY DEF Next, vars, Boot, Serve, MigrationFails, Interrupt, RestartPolicy, Redeploy,
          ReturnsTo, Migrate, Operate, Process, Surroundings
    <2>2. CASE UNCHANGED <<database, published>>
      BY <2>2 DEF PostgresTypeOK
    <2>3. CASE DatabaseStops
      BY <2>3 DEF PostgresTypeOK, DatabaseStops
    <2>4. CASE Surroundings
      BY <2>4 DEF PostgresTypeOK, Surroundings, DatabaseStarts, DatabaseHangs, DatabaseAnswers,
          Publish, GivesUp
    <2> QED
      BY <2>1, <2>2, <2>3, <2>4
  <1>3. PostgresTypeOK /\ MigrationsInv /\ ProcessInv => TypeOK
    BY DEF TypeOK, MigrationsInv, ProcessInv
  <1> QED
    BY <1>1, <1>2, <1>3, InitMigrationsInv, NextMigrationsInv, InitProcessInv, NextProcessInv,
       PTL DEF Spec

-----------------------------------------------------------------------------
(* A loaded config stays. Ready sets `loaded' to what the first load came to, so
   one must know that nothing is loaded before it.                            *)

StartupInv ==
    /\ phase \in {"off", "connecting", "loading", "exited"} => ~loaded /\ ~timer
    /\ phase \in {"off", "connecting", "exited"} => client[Reload] = "none"

\* What a step of the process is to StartupInv and to the config.
KeepsConfig ==
    /\ StartupInv'
    /\ loaded => loaded' \/ phase' = "exited"

LEMMA ReloadIsNoRequest ==
    ASSUME ProcessTypeOK, NEW c \in Requests, NEW state, client' = [client EXCEPT ![c] = state]
    PROVE  client'[Reload] = client[Reload]
  BY ProcessAssumption DEF ProcessTypeOK, Borrowers

LEMMA EndKeepsConfig ==
    ASSUME phase' = "exited", Cleared
    PROVE  KeepsConfig
  BY DEF KeepsConfig, StartupInv, Cleared, NoClients, Borrowers

\* A step that leaves the phase, the timer and the config alone, and the reload
\* where it is unless it was under way.
LEMMA QuietKeepsConfig ==
    ASSUME StartupInv, UNCHANGED <<phase, timer, loaded>>,
           client'[Reload] = client[Reload] \/ client[Reload] # "none"
    PROVE  KeepsConfig
  BY DEF KeepsConfig, StartupInv

LEMMA ProcessKeepsConfig ==
    ASSUME ProcessTypeOK, StartupInv, ProcessStep
    PROVE  KeepsConfig
  <1>1. CASE RedisSettles
    BY <1>1 DEF RedisSettles, KeepsConfig, StartupInv
  <1>2. CASE BootTimesOut
    BY <1>2, EndKeepsConfig DEF BootTimesOut, Ends
  <1>3. CASE Ready
    BY <1>3 DEF Ready, KeepsConfig, StartupInv
  <1>4. ASSUME NEW u \in Borrowers, BorrowerStep(u) PROVE KeepsConfig
    <2>1. /\ UNCHANGED <<phase, timer, loaded>>
          /\ client[u] \in {"waiting", "holding"}
          /\ \E state : client' = [client EXCEPT ![u] = state]
      BY <1>4 DEF BorrowerStep, Acquire, AcquireFails, Answered, QueryAnswered, CheckThrows, Checking
    <2>2. client'[Reload] = client[Reload] \/ client[Reload] # "none"
      BY <2>1 DEF ProcessTypeOK, Borrowers
    <2> QED
      BY <2>1, <2>2, QuietKeepsConfig
  <1>5. ASSUME NEW c \in Requests, BeginCheck(c) \/ BeginQuery(c) \/ PingSettles(c) \/ Reply(c)
        PROVE  KeepsConfig
    <2>1. /\ UNCHANGED <<phase, timer, loaded>>
          /\ UNCHANGED client \/ \E state : client' = [client EXCEPT ![c] = state]
      BY <1>5 DEF BeginCheck, BeginQuery, PingSettles, Reply
    <2> QED
      BY <2>1, ReloadIsNoRequest, QuietKeepsConfig
  <1>6. CASE BeginReload
    BY <1>6 DEF BeginReload, KeepsConfig, StartupInv
  <1>7. CASE EndReload
    BY <1>7 DEF EndReload, KeepsConfig, StartupInv
  <1>8. CASE Signal
    BY <1>8 DEF Signal, Closing, KeepsConfig, StartupInv
  <1>9. CASE Drained \/ RedisQuits
    BY <1>9 DEF Drained, RedisQuits, KeepsConfig, StartupInv
  <1>10. CASE PoolEnds
    BY <1>10, EndKeepsConfig DEF PoolEnds, Ends
  <1>11. CASE RedisChanges
    BY <1>11, QuietKeepsConfig DEF RedisChanges
  <1> QED
    BY <1>1, <1>2, <1>3, <1>4, <1>5, <1>6, <1>7, <1>8, <1>9, <1>10, <1>11 DEF ProcessStep

LEMMA NextKeepsConfig == ProcessInv /\ StartupInv /\ [Next]_vars => KeepsConfig
  <1> SUFFICES ASSUME ProcessInv, StartupInv, [Next]_vars PROVE KeepsConfig
    OBVIOUS
  <1>1. CASE UNCHANGED processVars
    BY <1>1, QuietKeepsConfig DEF processVars
  <1>2. CASE Serve
    BY <1>2 DEF Serve, Start, KeepsConfig, StartupInv
  <1>3. CASE MigrationFails \/ Interrupt
    BY <1>3, EndKeepsConfig DEF MigrationFails, Interrupt, Killed, Ends
  <1>4. CASE RestartPolicy \/ Redeploy
    BY <1>4 DEF RestartPolicy, Redeploy, ReturnsTo, KeepsConfig, StartupInv
  <1>5. CASE DatabaseStops
    <2>1. CASE Exposed
      BY <1>5, <2>1, EndKeepsConfig DEF DatabaseStops, ConnectionsBreak, Ends
    <2>2. CASE ~Exposed
      <3>1. /\ UNCHANGED <<phase, timer, loaded>>
            /\ client' = [u \in Borrowers |->
                   IF client[u] = "holding" THEN "failed" ELSE client[u]]
        BY <1>5, <2>2 DEF DatabaseStops, ConnectionsBreak
      <3>2. client'[Reload] = client[Reload] \/ client[Reload] # "none"
        BY <3>1 DEF Borrowers
      <3> QED
        BY <3>1, <3>2, QuietKeepsConfig
    <2> QED
      BY <2>1, <2>2
  <1>6. CASE Process(ProcessStep)
    BY <1>6, ProcessKeepsConfig DEF Process, ProcessInv
  <1>7. CASE GivesUp
    BY <1>7, QuietKeepsConfig DEF GivesUp
  <1> QED
    BY <1>1, <1>2, <1>3, <1>4, <1>5, <1>6, <1>7, SurroundingsLeave
    DEF Next, vars, Boot, Surroundings, Migrate, Operate

\* A process that has loaded a config has one until it ends: no failing reload,
\* broken connection or shutdown leaves it without, and onReady cannot reset what
\* the interval has loaded, as it sets the timer itself (config-cache.ts, app.ts).
THEOREM ConfigStays == Spec => [][loaded => loaded' \/ phase' = "exited"]_vars
  <1>1. Init => StartupInv
    BY DEF Init, ProcessInit, StartupInv, NoClients, Borrowers
  <1>2. ProcessInv /\ StartupInv /\ [Next]_vars => StartupInv'
    BY NextKeepsConfig DEF KeepsConfig
  <1>3. ProcessInv /\ StartupInv /\ [Next]_vars =>
            [loaded => loaded' \/ phase' = "exited"]_vars
    BY NextKeepsConfig DEF KeepsConfig
  <1> QED
    BY <1>1, <1>2, <1>3, InitProcessInv, NextProcessInv, PTL DEF Spec

=============================================================================
