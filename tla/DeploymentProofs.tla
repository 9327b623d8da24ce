-------------------------- MODULE DeploymentProofs --------------------------
(***************************************************************************)
(* Proofs about Deployment and the Migrations it extends, for any list of  *)
(* migrations, any number of invocations and processes and any forced      *)
(* version.                                                                *)
(*                                                                         *)
(* AppliedIsPrefix is not inductive: the invariant says of each invocation *)
(* what its copy of the version still tells about the rows.                *)
(***************************************************************************)
EXTENDS Deployment, SequenceTheorems, WellFoundedInduction, TLAPS

\* Up and down are not in flight together, what an up has left behind is
\* applied, nothing is applied beyond where a down stands, and what a down
\* found no table for has no row.
CopiesAreTrue ==
    /\ \A r, q \in Runners : ~ (cmd[r].pc = "up" /\ cmd[q].pc = "down")
    /\ \A r \in Runners : cmd[r].pc = "up" =>
           \A j \in DOMAIN Steps : j < cmd[r].at => Steps[j].version \in history
    /\ \A r \in Runners : cmd[r].pc = "down" => \A v \in history : v <= cmd[r].current
    /\ \A r \in Runners : cmd[r].pc = "down" /\ cmd[r].skipped => cmd[r].current \notin history

SchemaInv ==
    /\ cmd \in [Runners -> Command]
    /\ history \subseteq Nat
    /\ \E n \in Nat : \A v \in history : v <= n
    /\ ~ forced => history \subseteq Versions
    /\ HistoryMatchesTables
    /\ AppliedIsPrefix
    /\ ~ forced /\ ~ clash => CopiesAreTrue

\* How far a process that starts has brought the rows.
BootInv ==
    /\ proc \in [Processes -> {"down", "account", "newAccount", "mode", "newMode", "running"}]
    /\ ~ dropped =>
        /\ \A p \in Processes : proc[p] \in {"mode", "newMode", "running"} => account # None
        /\ \A p \in Processes : proc[p] = "running" => mode # None
        /\ mode # None => account = mode
        /\ mode = None /\ account # None => account = "PAPER"
-----------------------------------------------------------------------------
\* Min is the least number of a set.
LEMMA MinOfNat ==
    ASSUME NEW S \in SUBSET Nat, S # {}
    PROVE  Min(S) \in S /\ \A y \in S : Min(S) <= y
<1>1. \E x \in S : \A y \in S : ~ (<<y, x>> \in OpToRel(<, Nat))
  BY NatLessThanWellFounded, WFMin
<1>2. PICK x \in S : \A y \in S : ~ (y < x)
  BY <1>1 DEF OpToRel
<1>3. \E z \in S : \A y \in S : z <= y
  BY <1>2
<1>4. QED
  BY <1>3 DEF Min

\* Max is the greatest number of a bounded set.
LEMMA MaxOfNat ==
    ASSUME NEW S \in SUBSET Nat, S # {}, NEW n \in Nat, \A y \in S : y <= n
    PROVE  Max(S) \in S /\ \A y \in S : Max(S) >= y
<1> DEFINE Above == {b \in Nat : \A y \in S : y <= b}
<1>1. Above \in SUBSET Nat /\ Above # {}
  OBVIOUS
<1> DEFINE m == Min(Above)
<1>2. m \in Above /\ \A b \in Above : m <= b
  BY <1>1, MinOfNat
<1> HIDE DEF m
<1>3. m \in S
  <2> SUFFICES ASSUME m \notin S
               PROVE  FALSE
    OBVIOUS
  <2>1. m \in Nat /\ \A y \in S : y \in Nat /\ y < m
    BY <1>2
  <2>2. m - 1 \in Above
    <3>1. PICK y \in S : TRUE
      OBVIOUS
    <3>2. m - 1 \in Nat
      BY <2>1, <3>1
    <3>3. \A x \in S : x <= m - 1
      BY <2>1
    <3>4. QED
      BY <3>2, <3>3
  <2>3. QED
    BY <1>2, <2>1, <2>2
<1>4. \E z \in S : \A y \in S : z >= y
  BY <1>2, <1>3
<1>5. QED
  BY <1>4 DEF Max

\* The list of migrations, as NewRunner leaves it.
LEMMA StepsFacts ==
    /\ Len(Steps) \in Nat /\ DOMAIN Steps = 1..Len(Steps)
    /\ \A i \in DOMAIN Steps : /\ Steps[i].version \in Nat /\ Steps[i].version > 0
                               /\ Steps[i].version \in Versions
                               /\ Steps[i].table \in TableNames
    /\ \A i, j \in DOMAIN Steps : i < j => Steps[i].version < Steps[j].version
    /\ \A i, j \in DOMAIN Steps : Steps[i].version = Steps[j].version => i = j
    /\ \A i, j \in DOMAIN Steps : Steps[i].version < Steps[j].version => i < j
    /\ \A i, j \in DOMAIN Steps : Steps[i].table = Steps[j].table => i = j
<1>1. Len(Steps) \in Nat /\ DOMAIN Steps = 1..Len(Steps)
  BY MigrationsAssumption, LenProperties
<1>2. \A i \in DOMAIN Steps : Steps[i] \in [version : Nat \ {0}, table : STRING, refs : SUBSET STRING]
  BY <1>1, MigrationsAssumption, ElementOfSeq
<1>3. \A i \in DOMAIN Steps : Steps[i].version \in Nat /\ Steps[i].version > 0
  BY <1>2
<1>4. \A i, j \in DOMAIN Steps : i < j => Steps[i].version < Steps[j].version
  BY MigrationsAssumption
<1>5. \A i, j \in DOMAIN Steps : i < j \/ j < i \/ i = j
  BY <1>1
<1>6. \A i, j \in DOMAIN Steps : Steps[i].version <= Steps[j].version => ~ (j < i)
  BY <1>3, <1>4
<1>7. \A i, j \in DOMAIN Steps : Steps[i].version = Steps[j].version => i = j
  BY <1>3, <1>5, <1>6
<1>8. \A i, j \in DOMAIN Steps : Steps[i].version < Steps[j].version => i < j
  BY <1>3, <1>5, <1>6
<1>9. QED
  BY <1>1, <1>3, <1>4, <1>7, <1>8, MigrationsAssumption DEF Versions, TableNames

\* Version is the newest row, and 0 without rows.
LEMMA VersionFacts ==
    ASSUME history \subseteq Nat, NEW n \in Nat, \A v \in history : v <= n
    PROVE  /\ Version \in Nat
           /\ Version = 0 \/ Version \in history
           /\ \A v \in history : v <= Version
<1>1. history \cup {0} \in SUBSET Nat /\ history \cup {0} # {}
  OBVIOUS
<1>2. \A v \in history \cup {0} : v <= n
  OBVIOUS
<1>3. Version \in history \cup {0} /\ \A v \in history \cup {0} : Version >= v
  BY <1>1, <1>2, MaxOfNat DEF Version
<1>4. QED
  BY <1>3

\* FirstAfter stands in the list or right after it, and all before it is no
\* newer than the version.
LEMMA FirstAfterFacts ==
    ASSUME NEW v \in Nat
    PROVE  /\ FirstAfter(v) \in 1..(Len(Steps) + 1)
           /\ \A j \in DOMAIN Steps : j < FirstAfter(v) => Steps[j].version <= v
<1> DEFINE S == {i \in DOMAIN Steps : Steps[i].version > v} \cup {Len(Steps) + 1}
<1>1. S \in SUBSET Nat /\ S # {} /\ S \subseteq 1..(Len(Steps) + 1)
  BY StepsFacts
<1>2. FirstAfter(v) = Min(S)
  BY DEF FirstAfter
<1> DEFINE m == Min(S)
<1>3. m \in S /\ \A y \in S : m <= y
  BY <1>1, MinOfNat
<1> HIDE DEF m
<1>4. \A j \in DOMAIN Steps : j < m => Steps[j].version <= v
  <2> SUFFICES ASSUME NEW j \in DOMAIN Steps, j < m
               PROVE  Steps[j].version <= v
    OBVIOUS
  <2>1. m \in Nat /\ j \in Nat
    BY <1>1, <1>3, StepsFacts
  <2>2. ~ (Steps[j].version > v)
    BY <1>3, <2>1
  <2>3. QED
    BY <2>2, StepsFacts
<1>5. QED
  BY <1>1, <1>2, <1>3, <1>4 DEF m

\* A command is one of three things.
LEMMA CommandShape ==
    ASSUME cmd \in [Runners -> Command], NEW r \in Runners
    PROVE  /\ cmd[r] = NoCommand => cmd[r].pc = "idle"
           /\ cmd[r].pc = "up" => cmd[r].at \in 1..(Len(Steps) + 1)
           /\ cmd[r].pc = "down" => /\ cmd[r].current \in Nat /\ cmd[r].left \in Nat
                                     /\ cmd[r].skipped \in BOOLEAN
<1>1. cmd[r] \in Command
  OBVIOUS
<1>2. CASE cmd[r] = NoCommand
  BY <1>2 DEF NoCommand
<1>3. CASE cmd[r] \in [pc : {"up"}, at : 1..(Len(Steps) + 1)]
  BY <1>3 DEF NoCommand
<1>4. CASE cmd[r] \in [pc : {"down"}, current : Nat, left : Nat, skipped : BOOLEAN]
  BY <1>4 DEF NoCommand
<1>5. QED
  BY <1>1, <1>2, <1>3, <1>4 DEF Command
-----------------------------------------------------------------------------
\* An up that begins, begins after all that is applied.
LEMMA UpKeeps ==
    ASSUME SchemaInv, NEW r \in Runners, Up(r)
    PROVE  SchemaInv'
<1> USE DEF SchemaInv
<1> DEFINE a == FirstAfter(Version)
<1>1. /\ history' = history /\ tables' = tables /\ forced' = forced
      /\ clash' = (clash \/ InFlight("down"))
      /\ cmd' = [cmd EXCEPT ![r] = [pc |-> "up", at |-> a]]
  BY DEF Up, Goes
<1>2. PICK n \in Nat : \A v \in history : v <= n
  OBVIOUS
<1>3. /\ Version \in Nat
      /\ Version = 0 \/ Version \in history
      /\ \A v \in history : v <= Version
  BY <1>2, VersionFacts
<1>4. a \in 1..(Len(Steps) + 1) /\ \A j \in DOMAIN Steps : j < a => Steps[j].version <= Version
  BY <1>3, FirstAfterFacts
<1> HIDE DEF a
<1>5. [pc |-> "up", at |-> a] \in Command
  BY <1>4 DEF Command
<1>6. cmd' \in [Runners -> Command]
  BY <1>1, <1>5
<1>7. cmd'[r] = [pc |-> "up", at |-> a] /\ \A q \in Runners : q # r => cmd'[q] = cmd[q]
  BY <1>1
<1>8. ASSUME ~ forced', ~ clash'
      PROVE  CopiesAreTrue'
  <2>1. ~ forced /\ ~ clash /\ \A q \in Runners : cmd[q].pc # "down"
    BY <1>1, <1>8 DEF InFlight
  <2>2. \A q \in Runners : cmd'[q].pc # "down"
    BY <1>7, <2>1
  <2>3. \A j \in DOMAIN Steps : j < a => Steps[j].version \in history
    <3> TAKE j \in DOMAIN Steps
    <3> HAVE j < a
    <3>1. Steps[j].version <= Version /\ Version > 0 /\ Version \in history
      BY <1>3, <1>4, StepsFacts
    <3>2. PICK i \in DOMAIN Steps : Version = Steps[i].version
      BY <2>1, <3>1 DEF Versions
    <3>3. CASE Steps[j].version = Version
      BY <3>1, <3>3
    <3>4. CASE Steps[j].version < Version
      BY <2>1, <3>1, <3>2, <3>4, StepsFacts DEF AppliedIsPrefix
    <3>5. QED
      BY <1>3, <3>1, <3>3, <3>4, StepsFacts
  <2>4. \A q \in Runners : cmd'[q].pc = "up" =>
          \A j \in DOMAIN Steps : j < cmd'[q].at => Steps[j].version \in history'
    BY <1>1, <1>7, <2>1, <2>3 DEF CopiesAreTrue
  <2>5. QED
    BY <2>2, <2>4 DEF CopiesAreTrue
<1>9. HistoryMatchesTables' /\ AppliedIsPrefix'
  BY <1>1 DEF HistoryMatchesTables, AppliedIsPrefix
<1>10. QED
  BY <1>1, <1>6, <1>8, <1>9

\* A migration that is applied comes after those that are.
LEMMA UpStepKeeps ==
    ASSUME SchemaInv, NEW r \in Runners, UpStep(r)
    PROVE  SchemaInv'
<1> USE DEF SchemaInv
<1> DEFINE i == cmd[r].at
<1>1. /\ i \in DOMAIN Steps /\ cmd[r].pc = "up"
      /\ forced' = forced /\ clash' = clash
  BY CommandShape, StepsFacts DEF UpStep
<1>2. CASE ~ Creates(i)
  <2>1. cmd' = [cmd EXCEPT ![r] = NoCommand] /\ history' = history /\ tables' = tables
    BY <1>2 DEF UpStep, Goes
  <2>2. cmd' \in [Runners -> Command]
    BY <2>1 DEF Command
  <2>3. cmd'[r].pc = "idle" /\ \A q \in Runners : q # r => cmd'[q] = cmd[q]
    BY <2>1 DEF NoCommand
  <2>4. ~ forced' /\ ~ clash' => CopiesAreTrue'
    BY <1>1, <2>1, <2>3 DEF CopiesAreTrue
  <2>5. QED
    BY <1>1, <2>1, <2>2, <2>4 DEF HistoryMatchesTables, AppliedIsPrefix
<1>3. CASE Creates(i)
  <2> DEFINE v == Steps[i].version
  <2>1. /\ cmd' = [cmd EXCEPT ![r] = [pc |-> "up", at |-> i + 1]]
        /\ history' = history \cup {v} /\ tables' = tables \cup {Steps[i].table}
    BY <1>3 DEF UpStep, Goes
  <2>2. v \in Nat /\ v \in Versions
    BY <1>1, StepsFacts
  <2>3. i + 1 \in 1..(Len(Steps) + 1)
    BY <1>1, StepsFacts
  <2>4. cmd' \in [Runners -> Command]
    <3>1. [pc |-> "up", at |-> i + 1] \in Command
      BY <2>3 DEF Command
    <3>2. QED
      BY <2>1, <3>1
  <2>5. cmd'[r] = [pc |-> "up", at |-> i + 1] /\ \A q \in Runners : q # r => cmd'[q] = cmd[q]
    BY <2>1
  <2>6. \E n \in Nat : \A w \in history' : w <= n
    <3>1. PICK n \in Nat : \A w \in history : w <= n
      OBVIOUS
    <3>2. \A w \in history' : w <= n + v
      BY <2>1, <2>2, <3>1
    <3>3. n + v \in Nat
      BY <2>2
    <3>4. QED
      BY <3>2, <3>3
  <2>7. ASSUME ~ forced
        PROVE  HistoryMatchesTables'
    <3>1. \A j \in DOMAIN Steps : Steps[j].version \in history' <=> Steps[j].version \in history \/ j = i
      BY <1>1, <2>1, StepsFacts
    <3>2. TablesOf(history)' = TablesOf(history) \cup {Steps[i].table}
      BY <1>1, <3>1 DEF TablesOf
    <3>3. QED
      BY <1>1, <2>1, <2>7, <3>2 DEF HistoryMatchesTables
  <2>8. ASSUME ~ forced, ~ clash
        PROVE  AppliedIsPrefix' /\ CopiesAreTrue'
    <3>1. CopiesAreTrue /\ \A j \in DOMAIN Steps : j < i => Steps[j].version \in history
      BY <1>1, <2>8 DEF CopiesAreTrue
    <3>2. ASSUME NEW j \in DOMAIN Steps, NEW k \in DOMAIN Steps,
                 j < k, Steps[k].version \in history'
          PROVE  Steps[j].version \in history'
      <4>1. CASE Steps[k].version \in history
        BY <2>1, <2>8, <3>2, <4>1 DEF AppliedIsPrefix
      <4>2. CASE Steps[k].version = v
        BY <1>1, <2>1, <3>1, <3>2, <4>2, StepsFacts
      <4>3. QED
        BY <2>1, <3>2, <4>1, <4>2
    <3>3. \A q \in Runners : cmd'[q].pc # "down"
      BY <1>1, <2>5, <3>1 DEF CopiesAreTrue
    <3>4. ASSUME NEW q \in Runners, cmd'[q].pc = "up", NEW j \in DOMAIN Steps, j < cmd'[q].at
          PROVE  Steps[j].version \in history'
      <4>1. CASE q = r
        <5>1. j < i + 1
          BY <2>5, <3>4, <4>1
        <5>2. j < i \/ j = i
          BY <1>1, <5>1, StepsFacts
        <5>3. QED
          BY <2>1, <3>1, <5>2
      <4>2. CASE q # r
        BY <2>1, <2>5, <3>1, <3>4, <4>2 DEF CopiesAreTrue
      <4>3. QED
        BY <4>1, <4>2
    <3>5. QED
      BY <3>2, <3>3, <3>4 DEF AppliedIsPrefix, CopiesAreTrue
  <2>9. forced => HistoryMatchesTables'
    BY <1>1 DEF HistoryMatchesTables
  <2>10. forced \/ clash => AppliedIsPrefix'
    BY <1>1 DEF AppliedIsPrefix
  <2>11. QED
    BY <1>1, <2>1, <2>2, <2>4, <2>6, <2>7, <2>8, <2>9, <2>10
<1>4. QED
  BY <1>2, <1>3

\* A down that begins, begins at or beyond all that is applied.
LEMMA DownKeeps ==
    ASSUME SchemaInv, NEW r \in Runners, Down(r, DownCount)
    PROVE  SchemaInv'
<1> USE DEF SchemaInv
<1> DEFINE new == Reverting(Version, DownCount, FALSE)
<1>1. /\ history' = history /\ tables' = tables /\ forced' = forced
      /\ clash' = (clash \/ InFlight("up"))
      /\ cmd' = [cmd EXCEPT ![r] = new]
  BY DEF Down, Goes
<1>2. PICK n \in Nat : \A v \in history : v <= n
  OBVIOUS
<1>3. /\ Version \in Nat
      /\ \A v \in history : v <= Version
  BY <1>2, VersionFacts
<1>4. new \in Command
  BY <1>3, DeploymentAssumption DEF Command, Reverting
<1>5. cmd' \in [Runners -> Command]
  BY <1>1, <1>4
<1>6. cmd'[r] = Reverting(Version, DownCount, FALSE) /\ \A q \in Runners : q # r => cmd'[q] = cmd[q]
  BY <1>1
<1>7. ASSUME ~ forced', ~ clash'
      PROVE  CopiesAreTrue'
  <2>1. ~ forced /\ ~ clash /\ CopiesAreTrue /\ \A q \in Runners : cmd[q].pc # "up"
    BY <1>1, <1>7 DEF InFlight
  <2>2. \A q \in Runners : cmd'[q].pc # "up"
    BY <1>6, <2>1 DEF Reverting
  <2>3. \A q \in Runners : cmd'[q].pc = "down" => \A v \in history' : v <= cmd'[q].current
    BY <1>1, <1>3, <1>6, <2>1 DEF CopiesAreTrue, Reverting
  <2>4. \A q \in Runners : cmd'[q].pc = "down" /\ cmd'[q].skipped => cmd'[q].current \notin history'
    BY <1>1, <1>6, <2>1 DEF CopiesAreTrue, Reverting
  <2>5. QED
    BY <2>2, <2>3, <2>4 DEF CopiesAreTrue
<1>8. HistoryMatchesTables' /\ AppliedIsPrefix'
  BY <1>1 DEF HistoryMatchesTables, AppliedIsPrefix
<1>9. QED
  BY <1>1, <1>5, <1>7, <1>8

\* A row that a down takes away is the newest, or was not there.
LEMMA RowGoes ==
    ASSUME SchemaInv, NEW r \in Runners, NEW i \in DOMAIN Steps, Reverts(r, i),
           NextDown(r, i), history' = history \ {Steps[i].version},
           forced' = forced, clash' = clash
    PROVE  /\ cmd' \in [Runners -> Command]
           /\ history' \subseteq Nat
           /\ \E n \in Nat : \A w \in history' : w <= n
           /\ ~ forced => history' \subseteq Versions
           /\ AppliedIsPrefix'
           /\ ~ forced /\ ~ clash => CopiesAreTrue'
<1> USE DEF SchemaInv
<1>1. /\ cmd[r].pc = "down" /\ cmd[r].left > 0 /\ cmd[r].left \in Nat
      /\ Steps[i].version = cmd[r].current
  BY CommandShape DEF Reverts
<1> DEFINE new == Reverting(previousVersion(i), cmd[r].left - 1, FALSE)
<1>2. cmd' = [cmd EXCEPT ![r] = new]
  BY DEF NextDown, Goes
<1>3. previousVersion(i) \in Nat
  BY StepsFacts DEF previousVersion
<1>4. cmd' \in [Runners -> Command]
  <2>1. cmd[r].left - 1 \in Nat
    BY <1>1
  <2>2. new \in Command
    BY <1>3, <2>1 DEF Command, Reverting
  <2>3. QED
    BY <1>2, <2>2
<1>5. /\ cmd'[r].pc = "down" /\ cmd'[r].current = previousVersion(i) /\ cmd'[r].skipped = FALSE
      /\ \A q \in Runners : q # r => cmd'[q] = cmd[q]
  BY <1>2 DEF Reverting
<1>6. ASSUME ~ forced, ~ clash
      PROVE  AppliedIsPrefix' /\ CopiesAreTrue'
  <2>1. /\ CopiesAreTrue /\ \A v \in history : v <= Steps[i].version
        /\ history \subseteq Versions
    BY <1>1, <1>6 DEF CopiesAreTrue
  <2>2. ASSUME NEW v \in history'
        PROVE  \E j \in DOMAIN Steps : v = Steps[j].version /\ j < i
    <3>1. v \in history /\ v # Steps[i].version
      OBVIOUS
    <3>2. PICK j \in DOMAIN Steps : v = Steps[j].version
      BY <2>1, <3>1 DEF Versions
    <3>3. Steps[j].version < Steps[i].version
      BY <2>1, <3>1, <3>2, StepsFacts
    <3>4. QED
      BY <3>2, <3>3, StepsFacts
  <2>3. ASSUME NEW j \in DOMAIN Steps, NEW k \in DOMAIN Steps,
               j < k, Steps[k].version \in history'
        PROVE  Steps[j].version \in history'
    <3>1. Steps[j].version \in history
      BY <1>6, <2>3 DEF AppliedIsPrefix
    <3>2. k < i
      BY <2>2, <2>3, StepsFacts
    <3>3. Steps[j].version # Steps[i].version
      BY <2>3, <3>2, StepsFacts
    <3>4. QED
      BY <3>1, <3>3
  <2>4. \A v \in history' : v <= previousVersion(i)
    <3> TAKE v \in history'
    <3>1. PICK j \in DOMAIN Steps : v = Steps[j].version /\ j < i
      BY <2>2
    <3>2. i # 1 /\ i - 1 \in DOMAIN Steps /\ (j < i - 1 \/ j = i - 1)
      BY <3>1, StepsFacts
    <3>3. Steps[j].version <= Steps[i - 1].version
      BY <3>2, StepsFacts
    <3>4. QED
      BY <3>1, <3>2, <3>3 DEF previousVersion
  <2>5. \A q \in Runners : cmd'[q].pc # "up"
    BY <1>1, <1>5, <2>1 DEF CopiesAreTrue
  <2>6. \A q \in Runners : cmd'[q].pc = "down" => \A v \in history' : v <= cmd'[q].current
    BY <1>5, <2>1, <2>4 DEF CopiesAreTrue
  <2>7. \A q \in Runners : cmd'[q].pc = "down" /\ cmd'[q].skipped => cmd'[q].current \notin history'
    BY <1>5, <2>1 DEF CopiesAreTrue
  <2>8. QED
    BY <2>3, <2>5, <2>6, <2>7 DEF AppliedIsPrefix, CopiesAreTrue
<1>7. forced \/ clash => AppliedIsPrefix'
  BY DEF AppliedIsPrefix
<1>8. QED
  BY <1>4, <1>6, <1>7

\* A row without its step: the tables of the other rows.
LEMMA TablesWithout ==
    ASSUME NEW i \in DOMAIN Steps, NEW rows0, NEW rows1, rows1 = rows0 \ {Steps[i].version}
    PROVE  TablesOf(rows1) = TablesOf(rows0) \ {Steps[i].table}
<1>1. \A j \in DOMAIN Steps : Steps[j].version \in rows1 <=> Steps[j].version \in rows0 /\ j # i
  BY StepsFacts
<1>2. \A j \in DOMAIN Steps : j # i => Steps[j].table # Steps[i].table
  BY StepsFacts
<1>3. QED
  BY <1>1, <1>2 DEF TablesOf

\* A down whose DROP fails, or takes the table along with its row.
LEMMA DownStepKeeps ==
    ASSUME SchemaInv, NEW r \in Runners, NEW i \in DOMAIN Steps, DownStep(r, i)
    PROVE  SchemaInv'
<1> USE DEF SchemaInv
<1>1. Reverts(r, i) /\ forced' = forced /\ clash' = clash
  BY DEF DownStep
<1>2. CASE ~ Drops(i)
  <2>1. cmd' = [cmd EXCEPT ![r] = NoCommand] /\ history' = history /\ tables' = tables
    BY <1>2 DEF DownStep, Goes
  <2>2. cmd' \in [Runners -> Command]
    BY <2>1 DEF Command
  <2>3. cmd'[r].pc = "idle" /\ \A q \in Runners : q # r => cmd'[q] = cmd[q]
    BY <2>1 DEF NoCommand
  <2>4. ~ forced' /\ ~ clash' => CopiesAreTrue'
    BY <1>1, <2>1, <2>3 DEF CopiesAreTrue
  <2>5. HistoryMatchesTables' /\ AppliedIsPrefix'
    BY <1>1, <2>1 DEF HistoryMatchesTables, AppliedIsPrefix
  <2>6. QED
    BY <1>1, <2>1, <2>2, <2>4, <2>5
<1>3. CASE Drops(i)
  <2>1. /\ NextDown(r, i)
        /\ history' = history \ {Steps[i].version} /\ tables' = tables \ {Steps[i].table}
    BY <1>3 DEF DownStep
  <2>2. TablesOf(history)' = TablesOf(history) \ {Steps[i].table}
    <3>1. TablesOf(history') = TablesOf(history) \ {Steps[i].table}
      BY <2>1, TablesWithout
    <3>2. QED
      BY <3>1 DEF TablesOf
  <2>3. HistoryMatchesTables'
    BY <1>1, <2>1, <2>2 DEF HistoryMatchesTables
  <2>4. QED
    BY <1>1, <2>1, <2>3, RowGoes
<1>4. QED
  BY <1>2, <1>3

\* A down that finds no table finds no row either, but for an up beside it.
LEMMA DownSkipsKeeps ==
    ASSUME SchemaInv, NEW r \in Runners, NEW i \in DOMAIN Steps, DownSkips(r, i)
    PROVE  SchemaInv'
<1> USE DEF SchemaInv
<1>1. /\ cmd[r].pc = "down" /\ Steps[i].version = cmd[r].current /\ Steps[i].table \notin tables
      /\ history' = history /\ tables' = tables /\ forced' = forced /\ clash' = clash
      /\ cmd' = [cmd EXCEPT ![r] = Reverting(cmd[r].current, cmd[r].left, TRUE)]
  BY DEF DownSkips, Reverts, Goes
<1>2. cmd[r].current \in Nat /\ cmd[r].left \in Nat
  BY <1>1, CommandShape
<1>3. cmd' \in [Runners -> Command]
  <2>1. Reverting(cmd[r].current, cmd[r].left, TRUE) \in Command
    BY <1>2 DEF Command, Reverting
  <2>2. QED
    BY <1>1, <2>1
<1>4. /\ cmd'[r].pc = "down" /\ cmd'[r].current = cmd[r].current
      /\ \A q \in Runners : q # r => cmd'[q] = cmd[q]
  BY <1>1 DEF Reverting
<1>5. ~ forced => cmd[r].current \notin history
  BY <1>1 DEF HistoryMatchesTables, TablesOf
<1>6. ~ forced /\ ~ clash => CopiesAreTrue'
  BY <1>1, <1>4, <1>5 DEF CopiesAreTrue
<1>7. HistoryMatchesTables' /\ AppliedIsPrefix'
  BY <1>1 DEF HistoryMatchesTables, AppliedIsPrefix
<1>8. QED
  BY <1>1, <1>3, <1>6, <1>7

\* The DELETE of a down that found no table removes nothing, but for an up
\* beside it; and what it removes then leaves no row without a table.
LEMMA DownDeletesKeeps ==
    ASSUME SchemaInv, NEW r \in Runners, NEW i \in DOMAIN Steps, DownDeletes(r, i)
    PROVE  SchemaInv'
<1> USE DEF SchemaInv
<1>1. /\ Reverts(r, i) /\ NextDown(r, i) /\ history' = history \ {Steps[i].version}
      /\ tables' = tables /\ forced' = forced /\ clash' = clash
      /\ cmd[r].pc = "down" /\ cmd[r].skipped /\ Steps[i].version = cmd[r].current
  BY DEF DownDeletes, Reverts
<1>2. TablesOf(history)' = TablesOf(history) \ {Steps[i].table}
  <2>1. TablesOf(history') = TablesOf(history) \ {Steps[i].table}
    BY <1>1, TablesWithout
  <2>2. QED
    BY <2>1 DEF TablesOf
<1>3. ~ forced /\ ~ clash => history' = history
  BY <1>1 DEF CopiesAreTrue
<1>4. HistoryMatchesTables'
  <2>1. ~ forced => TablesOf(history)' \subseteq tables'
    BY <1>1, <1>2 DEF HistoryMatchesTables
  <2>2. ~ forced /\ ~ clash => tables' \subseteq TablesOf(history)'
    BY <1>1, <1>3 DEF HistoryMatchesTables, TablesOf
  <2>3. QED
    BY <1>1, <2>1, <2>2 DEF HistoryMatchesTables
<1>5. QED
  BY <1>1, <1>4, RowGoes

\* The end of a command, by itself or by an error, and a forced version.
LEMMA OthersKeep ==
    ASSUME SchemaInv, NEW r \in Runners,
           \/ UpReturns(r) \/ DownReturns(r) \/ CommandError(r)
           \/ \E version \in ForceTo : ForceVersion(r, version)
    PROVE  SchemaInv'
<1> USE DEF SchemaInv
<1>1. CASE UpReturns(r) \/ DownReturns(r) \/ CommandError(r)
  <2>1. /\ cmd' = [cmd EXCEPT ![r] = NoCommand] /\ history' = history /\ tables' = tables
        /\ forced' = forced /\ clash' = clash
    BY <1>1 DEF UpReturns, DownReturns, CommandError, Goes
  <2>2. cmd' \in [Runners -> Command]
    BY <2>1 DEF Command
  <2>3. cmd'[r].pc = "idle" /\ \A q \in Runners : q # r => cmd'[q] = cmd[q]
    BY <2>1 DEF NoCommand
  <2>4. ~ forced' /\ ~ clash' => CopiesAreTrue'
    BY <2>1, <2>3 DEF CopiesAreTrue
  <2>5. QED
    BY <2>1, <2>2, <2>4 DEF HistoryMatchesTables, AppliedIsPrefix
<1>2. ASSUME NEW version \in ForceTo, ForceVersion(r, version)
      PROVE  SchemaInv'
  <2>1. /\ history' = (IF version > 0 THEN {version} ELSE {}) /\ forced' = TRUE
        /\ cmd' = cmd /\ version \in Nat
    BY <1>2, MigrationsAssumption DEF ForceVersion
  <2>2. history' \subseteq Nat /\ \A v \in history' : v <= version
    BY <2>1
  <2>3. QED
    BY <2>1, <2>2 DEF HistoryMatchesTables, AppliedIsPrefix
<1>3. QED
  BY <1>1, <1>2

\* The schema's invariant is inductive: nothing but a command touches it.
LEMMA SchemaKeeps ==
    ASSUME SchemaInv, [Next]_vars
    PROVE  SchemaInv'
<1>1. CASE Migration
  <2>1. PICK r \in Runners :
            \/ Up(r) \/ UpStep(r) \/ Down(r, DownCount)
            \/ \E i \in DOMAIN Steps : DownStep(r, i) \/ DownSkips(r, i) \/ DownDeletes(r, i)
            \/ UpReturns(r) \/ DownReturns(r) \/ CommandError(r)
            \/ \E version \in ForceTo : ForceVersion(r, version)
    BY <1>1 DEF Migration, Migrate
  <2>2. QED
    BY <2>1, UpKeeps, UpStepKeeps, DownKeeps, DownStepKeeps, DownSkipsKeeps,
       DownDeletesKeeps, OthersKeep
<1>2. CASE UNCHANGED runnerVars
  BY <1>2 DEF runnerVars, SchemaInv, HistoryMatchesTables, AppliedIsPrefix, CopiesAreTrue
<1>3. QED
  <2>1. Migration \/ UNCHANGED runnerVars
    BY DEF Next, vars, Bootstrap, Start, LoadAccount, SaveAccount, LoadMode, SaveMode, Crash,
           ChangeMode
  <2>2. QED
    BY <1>1, <1>2, <2>1

\* An empty database, and nothing in flight.
LEMMA SchemaInit ==
    ASSUME Init
    PROVE  SchemaInv
<1>1. /\ history = {} /\ tables = {} /\ forced = FALSE /\ clash = FALSE
      /\ cmd = [r \in Runners |-> NoCommand]
  BY DEF Init, MigrationsInit
<1>2. cmd \in [Runners -> Command] /\ \A r \in Runners : cmd[r].pc = "idle"
  BY <1>1 DEF Command, NoCommand
<1>3. HistoryMatchesTables /\ AppliedIsPrefix /\ CopiesAreTrue
  BY <1>1, <1>2 DEF HistoryMatchesTables, TablesOf, AppliedIsPrefix, CopiesAreTrue
<1>4. QED
  BY <1>1, <1>2, <1>3 DEF SchemaInv

\* The schema's invariant, for every behaviour.
LEMMA SchemaInvariant == Spec => []SchemaInv
<1>1. Init => SchemaInv
  BY SchemaInit
<1>2. SchemaInv /\ [Next]_vars => SchemaInv'
  BY SchemaKeeps
<1>3. QED
  BY <1>1, <1>2, PTL DEF Spec

\* Every row of schema_migrations has its table, with any number of invocations
\* at once, an error at any point and the two statements of runInTx (runner.go
\* 194-208) at READ COMMITTED, until a version is forced; and every table has
\* its row, until an up and a down overlap as well.
THEOREM HistoryIsTheSchema == Spec => []HistoryMatchesTables
<1>1. SchemaInv => HistoryMatchesTables
  BY DEF SchemaInv
<1>2. QED
  BY <1>1, SchemaInvariant, PTL

\* What is applied is a prefix of the list (runner.go Up and Down), although
\* every invocation works from a version it read at its start.
THEOREM AppliedPrefix == Spec => []AppliedIsPrefix
<1>1. SchemaInv => AppliedIsPrefix
  BY DEF SchemaInv
<1>2. QED
  BY <1>1, SchemaInvariant, PTL

\* An up that returns nil leaves a complete schema (runner.go Up).
THEOREM UpCompletes == Spec => []UpMeansComplete
<1>1. SchemaInv => UpMeansComplete
  <2> SUFFICES ASSUME SchemaInv, NEW r \in Runners, cmd[r].pc = "up",
                      cmd[r].at > Len(Steps), ~ forced, ~ clash
               PROVE  tables = TableNames
    BY DEF UpMeansComplete, Complete
  <2>1. \A j \in DOMAIN Steps : j < cmd[r].at
    BY CommandShape, StepsFacts DEF SchemaInv
  <2>2. \A j \in DOMAIN Steps : Steps[j].version \in history
    BY <2>1 DEF SchemaInv, CopiesAreTrue
  <2>3. tables = TablesOf(history)
    BY DEF SchemaInv, HistoryMatchesTables
  <2>4. QED
    BY <2>2, <2>3 DEF TableNames, TablesOf
<1>2. QED
  BY <1>1, SchemaInvariant, PTL
-----------------------------------------------------------------------------
\* None is not a mode.
LEMMA NoneIsNoMode == None \notin Mode /\ "PAPER" \in Mode
  BY DEF None, Mode

\* The start of a process, step by step, beside everything else.
LEMMA BootKeeps ==
    ASSUME BootInv, [Next]_vars
    PROVE  BootInv'
<1> USE DEF BootInv
<1> USE NoneIsNoMode
<1>1. CASE Migration
  <2>1. proc' = proc /\ dropped' = (dropped \/ account' # account \/ mode' # mode)
    BY <1>1 DEF Migration, processVars
  <2>2. ~ dropped' => ~ dropped /\ account' = account /\ mode' = mode
    BY <2>1, Zenon
  <2>3. QED
    BY <2>1, <2>2
<1>2. ASSUME NEW p \in Processes, NEW e \in Environments, Start(p, e)
      PROVE  BootInv'
  BY <1>2 DEF Start, ProcessGoes, rows
<1>3. ASSUME NEW p \in Processes, LoadAccount(p)
      PROVE  BootInv'
  BY <1>3 DEF LoadAccount, ProcessGoes, rows
<1>4. ASSUME NEW p \in Processes, SaveAccount(p)
      PROVE  BootInv'
  BY <1>4 DEF SaveAccount, ProcessGoes
<1>5. ASSUME NEW p \in Processes, LoadMode(p)
      PROVE  BootInv'
  BY <1>5 DEF LoadMode, ProcessGoes, rows
<1>6. ASSUME NEW p \in Processes, SaveMode(p)
      PROVE  BootInv'
  BY <1>6 DEF SaveMode, ProcessGoes
<1>7. ASSUME NEW p \in Processes, Crash(p)
      PROVE  BootInv'
  BY <1>7 DEF Crash, ProcessGoes, rows
<1>8. ASSUME NEW p \in Processes, NEW target \in Targets, ChangeMode(p, target)
      PROVE  BootInv'
  <2>1. target # None
    BY DeploymentAssumption
  <2>2. QED
    BY <1>8, <2>1 DEF ChangeMode, processVars
<1>9. CASE UNCHANGED vars
  BY <1>9 DEF vars, rows, processVars
<1>10. QED
  BY <1>1, <1>2, <1>3, <1>4, <1>5, <1>6, <1>7, <1>8, <1>9 DEF Next, Bootstrap

\* A process that runs finds its rows, and they agree (lifecycle.go bootstrap),
\* with any number of processes that start and crash at the same time, until a
\* down drops a row.
THEOREM RunningFindsItsRows == Spec => []RunningIsBootstrapped
<1>1. Init => BootInv
  BY DEF Init, BootInv
<1>2. BootInv /\ [Next]_vars => BootInv'
  BY BootKeeps
<1>3. BootInv => RunningIsBootstrapped
  BY NoneIsNoMode DEF BootInv, RunningIsBootstrapped
<1>4. QED
  BY <1>1, <1>2, <1>3, PTL DEF Spec

\* No start of a process changes the mode on record (lifecycle.go bootstrap,
\* operation/queries.go): the steps that change it follow the safety matrix.
THEOREM RestartsKeepMode == Spec => ModeSurvivesRestarts
<1>1. [Next]_vars => [mode' # mode /\ mode # None => mode' = None \/ CanTransition(mode, mode')]_vars
  <2> SUFFICES ASSUME [Next]_vars, mode' # mode, mode # None
               PROVE  mode' = None \/ CanTransition(mode, mode')
    OBVIOUS
  <2>1. CASE Migration
    BY <2>1 DEF Migration
  <2>2. ASSUME NEW p \in Processes, NEW target \in Targets, ChangeMode(p, target)
        PROVE  CanTransition(mode, mode')
    BY <2>2 DEF ChangeMode
  <2>3. ASSUME NEW p \in Processes, (\E e \in Environments : Start(p, e)) \/ Bootstrap(p) \/ Crash(p)
        PROVE  FALSE
    BY <2>3 DEF Bootstrap, Start, LoadAccount, SaveAccount, LoadMode, SaveMode, Crash, rows
  <2>4. CASE UNCHANGED vars
    BY <2>4 DEF vars, rows
  <2>5. QED
    BY <2>1, <2>2, <2>3, <2>4 DEF Next
<1>2. QED
  BY <1>1, PTL DEF Spec, ModeSurvivesRestarts
-----------------------------------------------------------------------------
(* Types. *)

\* Commands: rows and tables come from the list or from a forced version, and a
\* row of the account or of the mode goes with its table.
LEMMA MigrationTyped ==
    ASSUME TypeOK, SchemaInv', Migration
    PROVE  TypeOK'
<1> USE DEF TypeOK
<1>1. PICK r \in Runners :
          \/ Up(r) \/ UpStep(r) \/ UpReturns(r) \/ Down(r, DownCount)
          \/ \E i \in DOMAIN Steps : DownStep(r, i) \/ DownSkips(r, i) \/ DownDeletes(r, i)
          \/ DownReturns(r)
          \/ \E version \in ForceTo : ForceVersion(r, version)
          \/ CommandError(r)
  BY DEF Migration, Migrate
<1>2. history \subseteq Versions \cup ForceTo /\ tables \subseteq TableNames /\ cmd \in [Runners -> Command]
      /\ commands \in 0..MaxCommands /\ forced \in BOOLEAN /\ clash \in BOOLEAN
  BY DEF MigrationsTypeOK
<1>3. history' \subseteq Versions \cup ForceTo /\ tables' \subseteq TableNames
  <2>1. CASE UpStep(r)
    <3>1. cmd[r].at \in DOMAIN Steps
      BY <1>2, <2>1, CommandShape, StepsFacts DEF UpStep
    <3>2. QED
      BY <1>2, <2>1, <3>1, StepsFacts DEF UpStep
  <2>2. CASE ~ UpStep(r)
    BY <1>1, <1>2, <2>2
    DEF Up, UpReturns, Down, DownStep, DownSkips, DownDeletes, DownReturns, ForceVersion, CommandError
  <2>3. QED
    BY <2>1, <2>2
<1>4. commands' \in 0..MaxCommands
  <2>1. commands' = commands \/ (commands < MaxCommands /\ commands' = commands + 1)
    BY <1>1
    DEF Up, UpStep, UpReturns, Down, DownStep, DownSkips, DownDeletes, DownReturns, ForceVersion, CommandError, Given
  <2>2. QED
    BY <1>2, <2>1, MigrationsAssumption
<1>5. forced' \in BOOLEAN /\ clash' \in BOOLEAN
  BY <1>1, <1>2
  DEF Up, UpStep, UpReturns, Down, DownStep, DownSkips, DownDeletes, DownReturns, ForceVersion, CommandError, InFlight
<1>6. MigrationsTypeOK'
  BY <1>3, <1>4, <1>5 DEF MigrationsTypeOK, SchemaInv
<1>7. /\ account' \in Mode \cup {None} /\ mode' \in Mode \cup {None}
      /\ account' # None => "accounts" \in tables'
      /\ mode' # None => "operational_modes" \in tables'
  BY DEF Migration
<1>8. dropped' \in BOOLEAN /\ proc' = proc /\ faults' = faults
  BY DEF Migration, processVars
<1>9. QED
  BY <1>6, <1>7, <1>8

\* Whatever a process or an operator does leaves the schema alone, and writes
\* a row only where its table is.
LEMMA ProcessTyped ==
    ASSUME TypeOK, NEW p \in Processes,
           \/ \E e \in Environments : Start(p, e)
           \/ LoadAccount(p) \/ SaveAccount(p) \/ LoadMode(p) \/ SaveMode(p) \/ Crash(p)
           \/ \E target \in Targets : ChangeMode(p, target)
    PROVE  TypeOK'
<1> USE DEF TypeOK
<1>1. UNCHANGED runnerVars /\ dropped' = dropped
  BY DEF Start, LoadAccount, SaveAccount, LoadMode, SaveMode, Crash, ChangeMode
<1>2. MigrationsTypeOK' /\ tables' = tables
  BY <1>1 DEF runnerVars, MigrationsTypeOK
<1>3. proc' \in [Processes -> {"down", "account", "newAccount", "mode", "newMode", "running"}]
  <2>1. \/ proc' = proc
        \/ \E to \in {"down", "account", "newAccount", "mode", "newMode", "running"} :
             proc' = [proc EXCEPT ![p] = to]
    BY DEF Start, LoadAccount, SaveAccount, LoadMode, SaveMode, Crash, ChangeMode, ProcessGoes,
           processVars
  <2>2. QED
    BY <2>1
<1>4. /\ account' \in Mode \cup {None} /\ mode' \in Mode \cup {None}
      /\ account' # None => "accounts" \in tables
      /\ mode' # None => "operational_modes" \in tables
  BY NoneIsNoMode, DeploymentAssumption
  DEF Start, LoadAccount, SaveAccount, LoadMode, SaveMode, Crash, ChangeMode, rows
<1>5. faults' \in 0..MaxFaults
  BY DeploymentAssumption
  DEF Start, LoadAccount, SaveAccount, LoadMode, SaveMode, Crash, ChangeMode, processVars
<1>6. QED
  BY <1>1, <1>2, <1>3, <1>4, <1>5

\* Every variable keeps its type: no command leaves a row without its table, or
\* a version that neither the list nor an operator named.
THEOREM TypeCorrect == Spec => []TypeOK
<1>1. Init => TypeOK
  <2> SUFFICES ASSUME Init PROVE TypeOK
    OBVIOUS
  <2>1. MigrationsTypeOK
    <3>1. /\ history = {} /\ tables = {} /\ cmd = [r \in Runners |-> NoCommand]
          /\ commands = 0 /\ forced = FALSE /\ clash = FALSE
      BY DEF Init, MigrationsInit
    <3>2. cmd \in [Runners -> Command] /\ 0 \in 0..MaxCommands
      BY <3>1, MigrationsAssumption DEF Command
    <3>3. QED
      BY <3>1, <3>2 DEF MigrationsTypeOK
  <2>2. 0 \in 0..MaxFaults
    BY DeploymentAssumption
  <2>3. QED
    BY <2>1, <2>2 DEF Init, TypeOK
<1>2. TypeOK /\ SchemaInv' /\ [Next]_vars => TypeOK'
  <2> SUFFICES ASSUME TypeOK, SchemaInv', [Next]_vars PROVE TypeOK'
    OBVIOUS
  <2>1. CASE UNCHANGED vars
    BY <2>1 DEF vars, rows, processVars, runnerVars, TypeOK, MigrationsTypeOK
  <2>2. QED
    BY <2>1, MigrationTyped, ProcessTyped DEF Next, Bootstrap
<1>3. QED
  BY <1>1, <1>2, SchemaInvariant, PTL DEF Spec
=============================================================================
