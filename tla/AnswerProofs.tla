---------------------------- MODULE AnswerProofs ----------------------------
(***************************************************************************)
(* What the panel answers with, for any number of tabs, users and servers, *)
(* any settings, lists and limits: to operators who do things by hand, to  *)
(* whoever starts it, and to whoever looks at a page.                      *)
(*                                                                         *)
(* Everything is on record: a migration is in the file exactly when its    *)
(* name is (Ordered); everybody's rows are what he did last, from some row *)
(* on (Kept); and a request has sent as many commands as are gone from its *)
(* plan, of which only the sending and the note are left by then (Counts). *)
(*                                                                         *)
(* The answers are honest: whoever waits has a plan that fits what he saw  *)
(* (Fair), and a page holds what its calls brought, of a goroutine those   *)
(* up to the first that failed (Made), each row of which was so while it   *)
(* was asked for (AllSaySo); what is picked from a list is the first of    *)
(* those that nothing beats (FirstIn).                                     *)
(***************************************************************************)
EXTENDS LimitProofs

-----------------------------------------------------------------------------
(***************************************************************************)
(* Coming up: what is recorded is what was done, and what a report names.  *)
(***************************************************************************)

\* An environment in which everything a report names is put right has nothing to
\* report: what was no id, or was there before, is blank, so that the entries left
\* are the usable ones, each of a server of which everything is set.
LEMMA MendedIsFine ==
  ASSUME NEW env \in Envs
  PROVE  Boot!Problems(Boot!Mended(env, Boot!Problems(env))) = Boot!Fine
<1> DEFINE problems == Boot!Problems(env)
           mended == Boot!Mended(env, problems)
<1>1. /\ env = [panel |-> env.panel, list |-> env.list, of |-> env.of, single |-> env.single]
      /\ env.list \in Seq(DOMAIN env.of \cup {Boot!Blank, Boot!Odd})
      /\ {Boot!Blank, Boot!Odd, Boot!Spare} \cap DOMAIN env.of = {}
  BY EnvsAssumption
<1>2. /\ problems.panel = Boot!Wrong(env)
      /\ problems.entries = Boot!Entries(env) \ Boot!Usable(env)
      /\ problems.servers = Boot!Lacking(env)
      /\ problems.list = (~Boot!ListUnset(env) /\ Boot!Usable(env) = {})
      /\ problems.single = (Boot!ListUnset(env) /\ Boot!HalfSet(env))
  BY DEF Boot!Problems
<1>3. /\ mended.panel = [v \in DOMAIN env.panel |->
                           IF v \in problems.panel THEN "right" ELSE env.panel[v]]
      /\ mended.single = IF problems.single THEN "whole" ELSE env.single
      /\ mended.of = [id \in DOMAIN env.of |->
                        IF id \in problems.servers THEN "whole" ELSE env.of[id]]
      /\ mended.list = IF problems.list THEN <<Boot!Spare>>
                       ELSE [i \in DOMAIN env.list |->
                               IF i \in problems.entries THEN Boot!Blank ELSE env.list[i]]
  BY <1>1 DEF Boot!Mended
<1> HIDE DEF problems, mended
<1>4. Boot!Wrong(mended) = {}
  BY <1>2, <1>3 DEF Boot!Wrong
<1>5. /\ Boot!Usable(mended) = Boot!Entries(mended) /\ Boot!Lacking(mended) = {}
      /\ Boot!ListUnset(mended) \/ Boot!Usable(mended) # {}
      /\ Boot!ListUnset(mended) => Boot!ListUnset(env)
  <2>1. CASE problems.list
    <3>1. mended.list = <<Boot!Spare>> /\ DOMAIN mended.list = 1..1
          /\ mended.list[1] = Boot!Spare
      BY <1>3, <2>1
    <3>2. Boot!Entries(mended) = {1} /\ Boot!Usable(mended) = {1}
      BY <3>1 DEF Boot!Entries, Boot!Usable, Boot!Repeated, Boot!Spare, Boot!Blank, Boot!Odd
    <3>3. Boot!Lacking(mended) = {}
      BY <3>1, <3>2 DEF Boot!Lacking, Boot!Extent
    <3>4. ~Boot!ListUnset(mended)
      <4>1. mended.list # <<Boot!Blank>>
        BY <3>1, SMT DEF Boot!Spare, Boot!Blank
      <4>2. mended.list # <<>>
        BY <3>1
      <4>3. QED
        BY <4>1, <4>2 DEF Boot!ListUnset
    <3>5. QED
      BY <3>2, <3>3, <3>4
  <2>2. CASE ~problems.list
    <3>1. mended.list = [i \in DOMAIN env.list |->
                           IF i \in problems.entries THEN Boot!Blank ELSE env.list[i]]
      BY <1>3, <2>2
    <3>2. DOMAIN mended.list = DOMAIN env.list /\ DOMAIN env.list = 1..Len(env.list)
          /\ Len(env.list) \in Nat
      BY <1>1, <3>1
    <3>3. Boot!Entries(mended) = Boot!Usable(env)
      BY <1>2, <3>1, <3>2 DEF Boot!Entries, Boot!Usable
    <3>4. ASSUME NEW i \in Boot!Usable(env)
          PROVE  i \in DOMAIN env.list /\ mended.list[i] = env.list[i]
                 /\ env.list[i] # Boot!Blank /\ i \in Boot!Usable(mended)
      <4>1. i \in DOMAIN env.list /\ env.list[i] # Boot!Blank /\ env.list[i] # Boot!Odd
            /\ ~Boot!Repeated(env, i)
        BY DEF Boot!Usable, Boot!Entries
      <4>2. mended.list[i] = env.list[i]
        BY <1>2, <3>1, <4>1
      <4>3. ~Boot!Repeated(mended, i)
        <5>1. ASSUME NEW j \in 1..(i - 1), mended.list[j] = mended.list[i]
              PROVE  FALSE
          <6>1. j \in DOMAIN env.list
            BY <3>2, <4>1
          <6>2. mended.list[j] = env.list[j]
            BY <3>1, <4>1, <4>2, <5>1, <6>1
          <6>3. QED
            BY <4>1, <4>2, <5>1, <6>2 DEF Boot!Repeated
        <5>2. QED
          BY <5>1 DEF Boot!Repeated
      <4>4. QED
        BY <3>2, <4>1, <4>2, <4>3 DEF Boot!Usable, Boot!Entries
    <3>5. Boot!Usable(mended) = Boot!Entries(mended)
      BY <3>3, <3>4 DEF Boot!Usable
    <3>6. ASSUME NEW i \in Boot!Usable(mended)
          PROVE  Boot!Extent(mended, mended.list[i]) = "whole"
      <4>1. i \in Boot!Usable(env) /\ mended.list[i] = env.list[i]
            /\ env.list[i] # Boot!Odd /\ env.list[i] # Boot!Blank /\ i \in DOMAIN env.list
        BY <3>3, <3>4, <3>5 DEF Boot!Usable
      <4>2. env.list[i] \in DOMAIN env.of
        BY <1>1, <3>2, <4>1
      <4>3. env.list[i] # Boot!Spare
        BY <1>1, <4>2
      <4>4. CASE Boot!Extent(env, env.list[i]) # "whole"
        BY <1>2, <1>3, <4>1, <4>2, <4>3, <4>4 DEF Boot!Lacking, Boot!Extent
      <4>5. CASE Boot!Extent(env, env.list[i]) = "whole"
        BY <1>2, <1>3, <4>1, <4>2, <4>3, <4>5 DEF Boot!Extent
      <4>6. QED
        BY <4>4, <4>5
    <3>7. Boot!Lacking(mended) = {}
      BY <3>6 DEF Boot!Lacking
    <3>8. mended.list = <<>> <=> env.list = <<>>
      <4>1. DOMAIN <<>> = {} /\ (Len(env.list) = 0 => env.list = <<>>)
        BY <1>1, EmptySeq
      <4>2. CASE mended.list = <<>>
        <5>1. 1..Len(env.list) = {}
          BY <3>2, <4>1, <4>2
        <5>2. ~(1 <= Len(env.list))
          BY <3>2, <5>1
        <5>3. QED
          BY <3>2, <4>1, <4>2, <5>2
      <4>3. CASE env.list = <<>>
        BY <3>1, <4>1, <4>3
      <4>4. QED
        BY <4>2, <4>3
    <3>9. ASSUME env.list = <<Boot!Blank>>
          PROVE  mended.list = <<Boot!Blank>>
      <4>1. DOMAIN env.list = 1..1 /\ env.list[1] = Boot!Blank
        BY <3>9
      <4>2. mended.list = [i \in 1..1 |-> Boot!Blank]
        BY <3>1, <4>1
      <4>3. QED
        BY <4>2
    <3>10. ASSUME mended.list = <<Boot!Blank>>
           PROVE  env.list = <<Boot!Blank>>
      <4>1. DOMAIN env.list = 1..1 /\ mended.list[1] = Boot!Blank /\ Len(env.list) = 1
        <5>1. DOMAIN mended.list = 1..1 /\ mended.list[1] = Boot!Blank
          BY <3>10
        <5>2. Len(env.list) = 1
          <6>1. 1..Len(env.list) = 1..1
            BY <3>2, <5>1
          <6>2. 1 \in 1..Len(env.list)
            BY <6>1
          <6>3. Len(env.list) \in 1..Len(env.list)
            BY <3>2, <6>2
          <6>4. Len(env.list) \in 1..1
            BY <6>1, <6>3
          <6>5. QED
            BY <6>4
        <5>3. QED
          BY <3>2, <5>1, <5>2
      <4>2. CASE Boot!Usable(env) = {}
        <5>1. Boot!ListUnset(env)
          BY <1>2, <2>2, <4>2
        <5>2. env.list # <<>>
          BY <3>8, <3>10
        <5>3. QED
          BY <5>1, <5>2 DEF Boot!ListUnset
      <4>3. CASE Boot!Usable(env) # {}
        <5>1. PICK i \in Boot!Usable(env) : TRUE
          BY <4>3
        <5>2. i = 1 /\ mended.list[i] # Boot!Blank
          BY <3>4, <4>1, <5>1
        <5>3. QED
          BY <4>1, <5>2
      <4>4. QED
        BY <4>2, <4>3
    <3>11. Boot!ListUnset(mended) <=> Boot!ListUnset(env)
      BY <3>8, <3>9, <3>10 DEF Boot!ListUnset
    <3>12. Boot!ListUnset(mended) \/ Boot!Usable(mended) # {}
      BY <1>2, <2>2, <3>3, <3>5, <3>11
    <3>13. QED
      BY <3>5, <3>7, <3>11, <3>12
  <2>3. QED
    BY <2>1, <2>2
<1>6. ~(Boot!ListUnset(mended) /\ Boot!HalfSet(mended))
  BY <1>2, <1>3, <1>5 DEF Boot!HalfSet
<1>7. Boot!Problems(mended) = Boot!Fine
  BY <1>4, <1>5, <1>6 DEF Boot!Problems, Boot!Fine
<1>8. QED
  BY <1>7 DEF mended, problems

\* The migrations in order, up to the last one there is a record of.
Migrated(d, n) == d.recorded = 1..n /\ d.done = [i \in 1..n |-> i]

\* The database, and what is in its transaction.
Ordered ==
  /\ report = <<>> \/ \E env \in Envs : report = <<env, Boot!Problems(env)>>
  /\ panel.brings \in 0..Shipped /\ panel.file \in 1..(Shipped + 1)
  /\ panel = [at |-> panel.at, brings |-> panel.brings, file |-> panel.file, tx |-> panel.tx]
  /\ panel.at \in {"down", "check", "body", "record", "commit", "seed", "load", "run",
                   "serve"}
  /\ disk = [done |-> disk.done, recorded |-> disk.recorded]
  /\ \E n \in 0..Shipped :
       /\ Migrated(disk, n)
       /\ panel.at \in {"check", "body", "record", "commit"} => panel.file <= n + 1
       /\ panel.at \in {"body", "record", "commit"} =>
            panel.file = n + 1 /\ panel.file <= panel.brings
            /\ panel.tx = [done |-> panel.tx.done, recorded |-> panel.tx.recorded]
       /\ panel.at = "body" => Migrated(panel.tx, n)
       /\ panel.at = "record" =>
            panel.tx.recorded = 1..n /\ panel.tx.done = [i \in 1..(n + 1) |-> i]
       /\ panel.at = "commit" => Migrated(panel.tx, n + 1)
       /\ panel.at \in {"seed", "load", "run", "serve"} => panel.brings <= n

LEMMA OrderedInit ==
  ASSUME Boot!Init
  PROVE  Ordered
<1>1. Shipped \in Nat
  BY EnvsAssumption
<1>2. Migrated(Boot!NoDisk, 0)
  BY DEF Migrated, Boot!NoDisk
<1>3. QED
  BY <1>1, <1>2 DEF Boot!Init, Boot!Down, Boot!NoDisk, Ordered

LEMMA OneMore ==
  ASSUME NEW n \in Nat, NEW d, d.done = [i \in 1..n |-> i]
  PROVE  Append(d.done, n + 1) = [i \in 1..(n + 1) |-> i]
<1>1. d.done \in Seq(Nat) /\ Len(d.done) = n
  OBVIOUS
<1>2. QED
  BY <1>1

LEMMA OrderedIsKept ==
  ASSUME Ordered, Boot!Next
  PROVE  Ordered'
<1>1. PICK n \in 0..Shipped :
       /\ Migrated(disk, n)
       /\ panel.at \in {"check", "body", "record", "commit"} => panel.file <= n + 1
       /\ panel.at \in {"body", "record", "commit"} =>
            panel.file = n + 1 /\ panel.file <= panel.brings
            /\ panel.tx = [done |-> panel.tx.done, recorded |-> panel.tx.recorded]
       /\ panel.at = "body" => Migrated(panel.tx, n)
       /\ panel.at = "record" =>
            panel.tx.recorded = 1..n /\ panel.tx.done = [i \in 1..(n + 1) |-> i]
       /\ panel.at = "commit" => Migrated(panel.tx, n + 1)
       /\ panel.at \in {"seed", "load", "run", "serve"} => panel.brings <= n
  BY DEF Ordered
<1>2. /\ report = <<>> \/ \E env \in Envs : report = <<env, Boot!Problems(env)>>
      /\ panel.brings \in 0..Shipped /\ panel.file \in 1..(Shipped + 1) /\ Shipped \in Nat
      /\ panel = [at |-> panel.at, brings |-> panel.brings, file |-> panel.file,
                  tx |-> panel.tx]
      /\ disk = [done |-> disk.done, recorded |-> disk.recorded]
  BY EnvsAssumption DEF Ordered
<1>3. CASE panel' = Boot!Down /\ UNCHANGED <<disk, report>>
  BY <1>1, <1>2, <1>3 DEF Ordered, Boot!Down, Boot!NoDisk, Migrated
<1>4. ASSUME NEW env \in Envs, NEW version \in 1..Shipped, Boot!Launches(env, version)
      PROVE  Ordered'
  <2>1. UNCHANGED disk /\ panel.at = "down"
    BY <1>4 DEF Boot!Launches
  <2>2. CASE UNCHANGED report /\ panel' = [Boot!Down EXCEPT !.at = "check", !.brings = version]
    <3>1. /\ panel'.at = "check" /\ panel'.brings = version /\ panel'.file = 1
          /\ panel' = [at |-> panel'.at, brings |-> panel'.brings, file |-> panel'.file,
                       tx |-> panel'.tx]
      BY <2>2 DEF Boot!Down
    <3>2. version \in 0..Shipped /\ 1 \in 1..(Shipped + 1)
      BY <1>2
    <3>3. QED
      BY <1>1, <1>2, <2>1, <2>2, <3>1, <3>2 DEF Ordered, Migrated
  <2>3. CASE UNCHANGED panel /\ report' = <<env, Boot!Problems(env)>>
    <3>1. (report = <<>> \/ \E e \in Envs : report = <<e, Boot!Problems(e)>>)'
      BY <2>3
    <3>2. QED
      BY <1>1, <1>2, <2>1, <2>3, <3>1 DEF Ordered, Migrated
  <2>4. QED
    BY <1>4, <2>2, <2>3 DEF Boot!Launches
<1>5. CASE Boot!IsRead
  BY <1>1, <1>2, <1>5 DEF Boot!IsRead, Ordered, Migrated
<1>6. CASE Boot!Checks
  <2>1. panel.at = "check" /\ UNCHANGED <<disk, report>>
    BY <1>6 DEF Boot!Checks
  <2>2. CASE panel.file > panel.brings
    <3>1. panel' = [panel EXCEPT !.at = "seed"]
      BY <1>2, <1>6, <2>2 DEF Boot!Checks, Boot!Goes
    <3>2. panel.brings <= n
      BY <1>1, <1>2, <2>1, <2>2
    <3>3. QED
      BY <1>1, <1>2, <2>1, <3>1, <3>2 DEF Ordered, Migrated
  <2>3. CASE panel.file <= panel.brings /\ panel.file \in disk.recorded
    <3>1. panel' = [panel EXCEPT !.file = panel.file + 1]
      BY <1>2, <1>6, <2>2, <2>3 DEF Boot!Checks
    <3>2. panel.file <= n /\ panel.file + 1 \in 1..(Shipped + 1)
      BY <1>1, <1>2, <2>3 DEF Migrated
    <3>3. /\ panel'.at = "check" /\ panel'.brings = panel.brings
          /\ panel'.file = panel.file + 1
          /\ panel' = [at |-> panel'.at, brings |-> panel'.brings, file |-> panel'.file,
                       tx |-> panel'.tx]
      BY <1>2, <2>1, <3>1
    <3>4. panel'.file <= n + 1
      BY <1>2, <3>2, <3>3
    <3>5. QED
      BY <1>1, <1>2, <2>1, <3>2, <3>3, <3>4 DEF Ordered, Migrated
  <2>4. CASE panel.file <= panel.brings /\ panel.file \notin disk.recorded
    <3>1. panel' = [panel EXCEPT !.at = "body", !.tx = disk]
      BY <1>2, <1>6, <2>2, <2>4 DEF Boot!Checks
    <3>2. panel.file = n + 1
      BY <1>1, <1>2, <2>1, <2>4 DEF Migrated
    <3>3. QED
      BY <1>1, <1>2, <2>1, <2>4, <3>1, <3>2 DEF Ordered, Migrated
  <2>5. QED
    BY <1>2, <2>2, <2>3, <2>4
<1>7. CASE Boot!Executes
  <2>1. /\ panel.at = "body" /\ UNCHANGED <<disk, report>> /\ panel.file = n + 1
        /\ panel.tx = [done |-> panel.tx.done, recorded |-> panel.tx.recorded]
        /\ Migrated(panel.tx, n) /\ panel.file <= panel.brings
    BY <1>1, <1>7 DEF Boot!Executes
  <2>2. panel' = [panel EXCEPT !.at = "record", !.tx.done = Append(panel.tx.done, n + 1)]
    BY <1>2, <1>7, <2>1 DEF Boot!Executes
  <2>3. /\ panel'.at = "record" /\ panel'.brings = panel.brings /\ panel'.file = panel.file
        /\ panel'.tx = [done |-> Append(panel.tx.done, n + 1), recorded |-> panel.tx.recorded]
        /\ panel' = [at |-> panel'.at, brings |-> panel'.brings, file |-> panel'.file,
                     tx |-> panel'.tx]
    BY <1>2, <2>1, <2>2
  <2>4. Append(panel.tx.done, n + 1) = [i \in 1..(n + 1) |-> i]
    BY <2>1, OneMore DEF Migrated
  <2>5. panel'.tx.recorded = 1..n /\ panel'.tx.done = [i \in 1..(n + 1) |-> i]
    BY <2>1, <2>3, <2>4 DEF Migrated
  <2>6. QED
    <3>1. Migrated(disk, n)'
      BY <1>1, <2>1 DEF Migrated
    <3>2. panel'.tx = [done |-> panel'.tx.done, recorded |-> panel'.tx.recorded]
      BY <2>3
    <3>3. QED
      BY <1>2, <2>1, <2>3, <2>5, <3>1, <3>2 DEF Ordered
<1>8. CASE Boot!Records
  <2>1. /\ panel.at = "record" /\ UNCHANGED <<disk, report>> /\ panel.file = n + 1
        /\ panel.tx = [done |-> panel.tx.done, recorded |-> panel.tx.recorded]
        /\ panel.file <= panel.brings
        /\ panel.tx.recorded = 1..n /\ panel.tx.done = [i \in 1..(n + 1) |-> i]
    BY <1>1, <1>8 DEF Boot!Records
  <2>2. panel' = [panel EXCEPT !.at = "commit",
                    !.tx.recorded = panel.tx.recorded \cup {panel.file}]
    BY <1>2, <1>8, <2>1 DEF Boot!Records
  <2>3. /\ panel'.at = "commit" /\ panel'.brings = panel.brings /\ panel'.file = panel.file
        /\ panel'.tx = [done |-> panel.tx.done,
                        recorded |-> panel.tx.recorded \cup {panel.file}]
        /\ panel' = [at |-> panel'.at, brings |-> panel'.brings, file |-> panel'.file,
                     tx |-> panel'.tx]
    BY <1>2, <2>1, <2>2
  <2>4. panel.tx.recorded \cup {panel.file} = 1..(n + 1)
    BY <2>1
  <2>5. QED
    BY <1>1, <1>2, <2>1, <2>3, <2>4 DEF Ordered, Migrated
<1>9. CASE Boot!Commits
  <2>1. /\ panel.at = "commit" /\ UNCHANGED report /\ disk' = panel.tx /\ panel.file = n + 1
        /\ panel.tx = [done |-> panel.tx.done, recorded |-> panel.tx.recorded]
        /\ panel.file <= panel.brings /\ Migrated(panel.tx, n + 1)
    BY <1>1, <1>9 DEF Boot!Commits
  <2>2. panel' = [panel EXCEPT !.at = "check", !.file = panel.file + 1, !.tx = Boot!NoDisk]
    BY <1>2, <1>9 DEF Boot!Commits
  <2>3. n + 1 \in 0..Shipped /\ panel.file + 1 \in 1..(Shipped + 1)
    BY <1>2, <2>1
  <2>4. Migrated(disk, n + 1)'
    BY <2>1 DEF Migrated
  <2>5. /\ panel'.at = "check" /\ panel'.brings = panel.brings
        /\ panel'.file = panel.file + 1
        /\ panel' = [at |-> panel'.at, brings |-> panel'.brings, file |-> panel'.file,
                     tx |-> panel'.tx]
    BY <1>2, <2>2
  <2>6. disk' = [done |-> disk'.done, recorded |-> disk'.recorded]
    BY <2>1
  <2>7. panel'.file <= (n + 1) + 1
    BY <2>1, <2>5
  <2>8. QED
    BY <1>2, <2>1, <2>3, <2>4, <2>5, <2>6, <2>7 DEF Ordered
<1>10. CASE Boot!GoesOn
  <2>1. PICK at \in {"load", "run", "serve"} : panel' = [panel EXCEPT !.at = at]
    BY <1>10 DEF Boot!GoesOn, Boot!Goes
  <2>2. panel.at \in {"seed", "load", "run"} /\ UNCHANGED <<disk, report>>
    BY <1>10 DEF Boot!GoesOn
  <2>3. QED
    BY <1>1, <1>2, <2>1, <2>2 DEF Ordered, Migrated
<1>11. QED
  BY <1>3, <1>4, <1>5, <1>6, <1>7, <1>8, <1>9, <1>10 DEF Boot!Next, Boot!Stops, Boot!Dies

LEMMA OrderedHolds ==
  ASSUME Ordered
  PROVE  Boot!TypeOK /\ Boot!MigratedOnce /\ Boot!ReportIsWhole
<1>1. PICK n \in 0..Shipped :
       /\ Migrated(disk, n)
       /\ panel.at \in {"seed", "load", "run", "serve"} => panel.brings <= n
  BY DEF Ordered
<1>2. Shipped \in Nat /\ panel.brings \in 0..Shipped
  BY EnvsAssumption DEF Ordered
<1>3. Cardinality(disk.recorded) = n
  BY <1>1, <1>2, FS_Interval DEF Migrated
<1>4. Boot!Range(disk.done) = 1..n
  BY <1>1, <1>2 DEF Migrated, Boot!Range
<1>5. Boot!MigratedOnce
  <2>1. Boot!Cardinality(disk.recorded) = n
    BY <1>3 DEF Cardinality, Boot!Cardinality
  <2>2. QED
    BY <1>1, <1>2, <2>1, <1>4 DEF Migrated, Boot!MigratedOnce
<1>6. Boot!ReportIsWhole
  BY MendedIsFine DEF Ordered, Boot!ReportIsWhole
<1>7. Boot!TypeOK
  BY <1>1, <1>2 DEF Ordered, Migrated, Boot!TypeOK
<1>8. QED
  BY <1>5, <1>6, <1>7
-----------------------------------------------------------------------------
(***************************************************************************)
(* The operators' history: the newest of everybody's rows.                 *)
(***************************************************************************)

LEMMA SameNumber ==
  ASSUME NEW S, IsFiniteSet(S), NEW T, NEW f \in [S -> T],
         \A x, y \in S : f[x] = f[y] => x = y, \A z \in T : \E x \in S : f[x] = z
  PROVE  IsFiniteSet(T) /\ Cardinality(T) = Cardinality(S)
<1>1. f \in Bijection(S, T)
  BY DEF Bijection, Injection, Surjection, IsInjective
<1>2. QED
  BY <1>1, FS_Bijection DEF ExistsBijection

\* Rows in the order of their ids.
InOrderOfIds(w) == \A i, j \in DOMAIN w : i < j => w[i].id < w[j].id

\* Of the rows from the one after k on, the newest are the last ones.
LEMMA NewestAreLast ==
  ASSUME NEW Row, \A entry \in Row : entry.id \in Nat, NEW w \in Seq(Row), InOrderOfIds(w),
         NEW k \in 0..Len(w), k = 0 \/ k + Keep <= Len(w)
  PROVE  Hands!Newest({w[i] : i \in (k + 1)..Len(w)}, Keep)
           = {w[i] : i \in {j \in DOMAIN w : j + Keep > Len(w)}}
<1> DEFINE S == {w[i] : i \in (k + 1)..Len(w)}
<1>1. Keep \in Nat \ {0} /\ Len(w) \in Nat /\ DOMAIN w = 1..Len(w)
      /\ \A i \in 1..Len(w) : w[i] \in Row /\ w[i].id \in Nat
  BY ServicesAssumption
<1>2. ASSUME NEW i \in (k + 1)..Len(w)
      PROVE  Cardinality({q \in S : q.id > w[i].id}) = Len(w) - i
  <2> DEFINE later == (i + 1)..Len(w)
             T == {q \in S : q.id > w[i].id}
             f == [j \in later |-> w[j]]
  <2>1. IsFiniteSet(later) /\ Cardinality(later) = Len(w) - i
    <3>1. i \in Int /\ i + 1 \in Int /\ Len(w) \in Int /\ i <= Len(w)
      BY <1>1
    <3>2. /\ IsFiniteSet((i + 1)..Len(w))
          /\ Cardinality((i + 1)..Len(w)) =
               IF i + 1 > Len(w) THEN 0 ELSE Len(w) - (i + 1) + 1
      BY <3>1, FS_Interval
    <3>3. QED
      BY <3>1, <3>2
  <2>2. f \in [later -> T]
    <3>1. ASSUME NEW j \in later
          PROVE  w[j] \in S /\ w[j].id > w[i].id
      BY <1>1 DEF InOrderOfIds
    <3>2. QED
      BY <3>1
  <2>3. \A x, y \in later : f[x] = f[y] => x = y
    <3>1. ASSUME NEW x \in later, NEW y \in later, x < y
          PROVE  w[x].id < w[y].id
      BY <1>1, <3>1 DEF InOrderOfIds
    <3>2. ASSUME NEW x \in later, NEW y \in later, w[x] = w[y]
          PROVE  x = y
      <4>1. w[x].id \in Nat /\ x \in Nat /\ y \in Nat
        BY <1>1
      <4>2. ~(x < y) /\ ~(y < x)
        BY <3>1, <3>2, <4>1
      <4>3. QED
        BY <4>1, <4>2
    <3>3. QED
      BY <3>2
  <2>4. \A z \in T : \E x \in later : f[x] = z
    <3>1. ASSUME NEW z \in T
          PROVE  \E x \in later : f[x] = z
      <4>1. PICK j \in (k + 1)..Len(w) : z = w[j]
        OBVIOUS
      <4>2. ~(j < i) /\ j # i
        BY <1>1, <4>1 DEF InOrderOfIds
      <4>3. j \in later
        BY <1>1, <4>2
      <4>4. QED
        BY <4>1, <4>3
    <3>2. QED
      BY <3>1
  <2>5. Cardinality(T) = Cardinality(later)
    <3> HIDE DEF later, T, f
    <3>1. QED
      BY <2>1, <2>2, <2>3, <2>4, SameNumber
  <2>6. QED
    BY <2>1, <2>5
<1>3. \A A : Hands!Cardinality(A) = Cardinality(A)
  BY DEF Cardinality, Hands!Cardinality
<1>4. Hands!Newest(S, Keep) = {r \in S : Cardinality({q \in S : q.id > r.id}) < Keep}
  BY <1>3 DEF Hands!Newest
<1> DEFINE L == {w[i] : i \in {j \in DOMAIN w : j + Keep > Len(w)}}
           N == {r \in S : Cardinality({q \in S : q.id > r.id}) < Keep}
<1>5. ASSUME NEW r \in N
      PROVE  r \in L
  <2>1. PICK i \in (k + 1)..Len(w) : r = w[i]
    OBVIOUS
  <2> HIDE DEF S
  <2>2. Len(w) - i < Keep
    BY <1>2, <2>1
  <2>3. i \in DOMAIN w /\ i + Keep > Len(w)
    BY <1>1, <2>2
  <2>4. QED
    BY <2>1, <2>3
<1>6. ASSUME NEW r \in L
      PROVE  r \in N
  <2>1. PICK i \in DOMAIN w : r = w[i] /\ i + Keep > Len(w)
    OBVIOUS
  <2>2. i \in (k + 1)..Len(w)
    BY <1>1, <2>1
  <2>3. r \in S
    BY <2>1, <2>2
  <2> HIDE DEF S
  <2>4. Cardinality({q \in S : q.id > r.id}) < Keep
    BY <1>1, <1>2, <2>1, <2>2
  <2>5. QED
    BY <2>3, <2>4
<1>7. N = L
  BY <1>5, <1>6
<1>8. QED
  BY <1>4, <1>7

\* What may be a row, up to an id and to so many requests.
RowsUpTo(u, last, n) == [id : 1..last, user : {u}, n : 1..n]

\* Everybody's rows are what he did last, from some row on, and at least Keep of them
\* where there are so many.
Kept ==
  /\ begun \in Nat
  /\ table = [rows |-> table.rows, last |-> table.last] /\ table.last \in Nat
  /\ table.rows \subseteq [id : 1..table.last, user : Users, n : 1..begun]
  /\ written = [u \in Users |-> written[u]]
  /\ \A u \in Users :
       /\ written[u] \in Seq(RowsUpTo(u, table.last, begun))
       /\ InOrderOfIds(written[u])
       /\ \E k \in 0..Len(written[u]) :
            /\ k = 0 \/ k + Keep <= Len(written[u])
            /\ Hands!RowsOf(u) = {written[u][i] : i \in (k + 1)..Len(written[u])}

LEMMA KeptShowsTheNewest ==
  ASSUME Kept, NEW u \in Users
  PROVE  Hands!Recent(u, Keep) =
           {written[u][i] : i \in {j \in DOMAIN written[u] : j + Keep > Len(written[u])}}
<1>1. PICK k \in 0..Len(written[u]) :
        /\ k = 0 \/ k + Keep <= Len(written[u])
        /\ Hands!RowsOf(u) = {written[u][i] : i \in (k + 1)..Len(written[u])}
  BY DEF Kept
<1>2. /\ written[u] \in Seq(RowsUpTo(u, table.last, begun)) /\ InOrderOfIds(written[u])
      /\ \A entry \in RowsUpTo(u, table.last, begun) : entry.id \in Nat
  BY DEF Kept, RowsUpTo
<1>3. QED
  BY <1>1, <1>2, NewestAreLast DEF Hands!Recent

LEMMA KeptInit ==
  ASSUME Hands!Init
  PROVE  Kept
<1>1. /\ table = [rows |-> {}, last |-> 0] /\ written = [u \in Users |-> <<>>] /\ begun = 0
  BY DEF Hands!Init
<1>2. ASSUME NEW u \in Users
      PROVE  /\ written[u] \in Seq(RowsUpTo(u, table.last, begun))
             /\ InOrderOfIds(written[u])
             /\ \E k \in 0..Len(written[u]) :
                  /\ k = 0 \/ k + Keep <= Len(written[u])
                  /\ Hands!RowsOf(u) = {written[u][i] : i \in (k + 1)..Len(written[u])}
  <2>1. written[u] = <<>> /\ Len(written[u]) = 0 /\ DOMAIN written[u] = {}
    BY <1>1
  <2>2. Hands!RowsOf(u) = {} /\ {written[u][i] : i \in (0 + 1)..0} = {}
    BY <1>1 DEF Hands!RowsOf
  <2>3. QED
    BY <2>1, <2>2 DEF InOrderOfIds
<1>3. QED
  BY <1>1, <1>2 DEF Kept

\* A request begins, or nothing is recorded.
LEMMA KeptGoesOn ==
  ASSUME Kept, UNCHANGED <<table, written>>, begun' \in Nat, begun' >= begun
  PROVE  Kept'
<1>1. \A u, last : RowsUpTo(u, last, begun) \subseteq RowsUpTo(u, last, begun')
  BY DEF Kept, RowsUpTo
<1>2. [id : 1..table.last, user : Users, n : 1..begun]
        \subseteq [id : 1..table.last, user : Users, n : 1..begun']
  BY DEF Kept
<1>3. ASSUME NEW u \in Users
      PROVE  written[u] \in Seq(RowsUpTo(u, table.last, begun'))
  <2>1. written[u] \in Seq(RowsUpTo(u, table.last, begun))
    BY DEF Kept
  <2>2. QED
    BY <1>1, <2>1
<1>4. \A u : Hands!RowsOf(u)' = Hands!RowsOf(u)
  BY DEF Hands!RowsOf
<1>5. QED
  BY <1>2, <1>3, <1>4 DEF Kept, InOrderOfIds

LEMMA KeptRecords ==
  ASSUME Kept, NEW t \in Tabs, Hands!Records(t), tab[t].user \in Users, tab[t].n \in 1..begun
  PROVE  Kept'
<1> DEFINE u == tab[t].user
           entry == [id |-> table.last + 1, user |-> u, n |-> tab[t].n]
<1>1. /\ table' = [rows |-> table.rows \cup {entry}, last |-> table.last + 1]
      /\ written' = [written EXCEPT ![u] = Append(written[u], entry)] /\ UNCHANGED begun
  BY DEF Hands!Records
<1>2. /\ begun \in Nat /\ table.last \in Nat /\ written = [v \in Users |-> written[v]]
      /\ table.rows \subseteq [id : 1..table.last, user : Users, n : 1..begun]
  BY DEF Kept
<1>3. table'.rows = table.rows \cup {entry} /\ table'.last = table.last + 1
  BY <1>1
<1>4. entry \in RowsUpTo(u, table'.last, begun)
  BY <1>2, <1>3 DEF RowsUpTo
<1>5. table'.rows \subseteq [id : 1..table'.last, user : Users, n : 1..begun']
  BY <1>1, <1>2, <1>3
<1>6. written' = [v \in Users |-> written'[v]] /\ written'[u] = Append(written[u], entry)
      /\ \A v \in Users : v # u => written'[v] = written[v]
  BY <1>1, <1>2
<1>7. \A v \in Users : RowsUpTo(v, table.last, begun) \subseteq RowsUpTo(v, table'.last, begun')
  BY <1>1, <1>2, <1>3 DEF RowsUpTo
<1>8. entry.id = table.last + 1 /\ entry.user = u
  OBVIOUS
<1> HIDE DEF entry
<1>9. ASSUME NEW v \in Users
      PROVE  /\ written'[v] \in Seq(RowsUpTo(v, table'.last, begun'))
             /\ InOrderOfIds(written'[v])
             /\ \E k \in 0..Len(written'[v]) :
                  /\ k = 0 \/ k + Keep <= Len(written'[v])
                  /\ Hands!RowsOf(v)' = {written'[v][i] : i \in (k + 1)..Len(written'[v])}
  <2>1. PICK k \in 0..Len(written[v]) :
          /\ k = 0 \/ k + Keep <= Len(written[v])
          /\ Hands!RowsOf(v) = {written[v][i] : i \in (k + 1)..Len(written[v])}
    BY DEF Kept
  <2>2. written[v] \in Seq(RowsUpTo(v, table.last, begun)) /\ InOrderOfIds(written[v])
    BY DEF Kept
  <2>3. written[v] \in Seq(RowsUpTo(v, table'.last, begun'))
    BY <1>7, <2>2
  <2>4. CASE v # u
    <3>1. Hands!RowsOf(v)' = Hands!RowsOf(v)
      BY <1>3, <1>8, <2>4 DEF Hands!RowsOf
    <3>2. written'[v] = written[v]
      BY <1>6, <2>4
    <3>3. QED
      BY <2>1, <2>2, <2>3, <3>1, <3>2
  <2>5. CASE v = u
    <3> DEFINE w == written[v]
               more == Append(w, entry)
    <3>1. Keep \in Nat /\ Len(w) \in Nat
      BY <2>2, ServicesAssumption
    <3>2. /\ written'[v] = more /\ more \in Seq(RowsUpTo(v, table'.last, begun'))
          /\ Len(more) = Len(w) + 1 /\ more[Len(w) + 1] = entry
          /\ \A i \in 1..Len(w) : more[i] = w[i]
          /\ DOMAIN more = 1..(Len(w) + 1) /\ DOMAIN w = 1..Len(w)
      BY <1>1, <1>4, <1>6, <2>3, <2>5
    <3>3. \A i \in 1..Len(w) : w[i] \in RowsUpTo(v, table.last, begun)
      BY <2>2
    <3> HIDE DEF more, w
    <3>4. InOrderOfIds(more)
      <4>1. ASSUME NEW i \in DOMAIN more, NEW j \in DOMAIN more, i < j
            PROVE  more[i].id < more[j].id
        <5>1. i \in 1..Len(w) /\ more[i] = w[i]
          BY <3>1, <3>2, <4>1
        <5>2. CASE j = Len(w) + 1
          <6>1. more[j].id = table.last + 1
            BY <1>8, <3>2, <5>2
          <6>2. w[i].id \in Nat /\ w[i].id <= table.last
            <7>1. w[i] \in RowsUpTo(v, table.last, begun)
              BY <3>3, <5>1
            <7>2. w[i].id \in 1..table.last
              BY <7>1 DEF RowsUpTo
            <7>3. QED
              BY <1>2, <7>2
          <6>3. QED
            BY <1>2, <5>1, <6>1, <6>2
        <5>3. CASE j # Len(w) + 1
          <6>1. j \in 1..Len(w) /\ more[j] = w[j]
            BY <3>1, <3>2, <5>3
          <6>2. QED
            BY <2>2, <3>2, <4>1, <5>1, <6>1 DEF InOrderOfIds, w
        <5>4. QED
          BY <5>2, <5>3
      <4>2. QED
        BY <4>1 DEF InOrderOfIds
    <3>5. Hands!RowsOf(v)' = {more[i] : i \in (k + 1)..Len(more)}
      <4>1. Hands!RowsOf(v)' = Hands!RowsOf(v) \cup {entry}
        BY <1>3, <1>8, <2>5 DEF Hands!RowsOf
      <4>2. Hands!RowsOf(v) = {w[i] : i \in (k + 1)..Len(w)}
        BY <2>1 DEF w
      <4>3. \A i \in (k + 1)..Len(w) : i \in 1..Len(w) /\ more[i] = w[i]
        BY <3>1, <3>2 
      <4>4. (k + 1)..Len(more) = ((k + 1)..Len(w)) \cup {Len(w) + 1}
        BY <2>1, <3>1, <3>2 DEF w
      <4>5. QED
        BY <3>2, <4>1, <4>2, <4>3, <4>4
    <3>6. k \in 0..Len(more) /\ (k = 0 \/ k + Keep <= Len(more))
      BY <2>1, <3>1, <3>2 DEF w
    <3>7. QED
      BY <3>2, <3>4, <3>5, <3>6
  <2>6. QED
    BY <2>4, <2>5
<1>10. QED
  <2>1. table' = [rows |-> table'.rows, last |-> table'.last] /\ table'.last \in Nat
    BY <1>1, <1>2, <1>3
  <2>2. QED
    BY <1>1, <1>2, <1>5, <1>6, <1>9, <2>1 DEF Kept, InOrderOfIds, RowsUpTo

LEMMA KeptPrunes ==
  ASSUME Kept, Hands!Prunes
  PROVE  Kept'
<1>1. /\ table' = [table EXCEPT !.rows = Hands!Pruned(table.rows)]
      /\ UNCHANGED <<written, begun>>
  BY DEF Hands!Prunes
<1>2. /\ table'.rows = Hands!Pruned(table.rows) /\ table'.last = table.last
      /\ table' = [rows |-> table'.rows, last |-> table'.last]
  BY <1>1 DEF Kept
<1>3. table'.rows \subseteq table.rows
  BY <1>2 DEF Hands!Pruned
<1>4. ASSUME NEW u \in Users
      PROVE  \E k \in 0..Len(written[u]) :
               /\ k = 0 \/ k + Keep <= Len(written[u])
               /\ Hands!RowsOf(u)' = {written[u][i] : i \in (k + 1)..Len(written[u])}
  <2> DEFINE w == written[u]
             k == IF Len(w) <= Keep THEN 0 ELSE Len(w) - Keep
  <2>1. Keep \in Nat \ {0} /\ Len(w) \in Nat /\ DOMAIN w = 1..Len(w)
    BY ServicesAssumption DEF Kept
  <2>2. Hands!RowsOf(u)' = Hands!Recent(u, Keep)
    <3>1. \A r \in table.rows : r.user = u =>
            {q \in table.rows : q.user = r.user} = Hands!RowsOf(u)
      BY DEF Hands!RowsOf
    <3>2. Hands!RowsOf(u)' = {r \in table'.rows : r.user = u}
      BY DEF Hands!RowsOf
    <3>3. Hands!RowsOf(u)' =
            {r \in table.rows : r.user = u /\ r \in Hands!Newest(Hands!RowsOf(u), Keep)}
      BY <1>2, <3>1, <3>2 DEF Hands!Pruned
    <3>4. Hands!Newest(Hands!RowsOf(u), Keep) \subseteq Hands!RowsOf(u)
      BY DEF Hands!Newest
    <3>5. QED
      BY <3>3, <3>4 DEF Hands!Recent, Hands!RowsOf
  <2>3. {j \in DOMAIN w : j + Keep > Len(w)} = (k + 1)..Len(w)
    BY <2>1
  <2>4. Hands!RowsOf(u)' = {w[i] : i \in (k + 1)..Len(w)}
    BY <2>2, <2>3, KeptShowsTheNewest
  <2>5. k \in 0..Len(w) /\ (k = 0 \/ k + Keep <= Len(w))
    BY <2>1
  <2> HIDE DEF k
  <2>6. QED
    BY <2>4, <2>5
<1>5. QED
  <2>1. table'.rows \subseteq [id : 1..table'.last, user : Users, n : 1..begun']
    BY <1>1, <1>2, <1>3 DEF Kept
  <2>2. \A u \in Users : written'[u] \in Seq(RowsUpTo(u, table'.last, begun'))
    BY <1>1, <1>2 DEF Kept
  <2>3. ASSUME NEW u \in Users
        PROVE  /\ InOrderOfIds(written'[u])
               /\ \E k \in 0..Len(written'[u]) :
                    /\ k = 0 \/ k + Keep <= Len(written'[u])
                    /\ Hands!RowsOf(u)' = {written'[u][i] : i \in (k + 1)..Len(written'[u])}
    <3>1. written' = written /\ InOrderOfIds(written[u])
      BY <1>1 DEF Kept
    <3>2. QED
      BY <1>4, <3>1
  <2>4. written' = [u \in Users |-> written'[u]] /\ table'.last \in Nat /\ begun' \in Nat
    BY <1>1, <1>2 DEF Kept
  <2>5. QED
    BY <1>2, <2>1, <2>2, <2>3, <2>4 DEF Kept, InOrderOfIds, RowsUpTo
-----------------------------------------------------------------------------
(***************************************************************************)
(* The plans of the handlers.                                              *)
(***************************************************************************)

Steps == {"origin", "session", "server", "path", "body", "arguments", "lookup", "known",
          "policy", "settable", "send", "record", "prefs", "live", "readback"}
AfterSend == {"send", "record", "readback"}
Early == Steps \ (AfterSend \cup {"settable", "live"})
Checks == Seq(Early)

\* What does not come after what.
OutOfOrder(a, b) ==
  \/ a \in AfterSend /\ b \notin AfterSend
  \/ a = "settable" /\ b = "live"
  \/ a = "live" /\ b = "prefs"
  \/ a = "readback" /\ b \in {"send", "readback"}

InOrder(rest) == \A i, j \in DOMAIN rest : i < j => ~OutOfOrder(rest[i], rest[j])
Has(rest, step) == \E i \in DOMAIN rest : rest[i] = step
Only(rest, steps) == \A i \in DOMAIN rest : rest[i] \in steps
Once(rest, step) == \A i, j \in DOMAIN rest : rest[i] = step /\ rest[j] = step => i = j
Sends(rest) == Cardinality({i \in DOMAIN rest : rest[i] = "send"})

\* What is asked for, and the plan for it.
Provided(req, rest) ==
  /\ rest \in Seq(Steps) /\ InOrder(rest)
  /\ req.page \in {"settings", "actions"}
  /\ req.page = "actions" => Only(rest, Steps \ {"live", "readback"})
  /\ req.page = "actions" /\ req.changes => Has(rest, "record")
  /\ req.page = "settings" => Only(rest, Steps \ {"record"}) /\ Once(rest, "send")
  /\ req.page = "settings" /\ ~req.changes => Only(rest, Steps \ AfterSend)
  /\ req.page = "settings" /\ req.changes => Has(rest, "settable") /\ Has(rest, "send")

\* Checks in front of a plan leave its order.
LEMMA EarlierFirst ==
  ASSUME NEW req, NEW head \in Seq(Early), NEW tail, Provided(req, tail)
  PROVE  Provided(req, head \o tail)
<1> DEFINE rest == head \o tail
<1>1. /\ Len(head) \in Nat /\ Len(tail) \in Nat /\ tail \in Seq(Steps) /\ head \in Seq(Steps)
      /\ DOMAIN head = 1..Len(head) /\ DOMAIN tail = 1..Len(tail)
  <2>1. Early \subseteq Steps
    BY DEF Early
  <2>2. QED
    BY <2>1 DEF Provided
<1>2. /\ rest \in Seq(Steps) /\ DOMAIN rest = 1..(Len(head) + Len(tail))
      /\ \A i \in 1..Len(head) : rest[i] = head[i] /\ rest[i] \in Early
      /\ \A i \in 1..(Len(head) + Len(tail)) :
           i > Len(head) => i - Len(head) \in DOMAIN tail /\ rest[i] = tail[i - Len(head)]
  BY <1>1
<1>3. \A i \in 1..Len(tail) : Len(head) + i \in DOMAIN rest /\ rest[Len(head) + i] = tail[i]
  BY <1>1, <1>2
<1> HIDE DEF rest
<1>4. InOrder(rest)
  <2>1. ASSUME NEW i \in DOMAIN rest, NEW j \in DOMAIN rest, i < j
        PROVE  ~OutOfOrder(rest[i], rest[j])
    <3>1. CASE i <= Len(head)
      <4>1. rest[i] \in Early
        BY <1>1, <1>2, <3>1
      <4>2. QED
        BY <4>1 DEF OutOfOrder, Early, AfterSend
    <3>2. CASE i > Len(head)
      <4>1. /\ i - Len(head) \in DOMAIN tail /\ rest[i] = tail[i - Len(head)]
            /\ j - Len(head) \in DOMAIN tail /\ rest[j] = tail[j - Len(head)]
            /\ i - Len(head) < j - Len(head)
        BY <1>1, <1>2, <2>1, <3>2
      <4>2. QED
        BY <4>1 DEF Provided, InOrder
    <3>3. QED
      BY <1>1, <1>2, <3>1, <3>2
  <2>2. QED
    BY <2>1 DEF InOrder
<1>5. ASSUME NEW steps, Only(tail, steps), Early \subseteq steps
      PROVE  Only(rest, steps)
  <2>1. ASSUME NEW i \in DOMAIN rest
        PROVE  rest[i] \in steps
    <3>1. CASE i <= Len(head)
      BY <1>1, <1>2, <1>5, <3>1
    <3>2. CASE i > Len(head)
      BY <1>1, <1>2, <1>5, <3>2 DEF Only
    <3>3. QED
      BY <1>1, <1>2, <3>1, <3>2
  <2>2. QED
    BY <2>1 DEF Only
<1>6. ASSUME NEW step, Has(tail, step)
      PROVE  Has(rest, step)
  BY <1>1, <1>3, <1>6 DEF Has
<1>7. /\ Early \subseteq Steps \ {"live", "readback"} /\ Early \subseteq Steps \ {"record"}
      /\ Early \subseteq Steps \ AfterSend
  BY DEF Early, AfterSend
<1>8. ASSUME Once(tail, "send")
      PROVE  Once(rest, "send")
  <2>1. "send" \notin Early
    BY DEF Early, AfterSend
  <2>2. ASSUME NEW i \in DOMAIN rest, rest[i] = "send"
        PROVE  i - Len(head) \in DOMAIN tail /\ tail[i - Len(head)] = "send" /\ i \in Nat
    <3>1. i \in Nat /\ i > Len(head)
      BY <1>1, <1>2, <2>1, <2>2
    <3>2. QED
      BY <1>1, <1>2, <2>2, <3>1
  <2>3. ASSUME NEW i \in DOMAIN rest, NEW j \in DOMAIN rest, rest[i] = "send", rest[j] = "send"
        PROVE  i = j
    <3>1. i - Len(head) = j - Len(head)
      BY <1>8, <2>2, <2>3 DEF Once
    <3>2. QED
      BY <1>1, <2>2, <2>3, <3>1
  <2>4. QED
    BY <2>3 DEF Once
<1>9. QED
  <2>1. req.page = "actions" => Only(rest, Steps \ {"live", "readback"})
    BY <1>5, <1>7 DEF Provided
  <2>2. req.page = "settings" => Only(rest, Steps \ {"record"})
    BY <1>5, <1>7 DEF Provided
  <2>3. req.page = "settings" /\ ~req.changes => Only(rest, Steps \ AfterSend)
    BY <1>5, <1>7 DEF Provided
  <2>4. QED
    BY <1>2, <1>4, <1>6, <1>8, <2>1, <2>2, <2>3 DEF Provided, rest

\* Of an action: its own steps, and then the policy, the command and the record; of a
\* question only the command.
LEMMA ActsArePlanned ==
  ASSUME NEW req, req.page = "actions", NEW word, NEW steps \in Checks
  PROVE  /\ Provided(req, Hands!Act(word, steps).plan)
         /\ ~req.changes => Provided(req, Hands!Look(word, steps).plan)
<1>1. Provided(req, <<"policy", "send", "record">>)
  BY DEF Provided, InOrder, Only, Has, Steps, OutOfOrder, AfterSend
<1>2. ~req.changes => Provided(req, <<"send">>)
  BY DEF Provided, InOrder, Only, Steps, OutOfOrder, AfterSend
<1>3. QED
  BY <1>1, <1>2, EarlierFirst DEF Hands!Act, Hands!Look, Checks

LEMMA RequestsArePlanned ==
  ASSUME NEW req \in Hands!Requests
  PROVE  Provided(req, req.plan)
<1>1. PICK page, h, m :
        page \in Hands!Handlers /\ h \in DOMAIN page /\ req = Hands!Asks(page, h, m)
  <2>1. /\ Hands!WorldHandlers \in Hands!Handlers /\ Hands!MomentHandlers \in Hands!Handlers
        /\ "CurrentWeather" \in DOMAIN Hands!WorldHandlers
        /\ "ResetChunks" \in DOMAIN Hands!MomentHandlers
    BY DEF Hands!Handlers, Hands!WorldHandlers, Hands!MomentHandlers
  <2>2. ASSUME NEW page \in Hands!Handlers, req \in Hands!AskedOf(page)
        PROVE  \E h, m : h \in DOMAIN page /\ req = Hands!Asks(page, h, m)
    <3>1. PICK h \in DOMAIN page :
            req \in {Hands!Asks(page, h, m) : m \in Hands!Mistakes(page[h])}
      BY <2>2 DEF Hands!AskedOf
    <3>2. QED
      BY <3>1
  <2>3. ASSUME NEW page, NEW h, req \in Hands!TurnedAway(page, h)
        PROVE  \E m : req = Hands!Asks(page, h, m)
    BY <2>3 DEF Hands!TurnedAway
  <2>4. \/ \E page \in Hands!Handlers : req \in Hands!AskedOf(page)
        \/ req \in Hands!TurnedAway(Hands!WorldHandlers, "CurrentWeather")
        \/ req \in Hands!TurnedAway(Hands!MomentHandlers, "ResetChunks")
    BY DEF Hands!Requests
  <2>5. CASE \E page \in Hands!Handlers : req \in Hands!AskedOf(page)
    BY <2>2, <2>5
  <2>6. CASE req \in Hands!TurnedAway(Hands!WorldHandlers, "CurrentWeather")
    BY <2>1, <2>3, <2>6
  <2>7. CASE req \in Hands!TurnedAway(Hands!MomentHandlers, "ResetChunks")
    BY <2>1, <2>3, <2>7
  <2>8. QED
    BY <2>4, <2>5, <2>6, <2>7
<1>2. /\ req.plan = Hands!Gate(h) \o page[h].plan
      /\ req.page = IF page = Hands!SettingHandlers THEN "settings" ELSE "actions"
      /\ req.changes = (h \notin Hands!Reads)
  BY <1>1 DEF Hands!Asks
<1>3. Hands!Gate(h) \in Seq(Early)
  <2>1. <<>> \in Seq(Early) /\ <<"origin">> \in Seq(Early)
        /\ <<"session", "server">> \in Seq(Early)
    BY DEF Early, Steps, AfterSend
  <2>2. \A head, tail \in Seq(Early) : head \o tail \in Seq(Early)
    BY ConcatProperties
  <2>3. QED
    BY <2>1, <2>2 DEF Hands!Gate
<1>4. Provided(req, page[h].plan)
  <2>1. CASE page = Hands!SettingHandlers
    <3>1. /\ DOMAIN Hands!SettingHandlers = {"Settings", "UpdateSetting"}
          /\ Hands!SettingHandlers["Settings"].plan = <<"prefs", "live">>
          /\ Hands!SettingHandlers["UpdateSetting"].plan =
               <<"body", "prefs", "known", "live", "settable", "arguments", "send",
                 "readback">>
      BY DEF Hands!SettingHandlers
    <3>2. CASE h = "Settings"
      <4>1. ~req.changes /\ req.page = "settings" /\ page[h].plan = <<"prefs", "live">>
        BY <1>2, <2>1, <3>1, <3>2 DEF Hands!Reads
      <4>2. QED
        BY <4>1 DEF Provided, InOrder, Only, Steps, OutOfOrder, AfterSend, Once
    <3>3. CASE h = "UpdateSetting"
      <4> DEFINE plan == <<"body", "prefs", "known", "live", "settable", "arguments",
                           "send", "readback">>
      <4>1. req.changes /\ req.page = "settings" /\ page[h].plan = plan
        BY <1>2, <2>1, <3>1, <3>3 DEF Hands!Reads
      <4>2. /\ DOMAIN plan = 1..8 /\ plan \in Seq(Steps)
            /\ plan[1] = "body" /\ plan[2] = "prefs" /\ plan[3] = "known"
            /\ plan[4] = "live" /\ plan[5] = "settable" /\ plan[6] = "arguments"
            /\ plan[7] = "send" /\ plan[8] = "readback"
        BY DEF Steps
      <4> HIDE DEF plan
      <4>3. \A i \in 1..8 : i \in {1, 2, 3, 4, 5, 6, 7, 8}
        OBVIOUS
      <4>4. InOrder(plan) /\ Only(plan, Steps \ {"record"})
        BY <4>2, <4>3 DEF InOrder, Only, Steps, OutOfOrder, AfterSend
      <4>5. Has(plan, "settable") /\ Has(plan, "send")
        BY <4>2 DEF Has
      <4>6. Once(plan, "send")
        BY <4>2, <4>3 DEF Once
      <4>7. QED
        BY <4>1, <4>2, <4>4, <4>5, <4>6 DEF Provided
    <3>4. QED
      BY <1>1, <2>1, <3>1, <3>2, <3>3
  <2>2. ASSUME page # Hands!SettingHandlers
        PROVE  req.page = "actions"
    BY <1>2, <2>2
  <2>3. /\ <<>> \in Checks /\ <<"path">> \in Checks /\ <<"body">> \in Checks
        /\ <<"arguments">> \in Checks
        /\ <<"path", "arguments">> \in Checks /\ <<"body", "arguments">> \in Checks
        /\ <<"path", "body", "arguments">> \in Checks
    BY DEF Checks, Early, Steps, AfterSend
  <2>4. /\ <<"body", "lookup", "arguments">> \in Checks
        /\ <<"path", "body", "lookup", "arguments">> \in Checks
        /\ <<"path", "body", "arguments", "lookup">> \in Checks
    BY DEF Checks, Early, Steps, AfterSend
  <2> DEFINE AsPlanned(word, steps) ==
               \/ page[h] = Hands!Act(word, steps)
               \/ page[h] = Hands!Look(word, steps) /\ h \in Hands!Reads
  <2>5. ASSUME NEW word, NEW steps \in Checks, AsPlanned(word, steps),
                page # Hands!SettingHandlers
         PROVE  Provided(req, page[h].plan)
    <3>1. page[h] = Hands!Act(word, steps)
          \/ (page[h] = Hands!Look(word, steps) /\ ~req.changes)
      BY <1>2, <2>5
    <3>2. QED
      BY <2>2, <2>5, <3>1, ActsArePlanned
  <2>6. CASE page = Hands!PlayerHandlers /\ page # Hands!SettingHandlers
    <3>1. \E word, steps : steps \in Checks /\ AsPlanned(word, steps)
      BY <1>1, <2>3, <2>4, <2>6 DEF Hands!PlayerHandlers, Hands!Reads
    <3>2. QED
      BY <2>6, <2>5, <3>1
  <2>7. CASE page = Hands!EffectHandlers /\ page # Hands!SettingHandlers
    <3>1. \E word, steps : steps \in Checks /\ AsPlanned(word, steps)
      BY <1>1, <2>3, <2>4, <2>7 DEF Hands!EffectHandlers, Hands!Reads
    <3>2. QED
      BY <2>7, <2>5, <3>1
  <2>8. CASE page = Hands!WorldHandlers /\ page # Hands!SettingHandlers
    <3>1. \E word, steps : steps \in Checks /\ AsPlanned(word, steps)
      BY <1>1, <2>3, <2>4, <2>8 DEF Hands!WorldHandlers, Hands!Reads
    <3>2. QED
      BY <2>8, <2>5, <3>1
  <2>9. CASE page = Hands!MomentHandlers /\ page # Hands!SettingHandlers
    <3>1. \E word, steps : steps \in Checks /\ AsPlanned(word, steps)
      BY <1>1, <2>3, <2>4, <2>9 DEF Hands!MomentHandlers, Hands!Reads
    <3>2. QED
      BY <2>9, <2>5, <3>1
  <2>10. CASE page = Hands!AccessHandlers /\ page # Hands!SettingHandlers
    <3>1. req.page = "actions"
      BY <2>2, <2>10
    <3>2. ~req.changes => Provided(req, <<"send">> \o <<"send">>)
      <4> DEFINE plan == <<"send">> \o <<"send">>
      <4>1. plan \in Seq({"send"})
        BY ConcatProperties
      <4>2. plan \in Seq(Steps) /\ \A i \in DOMAIN plan : plan[i] = "send"
        BY <4>1 DEF Steps
      <4> HIDE DEF plan
      <4>3. QED
        BY <3>1, <4>2 DEF Provided, InOrder, Only, Steps, OutOfOrder, AfterSend, plan
    <3>3. \A word : ~req.changes => Provided(req, Hands!Look(word, <<"send">>).plan)
      BY <3>2 DEF Hands!Look
    <3>4. \/ \E word : page[h] = Hands!Look(word, <<"send">>)
                      /\ h \in Hands!Reads
          \/ \E word, steps : steps \in Checks /\ AsPlanned(word, steps)
      BY <1>1, <2>3, <2>4, <2>10 DEF Hands!AccessHandlers, Hands!Reads
    <3>5. QED
      BY <1>2, <2>10, <2>5, <3>3, <3>4
  <2>11. CASE page = Hands!ConsoleHandlers /\ page # Hands!SettingHandlers
    <3>1. \E word, steps : steps \in Checks /\ AsPlanned(word, steps)
      BY <1>1, <2>3, <2>4, <2>11 DEF Hands!ConsoleHandlers, Hands!Reads
    <3>2. QED
      BY <2>11, <2>5, <3>1
  <2>12. QED
    BY <1>1, <2>1, <2>6, <2>7, <2>8, <2>9, <2>10, <2>11 DEF Hands!Handlers
<1>5. QED
  BY <1>2, <1>3, <1>4, EarlierFirst
-----------------------------------------------------------------------------
(***************************************************************************)
(* The operators' requests: what is left of a plan, and what was done.     *)
(***************************************************************************)

\* A step, and what is left after it.
LEMMA StepAndRest ==
  ASSUME NEW at \in Steps, NEW plan \in Seq(Steps)
  PROVE  LET rest == <<at>> \o plan
         IN /\ rest \in Seq(Steps) /\ DOMAIN rest = 1..(Len(plan) + 1) /\ rest[1] = at
            /\ \A i \in 1..Len(plan) : i + 1 \in DOMAIN rest /\ rest[i + 1] = plan[i]
            /\ \A i \in DOMAIN rest : i # 1 => i - 1 \in 1..Len(plan) /\ rest[i] = plan[i - 1]
            /\ DOMAIN plan = 1..Len(plan) /\ Len(plan) \in Nat
  OBVIOUS

LEMMA RestHas ==
  ASSUME NEW at \in Steps, NEW plan \in Seq(Steps)
  PROVE  LET rest == <<at>> \o plan
         IN /\ \A step : Has(rest, step) <=> at = step \/ Has(plan, step)
            /\ \A steps : Only(rest, steps) <=> at \in steps /\ Only(plan, steps)
            /\ \A step : Once(rest, step) =>
                 Once(plan, step) /\ (at = step => ~Has(plan, step))
            /\ InOrder(rest) =>
                 InOrder(plan) /\ \A i \in DOMAIN plan : ~OutOfOrder(at, plan[i])
<1> DEFINE rest == <<at>> \o plan
<1>1. /\ rest \in Seq(Steps) /\ DOMAIN rest = 1..(Len(plan) + 1) /\ rest[1] = at
      /\ \A i \in 1..Len(plan) : i + 1 \in DOMAIN rest /\ rest[i + 1] = plan[i]
      /\ \A i \in DOMAIN rest : i # 1 => i - 1 \in 1..Len(plan) /\ rest[i] = plan[i - 1]
      /\ DOMAIN plan = 1..Len(plan) /\ Len(plan) \in Nat /\ 1 \in DOMAIN rest
  BY StepAndRest
<1> HIDE DEF rest
<1>2. ASSUME NEW step
      PROVE  Has(rest, step) <=> at = step \/ Has(plan, step)
  <2>1. ASSUME Has(rest, step)
        PROVE  at = step \/ Has(plan, step)
    <3>1. PICK i \in DOMAIN rest : rest[i] = step
      BY <2>1 DEF Has
    <3>2. CASE i = 1
      BY <1>1, <3>1, <3>2
    <3>3. CASE i # 1
      <4>1. i - 1 \in DOMAIN plan /\ plan[i - 1] = step
        BY <1>1, <3>1, <3>3
      <4>2. QED
        BY <4>1 DEF Has
    <3>4. QED
      BY <3>2, <3>3
  <2>2. ASSUME at = step
        PROVE  Has(rest, step)
    BY <1>1, <2>2 DEF Has
  <2>3. ASSUME Has(plan, step)
        PROVE  Has(rest, step)
    <3>1. PICK i \in DOMAIN plan : plan[i] = step
      BY <2>3 DEF Has
    <3>2. i + 1 \in DOMAIN rest /\ rest[i + 1] = step
      BY <1>1, <3>1
    <3>3. QED
      BY <3>2 DEF Has
  <2>4. QED
    BY <2>1, <2>2, <2>3
<1>3. ASSUME NEW steps
      PROVE  Only(rest, steps) <=> at \in steps /\ Only(plan, steps)
  BY <1>1 DEF Only
<1>4. ASSUME NEW step, Once(rest, step)
      PROVE  Once(plan, step) /\ (at = step => ~Has(plan, step))
  <2>1. ASSUME NEW i \in DOMAIN plan, NEW j \in DOMAIN plan, plan[i] = step, plan[j] = step
        PROVE  i = j
    <3>1. i + 1 = j + 1
      BY <1>1, <1>4, <2>1 DEF Once
    <3>2. QED
      BY <1>1, <3>1
  <2>2. ASSUME at = step, NEW i \in DOMAIN plan, plan[i] = step
        PROVE  FALSE
    <3>1. i + 1 = 1
      BY <1>1, <1>4, <2>2 DEF Once
    <3>2. QED
      BY <1>1, <3>1
  <2>3. QED
    BY <2>1, <2>2 DEF Once, Has
<1>5. ASSUME InOrder(rest)
      PROVE  InOrder(plan) /\ \A i \in DOMAIN plan : ~OutOfOrder(at, plan[i])
  <2>1. ASSUME NEW i \in DOMAIN plan, NEW j \in DOMAIN plan, i < j
        PROVE  ~OutOfOrder(plan[i], plan[j])
    <3>1. i + 1 \in DOMAIN rest /\ j + 1 \in DOMAIN rest /\ i + 1 < j + 1
      BY <1>1, <2>1
    <3>2. QED
      BY <1>1, <1>5, <3>1 DEF InOrder
  <2>2. ASSUME NEW i \in DOMAIN plan
        PROVE  ~OutOfOrder(at, plan[i])
    <3>1. i + 1 \in DOMAIN rest /\ 1 < i + 1
      BY <1>1
    <3>2. QED
      BY <1>1, <1>5, <3>1 DEF InOrder
  <2>3. QED
    BY <2>1, <2>2 DEF InOrder
<1>6. QED
  BY <1>2, <1>3, <1>4, <1>5 DEF rest

\* What is sent of some steps is sent of them and of as many before as there are.
LEMMA SendsShift ==
  ASSUME NEW plan \in Seq(Steps), NEW rest \in Seq(Steps), NEW k \in Nat,
         Len(plan) = Len(rest) + k, \A i \in 1..Len(rest) : rest[i] = plan[i + k],
         \A i \in 1..k : plan[i] # "send"
  PROVE  Sends(rest) = Sends(plan) /\ Sends(rest) \in Nat
<1> DEFINE R == {i \in DOMAIN rest : rest[i] = "send"}
           P == {i \in DOMAIN plan : plan[i] = "send"}
           f == [i \in R |-> i + k]
<1>1. /\ DOMAIN rest = 1..Len(rest) /\ DOMAIN plan = 1..Len(plan)
      /\ Len(rest) \in Nat /\ Len(plan) \in Nat
  OBVIOUS
<1>2. IsFiniteSet(R) /\ Cardinality(R) \in Nat
  <2>1. IsFiniteSet(1..Len(rest)) /\ R \subseteq 1..Len(rest)
    BY <1>1, FS_Interval
  <2>2. QED
    BY <2>1, FS_Subset, FS_CardinalityType
<1>3. f \in [R -> P]
  BY <1>1
<1>4. \A x, y \in R : f[x] = f[y] => x = y
  BY <1>1
<1>5. ASSUME NEW z \in P
      PROVE  \E x \in R : f[x] = z
  <2>1. z \in 1..Len(plan) /\ ~(z \in 1..k)
    BY <1>1
  <2>2. z - k \in 1..Len(rest)
    BY <1>1, <2>1
  <2>3. rest[z - k] = plan[z]
    BY <1>1, <2>1, <2>2
  <2>4. z - k \in R /\ f[z - k] = z
    BY <1>1, <2>1, <2>2, <2>3
  <2>5. QED
    BY <2>4
<1>6. Cardinality(P) = Cardinality(R)
  <2> HIDE DEF R, P, f
  <2>1. QED
    BY <1>2, <1>3, <1>4, <1>5, SameNumber
<1>7. QED
  BY <1>2, <1>6 DEF Sends

LEMMA SendsStep ==
  ASSUME NEW at \in Steps, NEW plan \in Seq(Steps)
  PROVE  /\ Sends(plan) \in Nat
         /\ Sends(<<at>> \o plan) = Sends(plan) + (IF at = "send" THEN 1 ELSE 0)
<1> DEFINE rest == <<at>> \o plan
<1>1. /\ rest \in Seq(Steps) /\ DOMAIN rest = 1..(Len(plan) + 1) /\ rest[1] = at
      /\ \A i \in 1..Len(plan) : i + 1 \in DOMAIN rest /\ rest[i + 1] = plan[i]
      /\ \A i \in DOMAIN rest : i # 1 => i - 1 \in 1..Len(plan) /\ rest[i] = plan[i - 1]
      /\ DOMAIN plan = 1..Len(plan) /\ Len(plan) \in Nat /\ Len(rest) = Len(plan) + 1
  BY StepAndRest
<1>2. CASE at # "send"
  <2>1. Sends(plan) = Sends(rest) /\ Sends(plan) \in Nat
    <3> HIDE DEF rest
    <3>1. QED
      BY <1>1, <1>2, SendsShift
  <2>2. QED
    BY <1>2, <2>1
<1>3. CASE at = "send"
  <2> DEFINE R == {i \in DOMAIN rest : rest[i] = "send"}
             P == {i \in DOMAIN plan : plan[i] = "send"}
             f == [i \in P |-> i + 1]
  <2>1. IsFiniteSet(P) /\ Cardinality(P) \in Nat
    <3>1. IsFiniteSet(1..Len(plan)) /\ P \subseteq 1..Len(plan)
      BY <1>1, FS_Interval
    <3>2. QED
      BY <3>1, FS_Subset, FS_CardinalityType
  <2> HIDE DEF rest
  <2>2. f \in [P -> R \ {1}]
    BY <1>1
  <2>3. \A x, y \in P : f[x] = f[y] => x = y
    BY <1>1
  <2>4. ASSUME NEW z \in R \ {1}
        PROVE  \E x \in P : f[x] = z
    <3>1. z - 1 \in 1..Len(plan) /\ plan[z - 1] = "send" /\ z \in Nat
      BY <1>1
    <3>2. z - 1 \in P /\ f[z - 1] = z
      BY <1>1, <3>1
    <3>3. QED
      BY <3>2
  <2>5. Cardinality(R \ {1}) = Cardinality(P) /\ IsFiniteSet(R \ {1})
    <3> HIDE DEF R, P, f
    <3>1. QED
      BY <2>1, <2>2, <2>3, <2>4, SameNumber
  <2>6. Cardinality(R) = Cardinality(P) + 1
    <3>1. R = (R \ {1}) \cup {1} /\ 1 \notin R \ {1}
      BY <1>1, <1>3
    <3> HIDE DEF R, P
    <3>2. QED
      BY <2>5, <3>1, FS_AddElement
  <2>7. QED
    BY <1>3, <2>1, <2>6 DEF Sends, rest
<1>4. QED
  BY <1>2, <1>3

\* The plan from its n-th step on.
LEMMA Passing ==
  ASSUME NEW plan \in Seq(Steps), NEW n \in 1..Len(plan)
  PROVE  LET rest == <<plan[n]>> \o SubSeq(plan, n + 1, Len(plan))
         IN /\ rest \in Seq(Steps) /\ SubSeq(plan, n + 1, Len(plan)) \in Seq(Steps)
            /\ InOrder(plan) => InOrder(rest)
            /\ \A steps : Only(plan, steps) => Only(rest, steps)
            /\ \A step : Has(rest, step) => Has(plan, step)
            /\ \A step : Has(plan, step) /\ (\A i \in 1..(n - 1) : plan[i] # step)
                 => Has(rest, step)
            /\ \A step : Once(plan, step) => Once(rest, step)
            /\ (\A i \in 1..(n - 1) : plan[i] # "send") => Sends(rest) = Sends(plan)
            /\ \A i \in 1..(n - 1) : InOrder(plan) /\ plan[i] = "settable" => ~Has(rest, "live")
<1> DEFINE later == SubSeq(plan, n + 1, Len(plan))
           rest == <<plan[n]>> \o later
           k == n - 1
<1>1. /\ later \in Seq(Steps) /\ Len(later) = Len(plan) - n
      /\ \A i \in 1..(Len(plan) - n) : later[i] = plan[n + i]
  OBVIOUS
<1>2. /\ k \in Nat /\ Len(plan) \in Nat /\ DOMAIN plan = 1..Len(plan) /\ k < Len(plan)
      /\ plan[n] \in Steps /\ n = k + 1
  OBVIOUS
<1>3. /\ rest \in Seq(Steps) /\ DOMAIN rest = 1..(Len(later) + 1) /\ rest[1] = plan[n]
      /\ \A i \in DOMAIN rest : i # 1 => i - 1 \in 1..Len(later) /\ rest[i] = later[i - 1]
  <2> HIDE DEF later
  <2>1. QED
    BY <1>1, <1>2, StepAndRest
<1> HIDE DEF rest, k, later
<1>4. Len(rest) = Len(plan) - k /\ Len(rest) \in Nat /\ DOMAIN rest = 1..Len(rest)
  BY <1>1, <1>2, <1>3
<1>14. \A i \in 1..Len(rest) : rest[i] = plan[i + k]
  <2>1. ASSUME NEW i \in 1..Len(rest)
        PROVE  rest[i] = plan[i + k]
    <3>1. CASE i = 1
      BY <1>2, <1>3, <3>1
    <3>2. CASE i # 1
      <4>1. i - 1 \in 1..(Len(plan) - n) /\ n + (i - 1) = i + k
        BY <1>2, <1>4, <3>2
      <4>2. rest[i] = later[i - 1]
        BY <1>3, <1>4, <3>2
      <4>3. QED
        BY <1>1, <4>1, <4>2
    <3>3. QED
      BY <3>1, <3>2
  <2>2. QED
    BY <2>1
<1>5. DOMAIN rest = 1..Len(rest) /\ Len(rest) \in Nat /\ Len(plan) = Len(rest) + k
      /\ \A i \in DOMAIN rest : i + k \in DOMAIN plan /\ rest[i] = plan[i + k] /\ i \in Nat
  BY <1>2, <1>4, <1>14
<1>6. InOrder(plan) => InOrder(rest)
  <2>1. ASSUME InOrder(plan), NEW i \in DOMAIN rest, NEW j \in DOMAIN rest, i < j
        PROVE  ~OutOfOrder(rest[i], rest[j])
    <3>1. i + k < j + k
      BY <1>2, <1>5, <2>1
    <3>2. QED
      BY <1>5, <2>1, <3>1 DEF InOrder
  <2>2. QED
    BY <2>1 DEF InOrder
<1>7. \A steps : Only(plan, steps) => Only(rest, steps)
  BY <1>5 DEF Only
<1>8. \A step : Has(rest, step) => Has(plan, step)
  BY <1>5 DEF Has
<1>9. ASSUME NEW step, Has(plan, step), \A i \in 1..k : plan[i] # step
      PROVE  Has(rest, step)
  <2>1. PICK i \in DOMAIN plan : plan[i] = step
    BY <1>9 DEF Has
  <2>2. i - k \in DOMAIN rest /\ (i - k) + k = i
    BY <1>2, <1>5, <1>9, <2>1
  <2>3. rest[i - k] = step
    BY <1>5, <2>1, <2>2
  <2>4. QED
    BY <2>2, <2>3 DEF Has
<1>10. ASSUME NEW step, Once(plan, step)
       PROVE  Once(rest, step)
  <2>1. ASSUME NEW i \in DOMAIN rest, NEW j \in DOMAIN rest, rest[i] = step, rest[j] = step
        PROVE  i = j
    <3>1. i + k = j + k
      BY <1>5, <1>10, <2>1 DEF Once
    <3>2. QED
      BY <1>2, <1>5, <3>1
  <2>2. QED
    BY <2>1 DEF Once
<1>11. (\A i \in 1..k : plan[i] # "send") => Sends(rest) = Sends(plan)
  BY <1>2, <1>3, <1>5, <1>14, SendsShift
<1>12. ASSUME NEW i \in 1..k, InOrder(plan), plan[i] = "settable", Has(rest, "live")
       PROVE  FALSE
  <2>1. PICK j \in DOMAIN rest : rest[j] = "live"
    BY <1>12 DEF Has
  <2>2. j + k \in DOMAIN plan /\ plan[j + k] = "live" /\ i < j + k /\ i \in DOMAIN plan
    BY <1>2, <1>5, <2>1
  <2>3. QED
    BY <1>12, <2>2 DEF InOrder, OutOfOrder
<1>13. QED
  BY <1>1, <1>3, <1>6, <1>7, <1>8, <1>9, <1>10, <1>11, <1>12 DEF rest, k, later

\* Of some numbers one is the least.
LEMMA LeastOf ==
  ASSUME NEW S \in SUBSET Nat, S # {}
  PROVE  \E x \in S : \A y \in S : x <= y
<1> DEFINE Below == OpToRel(<, Nat)
<1>1. IsWellFoundedOn(Below, Nat)
  BY NatLessThanWellFounded
<1>2. \E x \in S : \A y \in S : <<y, x>> \notin Below
  <2> HIDE DEF Below
  <2>1. QED
    BY <1>1, WFMin
<1>3. ASSUME NEW x \in S, NEW y \in S, y < x
      PROVE  <<y, x>> \in Below
  BY <1>3 DEF OpToRel
<1>4. \E x \in S : \A y \in S : x <= y
  <2> HIDE DEF Below
  <2>1. PICK x \in S : \A y \in S : <<y, x>> \notin Below
    BY <1>2
  <2>2. \A y \in S : ~(y < x)
    BY <2>1, <1>3
  <2>3. QED
    BY <2>2
<1>5. QED
  BY <1>4
-----------------------------------------------------------------------------
(***************************************************************************)
(* The operators' requests: what each may still do, given what it did.     *)
(***************************************************************************)

TabFields == {"at", "plan", "user", "n", "allowed", "wrong", "setting", "value", "listed",
              "due", "carried", "failed", "record", "shown", "read", "inForce", "outcome"}
IsTab(r) == r = [f \in TabFields |-> r[f]]

\* The preferences that the console reports.
Reported == {s \in DOMAIN Settings : Hands!Listed(s)}

\* Commands are on their way, in all as many as the plan has, once one failed no
\* more than that; nothing but sending and noting comes after the first; and the
\* note is still to come.
Owing == {"owed", "due"}

Counts(r, rest) ==
  /\ r.carried \in Nat /\ r.due \in Nat /\ r.failed \in BOOLEAN
  /\ r.carried + Sends(rest) <= r.due
  /\ ~r.failed => r.carried + Sends(rest) = r.due
  /\ r.carried > 0 \/ r.failed => Only(rest, AfterSend)
  /\ r.record \in Owing => Has(rest, "record")
  /\ r.record = "due" => r.carried > 0 \/ r.failed

\* An action is about no preference.
Acting(r, rest) ==
  /\ r.value = Hands!Nothing /\ r.inForce = {} /\ r.read = FALSE
  /\ Only(rest, Steps \ {"live", "readback"})

\* What is shown as read was in force; a page that is only read sends nothing; and
\* a change is sent once, after it was found that the preference may be set, and
\* then what is in force is watched, and read back once.
Setting(r, rest, g) ==
  /\ r.setting \in DOMAIN Settings /\ r.record \notin Owing /\ ~Has(rest, "record")
  /\ Once(rest, "send")
  /\ r.carried > 0 => ~Has(rest, "send")
  /\ r.inForce # {} => g[r.setting] \in r.inForce
  /\ r.read => r.shown \in r.inForce /\ ~Has(rest, "prefs")

Reading(r, rest) ==
  r.value = Hands!Nothing => Only(rest, Steps \ AfterSend) /\ r.inForce # {}

Changing(r, rest) ==
  r.value # Hands!Nothing =>
    /\ r.value \in Values
    /\ ~Has(rest, "settable") => Hands!Settable(r.setting, r.listed) /\ ~Has(rest, "live")
    /\ ~Has(rest, "send") => r.inForce # {}
    /\ Has(rest, "send") \/ Has(rest, "readback") => ~r.read

\* A request with these steps before it, while g is in force and b were begun.
InHand(r, rest, g, b) ==
  /\ IsTab(r) /\ r.user \in Users /\ r.n \in 1..b /\ r.listed \subseteq Reported
  /\ r.read \in BOOLEAN
  /\ rest \in Seq(Steps) /\ InOrder(rest)
  /\ Counts(r, rest)
  /\ r.setting = Hands!Nothing => Acting(r, rest)
  /\ r.setting # Hands!Nothing => Setting(r, rest, g) /\ Reading(r, rest) /\ Changing(r, rest)

\* One that was answered, honestly.
Told(r) ==
  /\ IsTab(r) /\ r.at = "answered"
  /\ r.due \in Nat /\ r.carried \in 0..r.due
  /\ r.outcome = "refused" => r.carried = 0
  /\ r.outcome = "done" => r.carried = r.due
  /\ r.read => r.shown \in r.inForce
  /\ r.outcome = "done" /\ r.value # Hands!Nothing
       => Settings[r.setting] = "live" \/ r.listed = {}
  /\ r.record # "due"

Fair(r, g, b) ==
  \/ r = Hands!Idle
  \/ Told(r)
  \/ r.at \in Hands!Waits /\ r.plan \in Seq(Steps) /\ InHand(r, <<r.at>> \o r.plan, g, b)

LEMMA IdleIsATab ==
  IsTab(Hands!Idle) /\ Hands!Idle.inForce = {} /\ Hands!Idle.at = "idle"
  /\ Hands!Idle.carried = 0 /\ Hands!Idle.due = 0 /\ Hands!Idle.read = FALSE
  /\ Hands!Idle.value = Hands!Nothing /\ Hands!Idle.listed = {} /\ Hands!Idle.failed = FALSE
  BY DEF IsTab, TabFields, Hands!Idle

\* What is not sent yet is no command.
LEMMA NoneToSend ==
  ASSUME NEW plan \in Seq(Steps), ~Has(plan, "send")
  PROVE  Sends(plan) = 0
<1>1. {i \in DOMAIN plan : plan[i] = "send"} = {}
  BY DEF Has
<1>2. QED
  BY <1>1, FS_EmptySet DEF Sends

LEMMA SendsIsANumber ==
  ASSUME NEW plan \in Seq(Steps)
  PROVE  Sends(plan) \in Nat
  BY SendsStep DEF Steps

\* Who is refused, or fails, is told what he has to know.
LEMMA RefusedIsTold ==
  ASSUME NEW r, IsTab(r), NEW outcome, outcome # "done", r.due \in Nat, r.carried \in 0..r.due,
         outcome = "refused" => r.carried = 0, r.record # "due"
  PROVE  Told(Hands!Answered(r, outcome))
<1> DEFINE q == Hands!Answered(r, outcome)
<1>1. /\ IsTab(q) /\ q.at = "answered" /\ q.carried = r.carried /\ q.due = r.due
      /\ q.record = r.record /\ q.outcome = outcome /\ q.read = FALSE
  BY DEF Hands!Answered, Hands!Idle, IsTab, TabFields
<1> HIDE DEF q
<1>2. Told(q)
  BY <1>1 DEF Told
<1>3. QED
  BY <1>2 DEF q

LEMMA DoneIsTold ==
  ASSUME NEW r, IsTab(r), r.due \in Nat, r.carried = r.due, r.read => r.shown \in r.inForce,
         r.value # Hands!Nothing => Settings[r.setting] = "live" \/ r.listed = {},
         r.record # "due"
  PROVE  Told(Hands!Answered(r, "done"))
<1> DEFINE q == Hands!Answered(r, "done")
<1>1. /\ IsTab(q) /\ q.at = "answered" /\ q.carried = r.carried /\ q.due = r.due
      /\ q.record = r.record /\ q.outcome = "done" /\ q.read = r.read /\ q.shown = r.shown
      /\ q.inForce = r.inForce /\ q.value = r.value /\ q.setting = r.setting
      /\ q.listed = r.listed
  BY DEF Hands!Answered, Hands!Idle, IsTab, TabFields
<1> HIDE DEF q
<1>2. Told(q)
  BY <1>1 DEF Told
<1>3. QED
  BY <1>2 DEF q

\* A request is refused at a step that waits for nobody, comes to its end, or to
\* the first step that waits.
LEMMA WhereItComes ==
  ASSUME NEW r, r.plan \in Seq(Steps)
  PROVE  \/ /\ \E i \in DOMAIN r.plan : r.plan[i] \notin Hands!Waits
            /\ Hands!Onward(r) = Hands!Answered(r, "refused")
         \/ /\ \A i \in DOMAIN r.plan :
                 r.plan[i] \notin Hands!Waits /\ ~Hands!Refuses(r, r.plan[i])
            /\ Hands!Onward(r) = Hands!Answered(r, IF r.failed THEN "failed" ELSE "done")
         \/ \E n \in 1..Len(r.plan) :
              /\ r.plan[n] \in Hands!Waits
              /\ \A i \in 1..(n - 1) :
                   r.plan[i] \notin Hands!Waits /\ ~Hands!Refuses(r, r.plan[i])
              /\ Hands!Onward(r) =
                   [r EXCEPT !.at = r.plan[n], !.plan = SubSeq(r.plan, n + 1, Len(r.plan))]
<1> DEFINE next == {i \in DOMAIN r.plan : r.plan[i] \in Hands!Waits}
           n == IF next = {} THEN Len(r.plan) + 1 ELSE Hands!Min(next)
           passed == SubSeq(r.plan, 1, n - 1)
           refused == \E i \in DOMAIN passed : Hands!Refuses(r, passed[i])
<1>1. Hands!Onward(r) =
        IF refused THEN Hands!Answered(r, "refused")
        ELSE IF next = {} THEN Hands!Answered(r, IF r.failed THEN "failed" ELSE "done")
        ELSE [r EXCEPT !.at = r.plan[n], !.plan = SubSeq(r.plan, n + 1, Len(r.plan))]
  BY DEF Hands!Onward
<1>2. /\ DOMAIN r.plan = 1..Len(r.plan) /\ Len(r.plan) \in Nat /\ next \in SUBSET Nat
  OBVIOUS
<1>3. ASSUME next # {}
      PROVE  Hands!Min(next) \in next /\ \A i \in next : Hands!Min(next) <= i
  <2> HIDE DEF next
  <2>1. \E x \in next : \A y \in next : x <= y
    BY <1>2, <1>3, LeastOf
  <2>2. QED
    BY <2>1 DEF Hands!Min
<1>4. /\ n \in Nat /\ n \in 1..(Len(r.plan) + 1)
      /\ next # {} => n \in next
      /\ \A i \in 1..(n - 1) : i \in DOMAIN r.plan /\ r.plan[i] \notin Hands!Waits
  <2>1. CASE next = {}
    BY <1>2, <2>1
  <2>2. CASE next # {}
    <3>1. n = Hands!Min(next) /\ n \in DOMAIN r.plan /\ n \in next
      BY <1>3, <2>2
    <3>2. ASSUME NEW i \in 1..(n - 1)
          PROVE  i \in DOMAIN r.plan /\ r.plan[i] \notin Hands!Waits
      <4>1. i \in DOMAIN r.plan /\ ~(n <= i)
        BY <1>2, <3>1
      <4>2. QED
        BY <1>3, <2>2, <3>1, <4>1
    <3> HIDE DEF n, next
    <3>3. QED
      BY <1>2, <3>1, <3>2
  <2>3. QED
    BY <2>1, <2>2
<1>5. DOMAIN passed = 1..(n - 1) /\ \A i \in 1..(n - 1) : passed[i] = r.plan[i]
  <2> HIDE DEF n, next
  <2>1. QED
    BY <1>2, <1>4
<1> HIDE DEF passed
<1>6. refused <=> \E i \in 1..(n - 1) : Hands!Refuses(r, r.plan[i])
  <2> HIDE DEF n, next
  <2>1. QED
    BY <1>5
<1> HIDE DEF refused
<1>7. CASE refused
  BY <1>1, <1>4, <1>6, <1>7
<1>8. CASE ~refused /\ next = {}
  <2>1. n - 1 = Len(r.plan)
    BY <1>2, <1>8
  <2>2. QED
    BY <1>1, <1>2, <1>4, <1>6, <1>8, <2>1
<1>9. CASE ~refused /\ next # {}
  <2>1. n \in DOMAIN r.plan /\ r.plan[n] \in Hands!Waits
    BY <1>4, <1>9
  <2> HIDE DEF n
  <2>2. Hands!Onward(r) =
          [r EXCEPT !.at = r.plan[n], !.plan = SubSeq(r.plan, n + 1, Len(r.plan))]
    BY <1>1, <1>9
  <2> HIDE DEF next
  <2>3. \A i \in 1..(n - 1) : r.plan[i] \notin Hands!Waits /\ ~Hands!Refuses(r, r.plan[i])
    BY <1>4, <1>6, <1>9
  <2>4. QED
    BY <1>2, <2>1, <2>2, <2>3
<1>10. QED
  BY <1>7, <1>8, <1>9

\* What may be set is live, as far as the console could be asked.
LEMMA WhatMayBeSet ==
  ASSUME NEW s, NEW listed, listed \subseteq Reported, Hands!Settable(s, listed)
  PROVE  Settings[s] = "live" \/ listed = {}
  BY DEF Hands!Settable, Hands!StartupOnly, Hands!Listed, Reported

\* A request that goes on to the next step that waits.
LEMMA NextStep ==
  ASSUME NEW r, NEW g, NEW b, r.plan \in Seq(Steps), InHand(r, r.plan, g, b),
         NEW n \in 1..Len(r.plan), r.plan[n] \in Hands!Waits,
         \A i \in 1..(n - 1) : r.plan[i] \notin Hands!Waits /\ ~Hands!Refuses(r, r.plan[i])
  PROVE  Fair([r EXCEPT !.at = r.plan[n], !.plan = SubSeq(r.plan, n + 1, Len(r.plan))], g, b)
<1> DEFINE later == SubSeq(r.plan, n + 1, Len(r.plan))
           q == [r EXCEPT !.at = r.plan[n], !.plan = later]
           rest == <<r.plan[n]>> \o later
           plan == r.plan
<1>1. /\ rest \in Seq(Steps) /\ later \in Seq(Steps)
      /\ InOrder(plan) => InOrder(rest)
      /\ \A steps : Only(plan, steps) => Only(rest, steps)
      /\ \A step : Has(rest, step) => Has(plan, step)
      /\ \A step : Has(plan, step) /\ (\A i \in 1..(n - 1) : plan[i] # step)
           => Has(rest, step)
      /\ \A step : Once(plan, step) => Once(rest, step)
      /\ (\A i \in 1..(n - 1) : plan[i] # "send") => Sends(rest) = Sends(plan)
      /\ \A i \in 1..(n - 1) : InOrder(plan) /\ plan[i] = "settable" => ~Has(rest, "live")
  BY Passing
<1>2. IsTab(r) /\ \A i \in 1..(n - 1) : plan[i] \notin Hands!Waits
  BY DEF InHand
<1>3. /\ q.at = plan[n] /\ q.plan = later /\ IsTab(q)
      /\ q.user = r.user /\ q.n = r.n /\ q.setting = r.setting /\ q.value = r.value
      /\ q.listed = r.listed /\ q.due = r.due /\ q.carried = r.carried
      /\ q.failed = r.failed /\ q.record = r.record /\ q.shown = r.shown
      /\ q.read = r.read /\ q.inForce = r.inForce
  BY <1>2 DEF IsTab, TabFields
<1>4. \A i \in 1..(n - 1) : plan[i] = "settable" => Hands!Settable(r.setting, r.listed)
  BY DEF Hands!Refuses
<1>5. /\ \A i \in 1..(n - 1) : plan[i] # "send" /\ plan[i] # "record"
  BY <1>2 DEF Hands!Waits
<1> HIDE DEF q, later, rest, plan
<1>6. Counts(q, rest)
  <2>1. Counts(r, plan)
    BY DEF InHand, plan
  <2>2. Sends(rest) = Sends(plan) /\ (Has(plan, "record") => Has(rest, "record"))
    BY <1>1, <1>5
  <2>3. Only(plan, AfterSend) => Only(rest, AfterSend)
    BY <1>1
  <2>4. QED
    BY <1>3, <2>1, <2>2, <2>3 DEF Counts
<1>7. q.setting = Hands!Nothing => Acting(q, rest)
  <2>1. r.setting = Hands!Nothing => Acting(r, plan)
    BY DEF InHand, plan
  <2>2. QED
    BY <1>1, <1>3, <2>1 DEF Acting
<1>8. ASSUME q.setting # Hands!Nothing
      PROVE  Setting(q, rest, g) /\ Reading(q, rest) /\ Changing(q, rest)
  <2>1. Setting(r, plan, g) /\ Reading(r, plan) /\ Changing(r, plan)
    BY <1>3, <1>8 DEF InHand, plan
  <2>2. Setting(q, rest, g)
    BY <1>1, <1>3, <2>1 DEF Setting
  <2>3. Reading(q, rest)
    BY <1>1, <1>3, <2>1 DEF Reading
  <2>4. Has(plan, "send") => Has(rest, "send")
    BY <1>1, <1>5
  <2>5. ~Has(rest, "settable") => Has(plan, "settable") \/ ~Has(plan, "settable")
    OBVIOUS
  <2>6. ASSUME ~Has(rest, "settable"), Has(plan, "settable")
        PROVE  Hands!Settable(r.setting, r.listed) /\ ~Has(rest, "live")
    <3>1. PICK i \in 1..(n - 1) : plan[i] = "settable"
      BY <1>1, <2>6
    <3>2. InOrder(plan)
      BY DEF InHand, plan
    <3>3. QED
      BY <1>1, <1>4, <3>1, <3>2
  <2>7. r.value # Hands!Nothing /\ ~Has(rest, "settable")
          => Hands!Settable(r.setting, r.listed) /\ ~Has(rest, "live")
    BY <1>1, <2>1, <2>6 DEF Changing
  <2>8. Changing(q, rest)
    BY <1>1, <1>3, <2>1, <2>4, <2>7 DEF Changing
  <2>9. QED
    BY <2>2, <2>3, <2>8
<1>9. InHand(q, rest, g, b)
  <2>1. InOrder(plan) /\ r.user \in Users /\ r.n \in 1..b /\ r.listed \subseteq Reported
        /\ r.read \in BOOLEAN
    BY DEF InHand, plan
  <2>2. QED
    BY <1>1, <1>3, <1>6, <1>7, <1>8, <2>1 DEF InHand
<1>10. Fair(q, g, b)
  <2>1. rest = <<q.at>> \o q.plan /\ q.at \in Hands!Waits
    BY <1>3 DEF rest, plan
  <2>2. QED
    BY <1>1, <1>3, <1>9, <2>1 DEF Fair
<1>11. QED
  BY <1>10 DEF q, later

LEMMA OnwardIsFair ==
  ASSUME NEW r, NEW g, NEW b, r.plan \in Seq(Steps), InHand(r, r.plan, g, b)
  PROVE  Fair(Hands!Onward(r), g, b)
<1> DEFINE plan == r.plan
<1>1. /\ IsTab(r) /\ r.carried \in Nat /\ r.due \in Nat /\ r.failed \in BOOLEAN
      /\ Sends(plan) \in Nat /\ r.carried + Sends(plan) <= r.due
      /\ ~r.failed => r.carried + Sends(plan) = r.due
      /\ r.carried > 0 \/ r.failed => Only(plan, AfterSend)
      /\ r.record = "due" => Has(plan, "record") /\ (r.carried > 0 \/ r.failed)
  BY SendsIsANumber DEF InHand, Counts, Owing
<1>2. r.carried \in 0..r.due
  BY <1>1
<1>3. CASE /\ \E i \in DOMAIN plan : plan[i] \notin Hands!Waits
           /\ Hands!Onward(r) = Hands!Answered(r, "refused")
  <2>1. ~Only(plan, AfterSend)
    BY <1>3 DEF Only, AfterSend, Hands!Waits
  <2>2. r.carried = 0 /\ r.record # "due"
    BY <1>1, <2>1
  <2>3. Told(Hands!Answered(r, "refused"))
    BY <1>1, <1>2, <2>2, RefusedIsTold
  <2>4. QED
    BY <1>3, <2>3 DEF Fair
<1>4. CASE /\ \A i \in DOMAIN plan : plan[i] \notin Hands!Waits /\ ~Hands!Refuses(r, plan[i])
           /\ Hands!Onward(r) = Hands!Answered(r, IF r.failed THEN "failed" ELSE "done")
  <2>1. ~Has(plan, "send") /\ ~Has(plan, "record") /\ r.record # "due" /\ Sends(plan) = 0
    <3>1. ~Has(plan, "send") /\ ~Has(plan, "record")
      BY <1>4 DEF Has, Hands!Waits
    <3>2. QED
      BY <1>1, <3>1, NoneToSend
  <2>2. CASE r.failed
    <3>1. Told(Hands!Answered(r, "failed"))
      BY <1>1, <1>2, <2>1, RefusedIsTold
    <3>2. QED
      BY <1>4, <2>2, <3>1 DEF Fair
  <2>3. CASE ~r.failed
    <3>1. r.carried = r.due
      BY <1>1, <2>1, <2>3
    <3>2. r.read => r.shown \in r.inForce
      BY DEF InHand, Acting, Setting
    <3>3. ASSUME r.value # Hands!Nothing
          PROVE  Settings[r.setting] = "live" \/ r.listed = {}
      <4>1. r.setting # Hands!Nothing /\ Changing(r, plan) /\ r.listed \subseteq Reported
        BY <3>3 DEF InHand, Acting
      <4>2. Has(plan, "settable") => Hands!Settable(r.setting, r.listed)
        BY <1>4 DEF Has, Hands!Refuses
      <4>3. Hands!Settable(r.setting, r.listed)
        BY <3>3, <4>1, <4>2 DEF Changing
      <4>4. QED
        BY <4>1, <4>3, WhatMayBeSet
    <3>4. Told(Hands!Answered(r, "done"))
      BY <1>1, <2>1, <3>1, <3>2, <3>3, DoneIsTold
    <3>5. QED
      BY <1>4, <2>3, <3>4 DEF Fair
  <2>4. QED
    BY <1>1, <2>2, <2>3
<1>5. CASE \E n \in 1..Len(plan) :
             /\ plan[n] \in Hands!Waits
             /\ \A i \in 1..(n - 1) :
                  plan[i] \notin Hands!Waits /\ ~Hands!Refuses(r, plan[i])
             /\ Hands!Onward(r) =
                  [r EXCEPT !.at = plan[n], !.plan = SubSeq(plan, n + 1, Len(plan))]
  <2>1. PICK n \in 1..Len(plan) :
          /\ plan[n] \in Hands!Waits
          /\ \A i \in 1..(n - 1) : plan[i] \notin Hands!Waits /\ ~Hands!Refuses(r, plan[i])
          /\ Hands!Onward(r) =
               [r EXCEPT !.at = plan[n], !.plan = SubSeq(plan, n + 1, Len(plan))]
    BY <1>5
  <2>2. n \in 1..Len(r.plan) /\ r.plan[n] \in Hands!Waits
        /\ \A i \in 1..(n - 1) : r.plan[i] \notin Hands!Waits /\ ~Hands!Refuses(r, r.plan[i])
    BY <2>1
  <2>3. Fair([r EXCEPT !.at = r.plan[n], !.plan = SubSeq(r.plan, n + 1, Len(r.plan))], g, b)
    BY <2>2, NextStep
  <2>4. QED
    BY <2>1, <2>3
<1>6. QED
  BY <1>3, <1>4, <1>5, WhereItComes

\* A request that waits, and what it has before it.
Waiting(r, g, b) ==
  r.at \in Hands!Waits /\ r.plan \in Seq(Steps) /\ InHand(r, <<r.at>> \o r.plan, g, b)

\* What is left once it has its answer: the order, ...
LEMMA WhatIsLeft ==
  ASSUME NEW r, NEW g, NEW b, Waiting(r, g, b)
  PROVE  /\ IsTab(r) /\ r.user \in Users /\ r.n \in 1..b /\ r.listed \subseteq Reported
         /\ r.read \in BOOLEAN /\ r.at \in Hands!Waits
         /\ r.plan \in Seq(Steps) /\ InOrder(r.plan)
         /\ r.at \in AfterSend => /\ Only(r.plan, AfterSend) /\ ~Has(r.plan, "prefs")
                                  /\ ~Has(r.plan, "live") /\ ~Has(r.plan, "settable")
         /\ r.at = "readback" => ~Has(r.plan, "send") /\ ~Has(r.plan, "readback")
         /\ r.at = "live" => ~Has(r.plan, "prefs")
<1> DEFINE rest == <<r.at>> \o r.plan
<1>1. r.at \in Steps /\ r.plan \in Seq(Steps)
  BY DEF Waiting, Hands!Waits, Steps
<1>2. InOrder(rest) => InOrder(r.plan) /\ \A i \in DOMAIN r.plan : ~OutOfOrder(r.at, r.plan[i])
  BY <1>1, RestHas
<1>3. InOrder(r.plan) /\ \A i \in DOMAIN r.plan : ~OutOfOrder(r.at, r.plan[i])
  BY <1>2 DEF Waiting, InHand
<1>4. r.at \in AfterSend => Only(r.plan, AfterSend)
  BY <1>3 DEF OutOfOrder, Only
<1>5. Only(r.plan, AfterSend) =>
        ~Has(r.plan, "prefs") /\ ~Has(r.plan, "live") /\ ~Has(r.plan, "settable")
  BY DEF Only, Has, AfterSend
<1>6. r.at = "readback" => ~Has(r.plan, "send") /\ ~Has(r.plan, "readback")
  BY <1>3 DEF OutOfOrder, Has
<1>7. r.at = "live" => ~Has(r.plan, "prefs")
  BY <1>3 DEF OutOfOrder, Has
<1>8. QED
  BY <1>1, <1>3, <1>4, <1>5, <1>6, <1>7 DEF Waiting, InHand

\* ... the commands, ...
LEMMA WhatCounts ==
  ASSUME NEW r, NEW g, NEW b, Waiting(r, g, b)
  PROVE  /\ r.carried \in Nat /\ r.due \in Nat /\ r.failed \in BOOLEAN /\ Sends(r.plan) \in Nat
         /\ r.at # "send" /\ (r.at = "record" => r.record \notin Owing)
              => Counts(r, r.plan)
         /\ r.at = "send" => /\ r.carried + Sends(r.plan) + 1 <= r.due
                             /\ ~r.failed => r.carried + Sends(r.plan) + 1 = r.due
         /\ r.at # "send" => /\ r.carried + Sends(r.plan) <= r.due
                             /\ ~r.failed => r.carried + Sends(r.plan) = r.due
         /\ r.carried > 0 \/ r.failed => r.at \in AfterSend /\ Only(r.plan, AfterSend)
         /\ r.record \in Owing => r.at = "record" \/ Has(r.plan, "record")
         /\ r.record = "due" => r.carried > 0 \/ r.failed
<1> DEFINE rest == <<r.at>> \o r.plan
<1>1. r.at \in Steps /\ r.plan \in Seq(Steps)
  BY DEF Waiting, Hands!Waits, Steps
<1>2. /\ \A step : Has(rest, step) <=> r.at = step \/ Has(r.plan, step)
      /\ \A steps : Only(rest, steps) <=> r.at \in steps /\ Only(r.plan, steps)
  BY <1>1, RestHas
<1>3. Sends(r.plan) \in Nat /\ Sends(rest) = Sends(r.plan) + (IF r.at = "send" THEN 1 ELSE 0)
  BY <1>1, SendsStep
<1>4. Counts(r, rest)
  BY DEF Waiting, InHand
<1> HIDE DEF rest
<1>5. QED
  BY <1>2, <1>3, <1>4 DEF Counts

\* ... and of a preference what may be said of it.
LEMMA WhatMayBeSaid ==
  ASSUME NEW r, NEW g, NEW b, Waiting(r, g, b)
  PROVE  /\ r.setting = Hands!Nothing =>
              Acting(r, r.plan) /\ r.at \notin {"live", "readback"}
         /\ r.setting # Hands!Nothing =>
              /\ Setting(r, r.plan, g) /\ Reading(r, r.plan)
              /\ r.at = "send" => r.carried = 0 /\ ~Has(r.plan, "send")
              /\ r.at = "prefs" => ~r.read
              /\ r.value = Hands!Nothing => r.at \notin AfterSend
              /\ r.at # "send" => Changing(r, r.plan)
              /\ r.value # Hands!Nothing =>
                   /\ r.value \in Values
                   /\ ~Has(r.plan, "settable") =>
                        Hands!Settable(r.setting, r.listed) /\ ~Has(r.plan, "live")
                   /\ r.at = "live" => Has(r.plan, "settable")
                   /\ r.at = "readback" => r.inForce # {}
                   /\ r.at \in {"send", "readback"} => ~r.read
<1> DEFINE rest == <<r.at>> \o r.plan
<1>1. r.at \in Steps /\ r.plan \in Seq(Steps) /\ r.at # "settable"
  BY DEF Waiting, Hands!Waits, Steps
<1>2. /\ \A step : Has(rest, step) <=> r.at = step \/ Has(r.plan, step)
      /\ \A steps : Only(rest, steps) <=> r.at \in steps /\ Only(r.plan, steps)
      /\ \A step : Once(rest, step) =>
           Once(r.plan, step) /\ (r.at = step => ~Has(r.plan, step))
  BY <1>1, RestHas
<1>3. r.at = "readback" => ~Has(r.plan, "send")
  BY WhatIsLeft
<1> HIDE DEF rest
<1>4. ASSUME r.setting = Hands!Nothing
      PROVE  Acting(r, r.plan) /\ r.at \notin {"live", "readback"}
  <2>1. Acting(r, rest)
    BY <1>4 DEF Waiting, InHand, rest
  <2>2. QED
    BY <1>2, <2>1 DEF Acting
<1>5. ASSUME r.setting # Hands!Nothing
      PROVE  /\ Setting(r, r.plan, g) /\ Reading(r, r.plan)
             /\ r.at = "send" => r.carried = 0 /\ ~Has(r.plan, "send")
             /\ r.at = "prefs" => ~r.read
             /\ r.value = Hands!Nothing => r.at \notin AfterSend
             /\ r.at # "send" => Changing(r, r.plan)
             /\ r.value # Hands!Nothing =>
                  /\ r.value \in Values
                  /\ ~Has(r.plan, "settable") =>
                       Hands!Settable(r.setting, r.listed) /\ ~Has(r.plan, "live")
                  /\ r.at = "live" => Has(r.plan, "settable")
                  /\ r.at = "readback" => r.inForce # {}
                  /\ r.at \in {"send", "readback"} => ~r.read
  <2>1. Setting(r, rest, g) /\ Reading(r, rest) /\ Changing(r, rest)
    BY <1>5 DEF Waiting, InHand, rest
  <2>2. Setting(r, r.plan, g) /\ (r.at = "prefs" => ~r.read)
    BY <1>2, <2>1 DEF Setting
  <2>3. Reading(r, r.plan) /\ (r.value = Hands!Nothing => r.at \notin AfterSend)
    BY <1>2, <2>1 DEF Reading, AfterSend
  <2>4. r.at = "send" => r.carried = 0 /\ ~Has(r.plan, "send")
    <3>1. r.carried \in Nat
      BY WhatCounts
    <3>2. QED
      BY <1>2, <2>1, <3>1 DEF Setting
  <2>5. r.at # "send" => Changing(r, r.plan)
    BY <1>1, <1>2, <2>1 DEF Changing
  <2>6. r.value # Hands!Nothing =>
          /\ r.value \in Values
          /\ ~Has(r.plan, "settable") =>
               Hands!Settable(r.setting, r.listed) /\ ~Has(r.plan, "live")
          /\ r.at = "live" => Has(r.plan, "settable")
          /\ r.at = "readback" => r.inForce # {}
          /\ r.at \in {"send", "readback"} => ~r.read
    BY <1>1, <1>2, <1>3, <2>1 DEF Changing
  <2>7. QED
    BY <2>2, <2>3, <2>4, <2>5, <2>6
<1>6. QED
  BY <1>4, <1>5
-----------------------------------------------------------------------------
(***************************************************************************)
(* The operators' requests: what each step makes of one.                   *)
(***************************************************************************)

\* Whoever watches has seen what is in force now.
Sees(r, g) ==
  IF r.inForce = {} THEN r ELSE [r EXCEPT !.inForce = r.inForce \cup {g[r.setting]}]

LEMMA WatchedSees ==
  ASSUME NEW requests, NEW g
  PROVE  Hands!Watched(requests, g) = [t \in Tabs |-> Sees(requests[t], g)]
  BY DEF Hands!Watched, Sees

LEMMA SeesWhat ==
  ASSUME NEW r, IsTab(r), NEW g
  PROVE  LET q == Sees(r, g)
         IN /\ IsTab(q) /\ \A f \in TabFields : f # "inForce" => q[f] = r[f]
            /\ q.inForce = IF r.inForce = {} THEN {} ELSE r.inForce \cup {g[r.setting]}
<1>1. CASE r.inForce = {}
  BY <1>1 DEF Sees
<1>2. CASE r.inForce # {}
  <2>1. Sees(r, g) = [r EXCEPT !.inForce = r.inForce \cup {g[r.setting]}]
    BY <1>2 DEF Sees
  <2>2. QED
    BY <1>2, <2>1 DEF IsTab, TabFields
<1>3. QED
  BY <1>1, <1>2

\* It is as fair as it was, with what is in force now.
LEMMA SeesFairly ==
  ASSUME NEW r, NEW g, NEW h, NEW b, Fair(r, g, b)
  PROVE  Fair(Sees(r, h), h, b)
<1> DEFINE q == Sees(r, h)
<1>1. IsTab(r)
  BY IdleIsATab DEF Fair, Told, InHand
<1>2. /\ IsTab(q) /\ q.at = r.at /\ q.plan = r.plan /\ q.user = r.user /\ q.n = r.n
      /\ q.setting = r.setting /\ q.value = r.value /\ q.listed = r.listed
      /\ q.due = r.due /\ q.carried = r.carried /\ q.failed = r.failed
      /\ q.record = r.record /\ q.shown = r.shown /\ q.read = r.read
      /\ q.outcome = r.outcome
      /\ q.inForce = IF r.inForce = {} THEN {} ELSE r.inForce \cup {h[r.setting]}
  BY <1>1, SeesWhat DEF TabFields
<1>3. CASE r = Hands!Idle
  BY <1>3, IdleIsATab DEF Sees, Fair
<1> HIDE DEF q
<1>4. CASE Told(r)
  BY <1>2, <1>4 DEF Told, Fair, q
<1>5. CASE Waiting(r, g, b)
  <2> DEFINE rest == <<r.at>> \o r.plan
  <2> HIDE DEF rest
  <2>1. InHand(r, rest, g, b) /\ r.at \in Hands!Waits /\ r.plan \in Seq(Steps)
    BY <1>5 DEF rest, Waiting
  <2>2. Counts(q, rest)
    BY <1>2, <2>1 DEF InHand, Counts
  <2>3. q.setting = Hands!Nothing => Acting(q, rest)
    BY <1>2, <2>1 DEF InHand, Acting
  <2>4. q.setting # Hands!Nothing => Setting(q, rest, h)
    BY <1>2, <2>1 DEF InHand, Setting
  <2>5. q.setting # Hands!Nothing => Reading(q, rest)
    BY <1>2, <2>1 DEF InHand, Reading
  <2>6. q.setting # Hands!Nothing => Changing(q, rest)
    BY <1>2, <2>1 DEF InHand, Changing
  <2>7. InHand(q, rest, h, b)
    BY <1>2, <2>1, <2>2, <2>3, <2>4, <2>5, <2>6 DEF InHand
  <2>8. QED
    BY <1>2, <2>1, <2>7 DEF Fair, rest, q
<1>6. QED
  BY <1>3, <1>4, <1>5 DEF Fair, Waiting, q

\* More requests make no difference to this one.
LEMMA MoreRequests ==
  ASSUME NEW r, NEW g, NEW b \in Nat, NEW c \in Nat, b <= c, Fair(r, g, b)
  PROVE  Fair(r, g, c)
<1>1. \A n : n \in 1..b => n \in 1..c
  OBVIOUS
<1>2. QED
  BY <1>1 DEF Fair, InHand

\* One whose answer came and changed nothing.
LEMMA AnswerIgnored ==
  ASSUME NEW r, NEW g, NEW b, Waiting(r, g, b), r.at \in {"lookup", "live"}
  PROVE  Fair(Hands!Onward(r), g, b)
<1>1. Counts(r, r.plan)
  BY WhatCounts
<1>2. r.setting = Hands!Nothing => Acting(r, r.plan)
  BY WhatMayBeSaid
<1>3. r.setting # Hands!Nothing
        => Setting(r, r.plan, g) /\ Reading(r, r.plan) /\ Changing(r, r.plan)
  BY WhatMayBeSaid
<1>4. InHand(r, r.plan, g, b)
  BY <1>1, <1>2, <1>3, WhatIsLeft DEF InHand
<1>5. r.plan \in Seq(Steps)
  BY WhatIsLeft
<1>6. QED
  BY <1>4, <1>5, OnwardIsFair

LEMMA PrefsRead ==
  ASSUME NEW r, NEW g, NEW b, Waiting(r, g, b), r.at = "prefs"
  PROVE  Fair(Hands!Onward([r EXCEPT !.shown = Hands!File]), g, b)
<1> DEFINE q == [r EXCEPT !.shown = Hands!File]
           plan == r.plan
<1>1. /\ IsTab(r) /\ r.user \in Users /\ r.n \in 1..b /\ r.listed \subseteq Reported
      /\ r.read \in BOOLEAN /\ plan \in Seq(Steps) /\ InOrder(plan)
  BY WhatIsLeft
<1>2. /\ IsTab(q) /\ q.plan = plan /\ q.user = r.user /\ q.n = r.n
      /\ q.setting = r.setting /\ q.value = r.value /\ q.listed = r.listed
      /\ q.due = r.due /\ q.carried = r.carried /\ q.failed = r.failed
      /\ q.record = r.record /\ q.read = r.read /\ q.inForce = r.inForce
  BY <1>1 DEF IsTab, TabFields
<1>3. Counts(r, plan)
  BY WhatCounts
<1>4. r.setting = Hands!Nothing => Acting(r, plan)
  BY WhatMayBeSaid
<1>5. r.setting # Hands!Nothing
        => Setting(r, plan, g) /\ Reading(r, plan) /\ Changing(r, plan) /\ ~r.read
  BY WhatMayBeSaid
<1> HIDE DEF q, plan
<1>6. Counts(q, plan)
  BY <1>2, <1>3 DEF Counts
<1>7. q.setting = Hands!Nothing => Acting(q, plan)
  BY <1>2, <1>4 DEF Acting
<1>8. q.setting # Hands!Nothing => Setting(q, plan, g) /\ Reading(q, plan) /\ Changing(q, plan)
  BY <1>2, <1>5 DEF Setting, Reading, Changing
<1>9. InHand(q, q.plan, g, b)
  BY <1>1, <1>2, <1>6, <1>7, <1>8 DEF InHand
<1>10. Fair(Hands!Onward(q), g, b)
  BY <1>1, <1>2, <1>9, OnwardIsFair
<1>11. QED
  BY <1>10 DEF q

LEMMA LiveRead ==
  ASSUME NEW r, NEW g, NEW b, Waiting(r, g, b), r.at = "live"
  PROVE  LET overlaid == r.value = Hands!Nothing /\ r.setting \in Reported
         IN Fair(Hands!Onward(
              [r EXCEPT !.listed = Reported, !.read = overlaid,
                        !.shown = IF overlaid THEN g[r.setting] ELSE r.shown]), g, b)
<1> DEFINE overlaid == r.value = Hands!Nothing /\ r.setting \in Reported
           shows == IF overlaid THEN g[r.setting] ELSE r.shown
           q == [r EXCEPT !.listed = Reported, !.read = overlaid, !.shown = shows]
           plan == r.plan
<1>1. /\ IsTab(r) /\ r.user \in Users /\ r.n \in 1..b
      /\ plan \in Seq(Steps) /\ InOrder(plan) /\ ~Has(plan, "prefs")
  BY WhatIsLeft
<1>2. overlaid \in BOOLEAN
  OBVIOUS
<1>3. /\ IsTab(q) /\ q.plan = plan /\ q.user = r.user /\ q.n = r.n
      /\ q.setting = r.setting /\ q.value = r.value /\ q.listed = Reported
      /\ q.due = r.due /\ q.carried = r.carried /\ q.failed = r.failed
      /\ q.record = r.record /\ q.read = overlaid /\ q.inForce = r.inForce
      /\ q.shown = shows
  <2> HIDE DEF overlaid, shows
  <2>1. QED
    BY <1>1, <1>2 DEF IsTab, TabFields
<1>4. Counts(r, plan)
  BY WhatCounts
<1>5. r.setting # Hands!Nothing
  BY WhatMayBeSaid
<1>6. /\ Setting(r, plan, g) /\ Reading(r, plan) /\ Changing(r, plan)
      /\ r.value # Hands!Nothing => Has(plan, "settable")
  BY <1>5, WhatMayBeSaid
<1> HIDE DEF q, plan
<1>7. Counts(q, plan)
  BY <1>3, <1>4 DEF Counts
<1>8. overlaid => shows \in r.inForce
  BY <1>6 DEF Setting, Reading
<1> HIDE DEF shows
<1>9. Setting(q, plan, g)
  BY <1>1, <1>3, <1>6, <1>8 DEF Setting
<1>10. Reading(q, plan)
  BY <1>3, <1>6 DEF Reading
<1>11. Changing(q, plan)
  BY <1>3, <1>6 DEF Changing
<1> HIDE DEF overlaid
<1>12. InHand(q, q.plan, g, b)
  BY <1>1, <1>2, <1>3, <1>5, <1>7, <1>9, <1>10, <1>11 DEF InHand
<1>13. Fair(Hands!Onward(q), g, b)
  BY <1>1, <1>3, <1>12, OnwardIsFair
<1>14. QED
  BY <1>13 DEF q, shows, overlaid

\* A command that is on its way is to be noted, if it is of those that are.
LEMMA NoteIsDue ==
  ASSUME NEW r, IsTab(r)
  PROVE  LET q == Hands!OnItsWay(r)
         IN /\ IsTab(q) /\ \A f \in TabFields \ {"record"} : q[f] = r[f]
            /\ q.record \in Owing => r.record \in Owing
<1> DEFINE word == IF r.record = "owed" THEN "due" ELSE r.record
           q == [r EXCEPT !.record = word]
<1>1. /\ IsTab(q) /\ q.record = word /\ \A f \in TabFields \ {"record"} : q[f] = r[f]
  <2> HIDE DEF word
  <2>1. QED
    BY DEF IsTab, TabFields
<1>2. word \in Owing => r.record \in Owing
  BY DEF Owing
<1>3. QED
  BY <1>1, <1>2 DEF Hands!OnItsWay

\* A command was carried out, and this is in force since.
LEMMA CommandSent ==
  ASSUME NEW r, NEW g, NEW h, NEW b, Waiting(r, g, b), r.at = "send"
  PROVE  Fair(Hands!Onward(
           [Hands!OnItsWay(r) EXCEPT
              !.carried = r.carried + 1,
              !.inForce = IF r.value = Hands!Nothing THEN {} ELSE {h[r.setting]}]), h, b)
<1> DEFINE noticed == IF r.value = Hands!Nothing THEN {} ELSE {h[r.setting]}
           s == Hands!OnItsWay(r)
           q == [s EXCEPT !.carried = r.carried + 1, !.inForce = noticed]
           plan == r.plan
<1>1. /\ IsTab(r) /\ r.user \in Users /\ r.n \in 1..b /\ r.listed \subseteq Reported
      /\ r.read \in BOOLEAN /\ plan \in Seq(Steps) /\ InOrder(plan)
      /\ Only(plan, AfterSend) /\ ~Has(plan, "prefs")
  BY WhatIsLeft DEF AfterSend
<1>2. /\ IsTab(q) /\ q.plan = plan /\ q.user = r.user /\ q.n = r.n
      /\ q.setting = r.setting /\ q.value = r.value /\ q.listed = r.listed
      /\ q.due = r.due /\ q.carried = r.carried + 1 /\ q.failed = r.failed
      /\ q.record \in Owing => r.record \in Owing
      /\ q.read = r.read /\ q.inForce = noticed /\ q.shown = r.shown
  <2>1. /\ IsTab(s) /\ \A f \in TabFields \ {"record"} : s[f] = r[f]
        /\ s.record \in Owing => r.record \in Owing
    BY <1>1, NoteIsDue
  <2> HIDE DEF noticed, s
  <2>2. /\ IsTab(q) /\ \A f \in TabFields \ {"carried", "inForce"} : q[f] = s[f]
        /\ q.carried = r.carried + 1 /\ q.inForce = noticed
    BY <2>1 DEF IsTab, TabFields
  <2> HIDE DEF q
  <2>3. QED
    BY <2>1, <2>2 DEF TabFields
<1>3. /\ r.carried \in Nat /\ r.due \in Nat /\ r.failed \in BOOLEAN /\ Sends(plan) \in Nat
      /\ r.carried + Sends(plan) + 1 <= r.due
      /\ ~r.failed => r.carried + Sends(plan) + 1 = r.due
      /\ r.record \in Owing => Has(plan, "record")
  BY WhatCounts
<1>4. r.setting = Hands!Nothing => Acting(r, plan)
  BY WhatMayBeSaid
<1>5. r.setting # Hands!Nothing =>
        /\ Setting(r, plan, g) /\ ~Has(plan, "send") /\ r.value # Hands!Nothing
        /\ r.value \in Values /\ ~r.read
        /\ ~Has(plan, "settable") =>
             Hands!Settable(r.setting, r.listed) /\ ~Has(plan, "live")
  BY WhatMayBeSaid DEF AfterSend
<1>6. r.value # Hands!Nothing => noticed # {} /\ noticed = {h[r.setting]}
  OBVIOUS
<1>7. r.value = Hands!Nothing => noticed = {}
  OBVIOUS
<1> HIDE DEF q, plan, noticed
<1>8. Counts(q, plan)
  <2>1. q.carried + Sends(plan) <= q.due /\ q.carried \in Nat /\ q.carried > 0
    BY <1>2, <1>3
  <2>2. ~q.failed => q.carried + Sends(plan) = q.due
    BY <1>2, <1>3
  <2>3. QED
    BY <1>1, <1>2, <1>3, <2>1, <2>2 DEF Counts
<1>9. q.setting = Hands!Nothing => Acting(q, plan)
  BY <1>2, <1>4, <1>7 DEF Acting
<1>10. q.setting # Hands!Nothing => Setting(q, plan, h)
  BY <1>2, <1>5, <1>6 DEF Setting
<1>11. q.setting # Hands!Nothing => Reading(q, plan) /\ Changing(q, plan)
  BY <1>2, <1>5, <1>6 DEF Reading, Changing
<1>12. InHand(q, q.plan, h, b)
  BY <1>1, <1>2, <1>8, <1>9, <1>10, <1>11 DEF InHand
<1>13. Fair(Hands!Onward(q), h, b)
  BY <1>1, <1>2, <1>12, OnwardIsFair
<1>14. QED
  BY <1>13 DEF q, noticed

\* A command failed, and may have been carried out.
LEMMA CommandFailed ==
  ASSUME NEW r, NEW g, NEW h, NEW b, Waiting(r, g, b), r.at = "send",
         NEW q, IsTab(q), q.failed = TRUE, q.carried \in {r.carried, r.carried + 1},
         \A f \in TabFields \ {"failed", "carried", "record"} : q[f] = r[f],
         q.record \in Owing => r.record \in Owing
  PROVE  Fair(IF "record" \in Hands!Range(q.plan) THEN Hands!Onward(q)
              ELSE Hands!Answered(q, "failed"), h, b)
<1> DEFINE plan == r.plan
<1>1. /\ IsTab(r) /\ r.user \in Users /\ r.n \in 1..b /\ r.listed \subseteq Reported
      /\ r.read \in BOOLEAN /\ plan \in Seq(Steps) /\ InOrder(plan)
      /\ Only(plan, AfterSend)
  BY WhatIsLeft DEF AfterSend
<1>2. /\ q.plan = plan /\ q.user = r.user /\ q.n = r.n
      /\ q.setting = r.setting /\ q.value = r.value /\ q.listed = r.listed
      /\ q.due = r.due /\ q.read = r.read
      /\ q.inForce = r.inForce /\ q.shown = r.shown
  BY DEF TabFields
<1>3. /\ r.carried \in Nat /\ r.due \in Nat /\ Sends(plan) \in Nat
      /\ r.carried + Sends(plan) + 1 <= r.due
      /\ q.record \in Owing => Has(plan, "record")
  BY WhatCounts
<1>4. r.setting = Hands!Nothing => Acting(r, plan)
  BY WhatMayBeSaid
<1>5. r.setting # Hands!Nothing => ~Has(plan, "record")
  BY WhatMayBeSaid DEF Setting
<1>10. "record" \in Hands!Range(q.plan) <=> Has(plan, "record")
  BY <1>1, <1>2 DEF Has, Hands!Range
<1> HIDE DEF plan
<1>6. q.carried \in Nat /\ q.carried + Sends(plan) <= q.due
  BY <1>2, <1>3
<1>7. CASE Has(plan, "record")
  <2>1. Counts(q, plan)
    BY <1>1, <1>2, <1>3, <1>6 DEF Counts
  <2>2. q.setting = Hands!Nothing /\ Acting(q, plan)
    BY <1>2, <1>4, <1>5, <1>7 DEF Acting
  <2>3. InHand(q, q.plan, h, b)
    BY <1>1, <1>2, <2>1, <2>2 DEF InHand
  <2>4. Fair(Hands!Onward(q), h, b)
    BY <1>1, <1>2, <2>3, OnwardIsFair
  <2>5. QED
    BY <1>7, <1>10, <2>4
<1>8. CASE ~Has(plan, "record")
  <2>1. q.carried \in 0..q.due /\ q.due \in Nat /\ q.record # "due"
    BY <1>2, <1>3, <1>6, <1>8 DEF Owing
  <2>2. Told(Hands!Answered(q, "failed"))
    BY <1>2, <1>8, <2>1, RefusedIsTold
  <2>3. QED
    BY <1>8, <1>10, <2>2 DEF Fair
<1>9. QED
  BY <1>7, <1>8

\* What was done is in the history, or the statement failed.
LEMMA NoteTaken ==
  ASSUME NEW r, NEW g, NEW b, Waiting(r, g, b), r.at = "record",
         NEW word \in {"kept", "lost"}
  PROVE  Fair(Hands!Onward([r EXCEPT !.record = word]), g, b)
<1> DEFINE q == [r EXCEPT !.record = word]
           plan == r.plan
<1>1. /\ IsTab(r) /\ r.user \in Users /\ r.n \in 1..b /\ r.listed \subseteq Reported
      /\ r.read \in BOOLEAN /\ plan \in Seq(Steps) /\ InOrder(plan)
  BY WhatIsLeft
<1>2. /\ IsTab(q) /\ q.plan = plan /\ q.user = r.user /\ q.n = r.n
      /\ q.setting = r.setting /\ q.value = r.value /\ q.listed = r.listed
      /\ q.due = r.due /\ q.carried = r.carried /\ q.failed = r.failed
      /\ q.record = word /\ q.read = r.read /\ q.inForce = r.inForce
      /\ q.shown = r.shown /\ word \notin Owing
  BY <1>1 DEF IsTab, TabFields, Owing
<1>3. /\ r.carried \in Nat /\ r.due \in Nat /\ r.failed \in BOOLEAN
      /\ r.carried + Sends(plan) <= r.due
      /\ ~r.failed => r.carried + Sends(plan) = r.due
      /\ r.carried > 0 \/ r.failed => Only(plan, AfterSend)
  BY WhatCounts
<1>4. r.setting = Hands!Nothing => Acting(r, plan)
  BY WhatMayBeSaid
<1>5. r.setting # Hands!Nothing
        => Setting(r, plan, g) /\ Reading(r, plan) /\ Changing(r, plan)
  BY WhatMayBeSaid
<1> HIDE DEF q, plan
<1>6. Counts(q, plan)
  BY <1>2, <1>3 DEF Counts
<1>7. q.setting = Hands!Nothing => Acting(q, plan)
  BY <1>2, <1>4 DEF Acting
<1>8. q.setting # Hands!Nothing => Setting(q, plan, g) /\ Reading(q, plan) /\ Changing(q, plan)
  BY <1>2, <1>5 DEF Setting, Reading, Changing
<1>9. InHand(q, q.plan, g, b)
  BY <1>1, <1>2, <1>6, <1>7, <1>8 DEF InHand
<1>10. Fair(Hands!Onward(q), g, b)
  BY <1>1, <1>2, <1>9, OnwardIsFair
<1>11. QED
  BY <1>10 DEF q

\* The preference is read back: it is in force, or the answer is what was asked for.
LEMMA ReadBack ==
  ASSUME NEW r, NEW g, NEW b, Waiting(r, g, b), r.at = "readback",
         NEW found \in BOOLEAN, NEW shows, found => shows = g[r.setting]
  PROVE  Fair(Hands!Onward([r EXCEPT !.shown = shows, !.read = found]), g, b)
<1> DEFINE q == [r EXCEPT !.shown = shows, !.read = found]
           plan == r.plan
<1>1. /\ IsTab(r) /\ r.user \in Users /\ r.n \in 1..b /\ r.listed \subseteq Reported
      /\ plan \in Seq(Steps) /\ InOrder(plan) /\ ~Has(plan, "prefs")
      /\ ~Has(plan, "send") /\ ~Has(plan, "readback")
  BY WhatIsLeft DEF AfterSend
<1>2. /\ IsTab(q) /\ q.plan = plan /\ q.user = r.user /\ q.n = r.n
      /\ q.setting = r.setting /\ q.value = r.value /\ q.listed = r.listed
      /\ q.due = r.due /\ q.carried = r.carried /\ q.failed = r.failed
      /\ q.record = r.record /\ q.read = found /\ q.inForce = r.inForce
      /\ q.shown = shows
  BY <1>1 DEF IsTab, TabFields
<1>3. Counts(r, plan)
  BY WhatCounts
<1>4. /\ r.setting # Hands!Nothing /\ r.value # Hands!Nothing
      /\ Setting(r, plan, g) /\ Changing(r, plan) /\ r.inForce # {}
  BY WhatMayBeSaid DEF AfterSend
<1> HIDE DEF q, plan
<1>5. Counts(q, plan)
  BY <1>2, <1>3 DEF Counts
<1>6. Setting(q, plan, g)
  BY <1>1, <1>2, <1>4 DEF Setting
<1>7. Reading(q, plan) /\ Changing(q, plan)
  BY <1>1, <1>2, <1>4 DEF Reading, Changing
<1>8. InHand(q, q.plan, g, b)
  BY <1>1, <1>2, <1>4, <1>5, <1>6, <1>7 DEF InHand
<1>9. Fair(Hands!Onward(q), g, b)
  BY <1>1, <1>2, <1>8, OnwardIsFair
<1>10. QED
  BY <1>9 DEF q

LEMMA ReadBackFails ==
  ASSUME NEW r, NEW g, NEW b, Waiting(r, g, b), r.at = "readback"
  PROVE  Fair(Hands!Onward([r EXCEPT !.shown = r.value]), g, b)
<1>1. r.setting # Hands!Nothing /\ r.value # Hands!Nothing /\ ~r.read
  BY WhatMayBeSaid DEF AfterSend
<1>2. IsTab(r) /\ r.read \in BOOLEAN
  BY WhatIsLeft
<1>3. [r EXCEPT !.shown = r.value] = [r EXCEPT !.shown = r.value, !.read = FALSE]
  BY <1>1, <1>2 DEF IsTab, TabFields
<1>4. Fair(Hands!Onward([r EXCEPT !.shown = r.value, !.read = FALSE]), g, b)
  BY ReadBack
<1>5. QED
  BY <1>3, <1>4

\* A list or the preferences are not to be had: nothing was done.
LEMMA NothingToGoBy ==
  ASSUME NEW r, NEW g, NEW b, Waiting(r, g, b), r.at \in {"lookup", "prefs"},
         NEW outcome \in {"refused", "failed"}, NEW h
  PROVE  Fair(Hands!Answered(r, outcome), h, b)
<1>1. r.carried \in Nat /\ r.due \in Nat /\ ~(r.carried > 0) /\ r.record # "due"
  BY WhatCounts DEF AfterSend
<1>2. IsTab(r)
  BY WhatIsLeft
<1>3. r.carried = 0 /\ r.carried \in 0..r.due
  BY <1>1
<1>4. Told(Hands!Answered(r, outcome))
  BY <1>1, <1>2, <1>3, RefusedIsTold
<1>5. QED
  BY <1>4 DEF Fair

\* The game refuses a value: nothing was done.
LEMMA ValueRefused ==
  ASSUME NEW r, NEW g, NEW b, Waiting(r, g, b), r.at = "send", r.value # Hands!Nothing, NEW h
  PROVE  Fair(Hands!Answered(r, "refused"), h, b)
<1>1. r.carried \in Nat /\ r.due \in Nat
  BY WhatCounts
<1>2. IsTab(r)
  BY WhatIsLeft
<1>3. r.carried = 0 /\ r.record # "due"
  BY WhatMayBeSaid DEF Acting, Setting, Owing
<1>4. Told(Hands!Answered(r, "refused"))
  BY <1>1, <1>2, <1>3, RefusedIsTold
<1>5. QED
  BY <1>4 DEF Fair

\* A request that is put together from what was asked for.
LEMMA AskedIsFair ==
  ASSUME NEW req \in Hands!Requests, NEW r, IsTab(r), NEW g, NEW b, r.plan = req.plan,
         r.user \in Users, r.n \in 1..b, r.setting \in Hands!About(req),
         r.value \in Hands!Wanted(req), r.listed = {}, r.carried = 0,
         r.failed = FALSE, r.read = FALSE, r.due = Sends(req.plan),
         r.record = Hands!Owes(req),
         r.inForce = IF r.setting # Hands!Nothing /\ r.value = Hands!Nothing
                     THEN {g[r.setting]} ELSE {}
  PROVE  Fair(Hands!Onward(r), g, b)
<1> DEFINE plan == req.plan
<1>1. Provided(req, plan)
  BY RequestsArePlanned
<1> HIDE DEF plan
<1>2. plan \in Seq(Steps) /\ InOrder(plan) /\ Sends(plan) \in Nat
  BY <1>1, SendsIsANumber DEF Provided
<1>3. Counts(r, plan)
  <2>1. r.record \in Owing => Has(plan, "record") /\ r.record # "due"
    BY <1>1 DEF Provided, Hands!Owes, Owing
  <2>2. r.due = Sends(plan)
    BY DEF plan
  <2>3. /\ r.carried \in Nat /\ ~(r.carried > 0) /\ r.failed = FALSE
        /\ r.carried + Sends(plan) = r.due /\ r.due \in Nat
    BY <1>2, <2>2
  <2>4. r.carried + Sends(plan) <= r.due
    BY <1>2, <2>3
  <2>5. QED
    BY <2>1, <2>3, <2>4 DEF Counts, Owing
<1>4. r.setting = Hands!Nothing => Acting(r, plan)
  <2>1. ASSUME r.setting = Hands!Nothing
        PROVE  req.page = "actions" /\ r.value = Hands!Nothing /\ r.inForce = {}
    BY <1>1, <2>1, SettingsAssumption DEF Provided, Hands!About, Hands!Wanted
  <2>2. QED
    BY <1>1, <2>1 DEF Acting, Provided
<1>5. ASSUME r.setting # Hands!Nothing
      PROVE  Setting(r, plan, g) /\ Reading(r, plan) /\ Changing(r, plan)
  <2>1. req.page = "settings" /\ r.setting \in DOMAIN Settings
    BY <1>5 DEF Hands!About
  <2>2. ~Has(plan, "record") /\ Once(plan, "send")
    BY <1>1, <2>1 DEF Provided, Only, Has
  <2>3. r.record \notin Owing
    BY <2>1 DEF Hands!Owes, Owing
  <2>4. Setting(r, plan, g)
    BY <1>5, <2>1, <2>2, <2>3 DEF Setting
  <2>5. CASE req.changes
    <3>1. r.value \in Values /\ r.value # Hands!Nothing
      BY <2>1, <2>5, SettingsAssumption DEF Hands!Wanted
    <3>2. Has(plan, "settable") /\ Has(plan, "send")
      BY <1>1, <2>1, <2>5 DEF Provided
    <3>3. QED
      BY <2>4, <3>1, <3>2 DEF Reading, Changing
  <2>6. CASE ~req.changes
    <3>1. r.value = Hands!Nothing
      BY <2>1, <2>6 DEF Hands!Wanted
    <3>2. Only(plan, Steps \ AfterSend)
      BY <1>1, <2>1, <2>6 DEF Provided
    <3>3. QED
      BY <1>5, <2>4, <3>1, <3>2 DEF Reading, Changing
  <2>7. QED
    BY <2>5, <2>6
<1>6. InHand(r, plan, g, b)
  BY <1>2, <1>3, <1>4, <1>5 DEF InHand
<1>7. QED
  BY <1>2, <1>6, OnwardIsFair DEF plan
-----------------------------------------------------------------------------
(***************************************************************************)
(* The operators' requests, all of them, and the history.                  *)
(***************************************************************************)

AllFair(requests, g, b) ==
  requests = [t \in Tabs |-> requests[t]] /\ \A t \in Tabs : Fair(requests[t], g, b)

Hand ==
  /\ game \in [DOMAIN Settings -> Values]
  /\ AllFair(tab, game, begun)
  /\ Kept

\* One goes on, and the others see what is in force.
LEMMA OneGoesOn ==
  ASSUME NEW requests, NEW g, NEW b, AllFair(requests, g, b), NEW t \in Tabs,
         NEW q, NEW h, Fair(q, h, b)
  PROVE  AllFair([Hands!Watched(requests, h) EXCEPT ![t] = q], h, b)
<1> DEFINE noticed == Hands!Watched(requests, h)
           after == [noticed EXCEPT ![t] = q]
<1>1. noticed = [s \in Tabs |-> Sees(requests[s], h)]
  BY WatchedSees
<1> HIDE DEF noticed
<1>2. after = [s \in Tabs |-> IF s = t THEN q ELSE Sees(requests[s], h)]
  BY <1>1
<1> HIDE DEF after
<1>3. ASSUME NEW s \in Tabs
      PROVE  Fair(after[s], h, b)
  <2>1. Fair(Sees(requests[s], h), h, b)
    BY SeesFairly DEF AllFair
  <2>2. QED
    BY <1>2, <2>1
<1>4. AllFair(after, h, b)
  BY <1>2, <1>3 DEF AllFair
<1>5. QED
  BY <1>4 DEF after, noticed

LEMMA OneGoesOnAlone ==
  ASSUME NEW requests, NEW g, NEW b, AllFair(requests, g, b), NEW t \in Tabs,
         NEW q, Fair(q, g, b)
  PROVE  AllFair([requests EXCEPT ![t] = q], g, b)
  BY DEF AllFair

LEMMA AllSee ==
  ASSUME NEW requests, NEW g, NEW b, AllFair(requests, g, b), NEW h
  PROVE  AllFair(Hands!Watched(requests, h), h, b)
<1>1. ASSUME NEW s \in Tabs
      PROVE  Fair(Sees(requests[s], h), h, b)
  BY SeesFairly DEF AllFair
<1> DEFINE noticed == [s \in Tabs |-> Sees(requests[s], h)]
<1>2. AllFair(noticed, h, b)
  BY <1>1 DEF AllFair
<1>3. QED
  BY <1>2, WatchedSees

LEMMA ValueInForce ==
  ASSUME game \in [DOMAIN Settings -> Values], NEW s, NEW v \in Values
  PROVE  Hands!InForce(s, v) \in [DOMAIN Settings -> Values]
  BY DEF Hands!InForce

LEMMA FileIsAValue == Hands!File \in Values
<1>1. \E v \in Values : TRUE
  BY SettingsAssumption
<1>2. QED
  BY <1>1 DEF Hands!File

\* Who waits, is asked, and nothing else.
LEMMA WhoWaits ==
  ASSUME Hand, NEW t \in Tabs, tab[t].at \in Hands!Waits
  PROVE  Waiting(tab[t], game, begun)
<1>1. Fair(tab[t], game, begun)
  BY DEF Hand, AllFair
<1>2. tab[t] # Hands!Idle
  BY IdleIsATab DEF Hands!Waits
<1>3. ~Told(tab[t])
  BY DEF Told, Hands!Waits
<1>4. QED
  BY <1>1, <1>2, <1>3 DEF Fair, Waiting

LEMMA HandInit ==
  ASSUME Hands!Init
  PROVE  Hand
<1>1. game \in [DOMAIN Settings -> Values]
  BY FileIsAValue DEF Hands!Init
<1>2. tab = [t \in Tabs |-> Hands!Idle]
  BY DEF Hands!Init
<1>3. AllFair(tab, game, begun)
  BY <1>2 DEF AllFair, Fair
<1>4. QED
  BY <1>1, <1>3, KeptInit DEF Hand

\* A request is answered by the game, and the history is what it was.
LEMMA GamesAnswer ==
  ASSUME Hand, NEW t \in Tabs, NEW q,
         UNCHANGED <<table, written, begun>>,
         \/ UNCHANGED game /\ tab' = [tab EXCEPT ![t] = q] /\ Fair(q, game, begun)
         \/ /\ game' \in [DOMAIN Settings -> Values] /\ Fair(q, game', begun)
            /\ tab' = [Hands!Watched(tab, game') EXCEPT ![t] = q]
  PROVE  Hand'
<1>1. Kept'
  <2>1. Kept /\ begun \in Nat
    BY DEF Hand, Kept
  <2>2. begun' \in Nat /\ begun' >= begun /\ UNCHANGED <<table, written>>
    BY <2>1
  <2>3. QED
    BY <2>1, <2>2, KeptGoesOn
<1>2. game' \in [DOMAIN Settings -> Values]
  BY DEF Hand
<1>3. AllFair(tab', game', begun)
  <2>1. AllFair(tab, game, begun)
    BY DEF Hand
  <2>2. CASE UNCHANGED game /\ tab' = [tab EXCEPT ![t] = q] /\ Fair(q, game, begun)
    BY <2>1, <2>2, OneGoesOnAlone
  <2>3. CASE /\ game' \in [DOMAIN Settings -> Values] /\ Fair(q, game', begun)
             /\ tab' = [Hands!Watched(tab, game') EXCEPT ![t] = q]
    BY <2>1, <2>3, OneGoesOn
  <2>4. QED
    BY <2>2, <2>3
<1>4. QED
  BY <1>1, <1>2, <1>3 DEF Hand

LEMMA BeginsFairly ==
  ASSUME Hand, NEW u \in Users, NEW req \in Hands!Requests, Hands!Begins(u, req)
  PROVE  Hand'
<1>1. /\ begun' = begun + 1 /\ UNCHANGED <<game, table, written>>
      /\ begun \in Nat /\ begun' \in Nat
  BY DEF Hands!Begins, Hand, Kept
<1>2. PICK t \in Tabs, s \in Hands!About(req), v \in Hands!Wanted(req) :
        LET r == [Hands!Idle EXCEPT
                    !.plan = req.plan, !.user = u, !.n = begun', !.wrong = req.wrong,
                    !.allowed = Hands!IsAllowed(req),
                    !.setting = s, !.value = v,
                    !.due = Hands!Cardinality({i \in DOMAIN req.plan :
                                                 req.plan[i] = "send"}),
                    !.record = Hands!Owes(req),
                    !.inForce = IF s # Hands!Nothing /\ v = Hands!Nothing
                                THEN {game[s]} ELSE {}]
        IN tab[t] = Hands!Idle /\ tab' = [tab EXCEPT ![t] = Hands!Onward(r)]
  BY DEF Hands!Begins
<1> DEFINE allowed == Hands!IsAllowed(req)
           due == Hands!Cardinality({i \in DOMAIN req.plan : req.plan[i] = "send"})
           record == Hands!Owes(req)
           noticed == IF s # Hands!Nothing /\ v = Hands!Nothing THEN {game[s]} ELSE {}
           c == begun + 1
           r == [Hands!Idle EXCEPT
                   !.plan = req.plan, !.user = u, !.n = c, !.wrong = req.wrong,
                   !.allowed = allowed, !.setting = s, !.value = v, !.due = due,
                   !.record = record, !.inForce = noticed]
<1>3. tab' = [tab EXCEPT ![t] = Hands!Onward(r)]
  BY <1>1, <1>2
<1>4. due = Sends(req.plan)
  BY DEF Sends, Cardinality, Hands!Cardinality
<1>5. record = Hands!Owes(req)
  OBVIOUS
<1>6. /\ IsTab(r) /\ r.plan = req.plan /\ r.user = u /\ r.n = c /\ r.setting = s
      /\ r.value = v /\ r.listed = {} /\ r.carried = 0 /\ r.failed = FALSE /\ r.read = FALSE
      /\ r.due = due /\ r.record = record /\ r.inForce = noticed
  <2> HIDE DEF allowed, due, record, noticed, c
  <2> DEFINE idle == Hands!Idle
  <2>1. /\ IsTab(idle) /\ idle.listed = {} /\ idle.carried = 0 /\ idle.failed = FALSE
        /\ idle.read = FALSE
    BY IdleIsATab
  <2> HIDE DEF idle
  <2> DEFINE q == [idle EXCEPT
                     !.plan = req.plan, !.user = u, !.n = c, !.wrong = req.wrong,
                     !.allowed = allowed, !.setting = s, !.value = v, !.due = due,
                     !.record = record, !.inForce = noticed]
  <2>2. q = [f \in TabFields |->
               CASE f = "plan" -> req.plan [] f = "user" -> u [] f = "n" -> c
                 [] f = "wrong" -> req.wrong [] f = "allowed" -> allowed
                 [] f = "setting" -> s [] f = "value" -> v [] f = "due" -> due
                 [] f = "record" -> record [] f = "inForce" -> noticed
                 [] OTHER -> idle[f]]
    BY <2>1, Zenon DEF IsTab, TabFields
  <2>3. r = q
    BY DEF idle
  <2> HIDE DEF q, r
  <2>4. QED
    BY <2>1, <2>2, <2>3 DEF IsTab, TabFields
<1>7. c \in Nat /\ begun <= c /\ r.n \in 1..c
  BY <1>1, <1>6
<1>8. r.inForce = IF r.setting # Hands!Nothing /\ r.value = Hands!Nothing
                  THEN {game[r.setting]} ELSE {}
  BY <1>6
<1> HIDE DEF r, due, record, noticed, c
<1>9. Fair(Hands!Onward(r), game, c)
  BY <1>4, <1>5, <1>6, <1>7, <1>8, AskedIsFair
<1>10. AllFair(tab, game, c)
  <2>1. AllFair(tab, game, begun)
    BY DEF Hand
  <2>2. ASSUME NEW x \in Tabs
        PROVE  Fair(tab[x], game, c)
    <3>1. Fair(tab[x], game, begun)
      BY <2>1 DEF AllFair
    <3>2. QED
      BY <1>1, <1>7, <3>1, MoreRequests
  <2>3. QED
    BY <2>1, <2>2 DEF AllFair
<1>11. AllFair([tab EXCEPT ![t] = Hands!Onward(r)], game, c)
  BY <1>9, <1>10, OneGoesOnAlone
<1>12. AllFair(tab', game', begun')
  BY <1>1, <1>3, <1>11 DEF c
<1>13. Kept'
  BY <1>1, KeptGoesOn DEF Hand
<1>14. game' \in [DOMAIN Settings -> Values]
  BY <1>1 DEF Hand
<1>15. QED
  BY <1>12, <1>13, <1>14 DEF Hand

LEMMA StepsFairly ==
  ASSUME Hand, NEW t \in Tabs, Hands!RequestStep(t)
  PROVE  Hand'
<1> DEFINE r == tab[t]
<1>1. game \in [DOMAIN Settings -> Values]
  BY DEF Hand
<1>2. CASE Hands!LooksUp(t)
  <2>1. Waiting(r, game, begun) /\ r.at = "lookup"
    BY <1>2, WhoWaits DEF Hands!LooksUp, Hands!Waits
  <2>2. Fair(Hands!Onward(r), game, begun)
    BY <2>1, AnswerIgnored
  <2>3. Fair(Hands!Answered(r, "refused"), game, begun)
    BY <2>1, NothingToGoBy
  <2>4. QED
    BY <1>2, <2>2, <2>3, GamesAnswer DEF Hands!LooksUp
<1>3. CASE Hands!ReadsPrefs(t)
  <2>1. Waiting(r, game, begun) /\ r.at = "prefs"
    BY <1>3, WhoWaits DEF Hands!ReadsPrefs, Hands!Waits
  <2>2. Fair(Hands!Onward([r EXCEPT !.shown = Hands!File]), game, begun)
    BY <2>1, PrefsRead
  <2>3. QED
    BY <1>3, <2>2, GamesAnswer DEF Hands!ReadsPrefs
<1>4. CASE Hands!ReadsLive(t)
  <2>1. Waiting(r, game, begun) /\ r.at = "live"
    BY <1>4, WhoWaits DEF Hands!ReadsLive, Hands!Waits
  <2> DEFINE overlaid == r.value = Hands!Nothing /\ r.setting \in Reported
             q == [r EXCEPT !.listed = Reported, !.read = overlaid,
                            !.shown = IF overlaid THEN game[r.setting] ELSE r.shown]
  <2>2. Fair(Hands!Onward(q), game, begun)
    BY <2>1, LiveRead
  <2>3. tab' = [tab EXCEPT ![t] = Hands!Onward(q)] /\ UNCHANGED <<game, table, begun, written>>
    BY <1>4 DEF Hands!ReadsLive, Reported
  <2> HIDE DEF q
  <2>4. QED
    BY <2>2, <2>3, GamesAnswer
<1>5. CASE Hands!Sends(t)
  <2>1. Waiting(r, game, begun) /\ r.at = "send"
    BY <1>5, WhoWaits DEF Hands!Sends, Hands!Waits
  <2> DEFINE g == IF r.value = Hands!Nothing THEN game ELSE Hands!InForce(r.setting, r.value)
             q == [Hands!OnItsWay(r) EXCEPT
                     !.carried = r.carried + 1,
                     !.inForce = IF r.value = Hands!Nothing THEN {} ELSE {g[r.setting]}]
  <2>2. g \in [DOMAIN Settings -> Values]
    <3>1. r.value # Hands!Nothing => r.value \in Values
      BY <2>1, WhatMayBeSaid DEF Acting
    <3>2. QED
      BY <1>1, <3>1, ValueInForce
  <2>3. /\ UNCHANGED <<table, begun, written>>
        /\ \/ /\ game' = g
              /\ tab' = [Hands!Watched(tab, g) EXCEPT ![t] = Hands!Onward(q)]
           \/ /\ r.value # Hands!Nothing /\ UNCHANGED game
              /\ tab' = [tab EXCEPT ![t] = Hands!Answered(r, "refused")]
    BY <1>5 DEF Hands!Sends
  <2> HIDE DEF g
  <2>4. Fair(Hands!Onward(q), g, begun)
    BY <2>1, CommandSent
  <2>5. r.value # Hands!Nothing => Fair(Hands!Answered(r, "refused"), game, begun)
    BY <2>1, ValueRefused
  <2> HIDE DEF q, r
  <2>6. QED
    BY <2>2, <2>3, <2>4, <2>5, GamesAnswer
<1>6. CASE Hands!Records(t)
  <2>1. Waiting(r, game, begun) /\ r.at = "record"
    BY <1>6, WhoWaits DEF Hands!Records, Hands!Waits
  <2>2. Fair(Hands!Onward([r EXCEPT !.record = "kept"]), game, begun)
    BY <2>1, NoteTaken
  <2>3. UNCHANGED <<game, begun>>
        /\ tab' = [tab EXCEPT ![t] = Hands!Onward([r EXCEPT !.record = "kept"])]
    BY <1>6 DEF Hands!Records
  <2>4. r.user \in Users /\ r.n \in 1..begun
    BY <2>1, WhatIsLeft
  <2>5. Kept'
    BY <1>6, <2>4, KeptRecords DEF Hand
  <2>6. AllFair(tab', game, begun)
    BY <2>2, <2>3, OneGoesOnAlone DEF Hand
  <2>7. QED
    BY <1>1, <2>3, <2>5, <2>6 DEF Hand
<1>7. CASE Hands!ReadsBack(t)
  <2>1. Waiting(r, game, begun) /\ r.at = "readback"
    BY <1>7, WhoWaits DEF Hands!ReadsBack, Hands!Waits
  <2> DEFINE found == Hands!Listed(r.setting)
             shows == IF found THEN game[r.setting] ELSE r.value
             q == [r EXCEPT !.shown = shows, !.read = found]
  <2>2. found \in BOOLEAN /\ (found => shows = game[r.setting])
    BY DEF Hands!Listed
  <2>3. tab' = [tab EXCEPT ![t] = Hands!Onward(q)] /\ UNCHANGED <<game, table, begun, written>>
    BY <1>7 DEF Hands!ReadsBack
  <2> HIDE DEF found, shows
  <2>4. Fair(Hands!Onward(q), game, begun)
    BY <2>1, <2>2, ReadBack
  <2> HIDE DEF q
  <2>5. QED
    BY <2>3, <2>4, GamesAnswer
<1>8. CASE Hands!Finishes(t)
  <2>1. Fair(Hands!Idle, game, begun)
    BY DEF Fair
  <2>2. QED
    BY <1>8, <2>1, GamesAnswer DEF Hands!Finishes
<1>9. QED
  BY <1>2, <1>3, <1>4, <1>5, <1>6, <1>7, <1>8 DEF Hands!RequestStep

\* A call that fails, and the browser that goes away.
LEMMA FailsFairly ==
  ASSUME Hand, NEW t \in Tabs, Hands!CallFails(t)
  PROVE  Hand'
<1> DEFINE r == tab[t]
           sent == Hands!OnItsWay(r)
           failed == [sent EXCEPT !.failed = TRUE]
           after(q) == IF "record" \in Hands!Range(q.plan) THEN Hands!Onward(q)
                       ELSE Hands!Answered(q, "failed")
           g == IF r.value = Hands!Nothing THEN game ELSE Hands!InForce(r.setting, r.value)
           twice == [failed EXCEPT !.carried = r.carried + 1]
<1>1. game \in [DOMAIN Settings -> Values]
  BY DEF Hand
<1>2. UNCHANGED <<table, begun, written>>
  BY DEF Hands!CallFails
<1>3. r.at \in Hands!Waits /\ Waiting(r, game, begun)
  BY WhoWaits DEF Hands!CallFails, Hands!Waits
<1>4. CASE r.at \in {"lookup", "prefs"} /\ UNCHANGED game
           /\ tab' = [tab EXCEPT ![t] = Hands!Answered(r, "failed")]
  <2>1. Fair(Hands!Answered(r, "failed"), game, begun)
    BY <1>3, <1>4, NothingToGoBy
  <2>2. QED
    BY <1>2, <1>4, <2>1, GamesAnswer
<1>5. CASE r.at = "live" /\ UNCHANGED game /\ tab' = [tab EXCEPT ![t] = Hands!Onward(r)]
  <2>1. Fair(Hands!Onward(r), game, begun)
    BY <1>3, <1>5, AnswerIgnored
  <2>2. QED
    BY <1>2, <1>5, <2>1, GamesAnswer
<1>6. /\ IsTab(failed) /\ failed.failed = TRUE /\ failed.carried = r.carried
      /\ IsTab(twice) /\ twice.failed = TRUE /\ twice.carried = r.carried + 1
      /\ \A f \in TabFields \ {"failed", "carried", "record"} :
           failed[f] = r[f] /\ twice[f] = r[f]
      /\ failed.record \in Owing => r.record \in Owing
      /\ twice.record \in Owing => r.record \in Owing
  <2>1. IsTab(r)
    BY <1>3, WhatIsLeft
  <2>2. /\ IsTab(sent) /\ \A f \in TabFields \ {"record"} : sent[f] = r[f]
        /\ sent.record \in Owing => r.record \in Owing
    BY <2>1, NoteIsDue
  <2> HIDE DEF r, sent
  <2>3. /\ IsTab(failed) /\ failed.failed = TRUE
        /\ \A f \in TabFields \ {"failed"} : failed[f] = sent[f]
    BY <2>2 DEF IsTab, TabFields
  <2>4. /\ IsTab(twice) /\ twice.failed = TRUE /\ twice.carried = r.carried + 1
        /\ \A f \in TabFields \ {"failed", "carried"} : twice[f] = sent[f]
    BY <2>2 DEF IsTab, TabFields
  <2> HIDE DEF failed, twice
  <2>5. QED
    BY <2>2, <2>3, <2>4 DEF TabFields
<1>7. CASE r.at = "send" /\ UNCHANGED game /\ tab' = [tab EXCEPT ![t] = after(failed)]
  <2> HIDE DEF failed, twice
  <2>1. Fair(after(failed), game, begun)
    BY <1>3, <1>6, <1>7, CommandFailed
  <2>2. QED
    BY <1>2, <1>7, <2>1, GamesAnswer
<1>8. CASE /\ r.at = "send" /\ game' = g
           /\ tab' = [Hands!Watched(tab, game') EXCEPT ![t] = after(twice)]
  <2>1. g \in [DOMAIN Settings -> Values]
    <3>1. r.value # Hands!Nothing => r.value \in Values
      BY <1>3, <1>8, WhatMayBeSaid DEF Acting
    <3>2. QED
      BY <1>1, <3>1, ValueInForce
  <2> HIDE DEF failed, twice, g
  <2>2. Fair(after(twice), g, begun)
    BY <1>3, <1>6, <1>8, CommandFailed
  <2> HIDE DEF after
  <2>3. Fair(after(twice), game', begun) /\ game' \in [DOMAIN Settings -> Values]
    BY <1>8, <2>1, <2>2
  <2>4. QED
    BY <1>2, <1>8, <2>3, GamesAnswer
<1>9. CASE r.at = "readback" /\ UNCHANGED game
           /\ tab' = [tab EXCEPT ![t] = Hands!Onward([r EXCEPT !.shown = r.value])]
  <2>1. Fair(Hands!Onward([r EXCEPT !.shown = r.value]), game, begun)
    BY <1>3, <1>9, ReadBackFails
  <2>2. QED
    BY <1>2, <1>9, <2>1, GamesAnswer
<1>10. QED
  BY <1>4, <1>5, <1>7, <1>8, <1>9 DEF Hands!CallFails

LEMMA LeavesFairly ==
  ASSUME Hand, NEW t \in Tabs, Hands!BrowserLeaves(t)
  PROVE  Hand'
<1> DEFINE r == tab[t]
<1>1. /\ UNCHANGED <<table, begun, written>>
      /\ tab' = [Hands!Watched(tab, game') EXCEPT ![t] = Hands!Idle]
      /\ game' \in {game} \cup
           IF r.at = "send" /\ r.value # Hands!Nothing
           THEN {Hands!InForce(r.setting, r.value)} ELSE {}
      /\ r.at \in Hands!Waits
  BY DEF Hands!BrowserLeaves
<1>2. Waiting(r, game, begun)
  BY <1>1, WhoWaits
<1>3. r.value # Hands!Nothing => r.value \in Values
  BY <1>2, WhatMayBeSaid DEF Acting
<1>4. game' \in [DOMAIN Settings -> Values]
  BY <1>1, <1>3, ValueInForce DEF Hand
<1>5. Fair(Hands!Idle, game', begun)
  BY DEF Fair
<1>6. QED
  BY <1>1, <1>4, <1>5, GamesAnswer

LEMMA HandStep ==
  ASSUME Hand, Hands!Next
  PROVE  Hand'
<1>1. ASSUME NEW u \in Users, NEW req \in Hands!Requests, Hands!Begins(u, req)
      PROVE  Hand'
  BY <1>1, BeginsFairly
<1>2. ASSUME NEW t \in Tabs, Hands!RecordFails(t)
      PROVE  Hand'
  <2>1. tab[t].at = "record" /\ UNCHANGED <<game, table, begun, written>>
        /\ tab' = [tab EXCEPT ![t] = Hands!Onward([tab[t] EXCEPT !.record = "lost"])]
    BY <1>2 DEF Hands!RecordFails
  <2>2. Waiting(tab[t], game, begun)
    BY <2>1, WhoWaits DEF Hands!Waits
  <2>3. Fair(Hands!Onward([tab[t] EXCEPT !.record = "lost"]), game, begun)
    BY <2>1, <2>2, NoteTaken
  <2>4. QED
    BY <2>1, <2>3, GamesAnswer
<1>3. CASE Hands!GameRestarts
  <2>1. /\ UNCHANGED <<table, begun, written>> /\ game' = [s \in DOMAIN Settings |-> Hands!File]
        /\ tab' = Hands!Watched(tab, game')
    BY <1>3 DEF Hands!GameRestarts
  <2>2. game' \in [DOMAIN Settings -> Values]
    BY <2>1, FileIsAValue
  <2>3. AllFair(tab', game', begun)
    BY <2>1, AllSee DEF Hand
  <2>4. Kept'
    <3>1. Kept /\ begun \in Nat
      BY DEF Hand, Kept
    <3>2. begun' \in Nat /\ begun' >= begun /\ UNCHANGED <<table, written>>
      BY <2>1, <3>1
    <3>3. QED
      BY <3>1, <3>2, KeptGoesOn
  <2>5. QED
    BY <2>1, <2>2, <2>3, <2>4 DEF Hand
<1>4. CASE Hands!Prunes
  <2>1. UNCHANGED <<game, tab, begun>>
    BY <1>4 DEF Hands!Prunes
  <2>2. Kept'
    BY <1>4, KeptPrunes DEF Hand
  <2>3. QED
    BY <2>1, <2>2 DEF Hand
<1>5. QED
  BY <1>1, <1>2, <1>3, <1>4, StepsFairly, FailsFairly, LeavesFairly DEF Hands!Next

\* What follows from it.
LEMMA HandHolds ==
  ASSUME Hand
  PROVE  Hands!TypeOK /\ Hands!AnswersAreHonest /\ Hands!EverythingIsOnRecord
<1>1. ASSUME NEW t \in Tabs
      PROVE  /\ tab[t].at \in Hands!Waits \cup {"idle", "answered"}
             /\ tab[t].at \in Hands!Waits => tab[t].user \in Users
             /\ tab[t].carried \in 0..tab[t].due
             /\ tab[t].at = "answered" => Told(tab[t])
  <2> DEFINE r == tab[t]
  <2>1. Fair(r, game, begun)
    BY DEF Hand, AllFair
  <2>2. CASE r = Hands!Idle
    BY <2>2, IdleIsATab DEF Hands!Waits
  <2>3. CASE Told(r)
    BY <2>3 DEF Told, Hands!Waits
  <2>4. CASE Waiting(r, game, begun)
    <3>1. r.at \in Hands!Waits /\ r.user \in Users
      BY <2>4, WhatIsLeft
    <3>2. /\ r.carried \in Nat /\ r.due \in Nat /\ Sends(r.plan) \in Nat
          /\ r.carried + Sends(r.plan) <= r.due \/ r.carried + Sends(r.plan) + 1 <= r.due
      BY <2>4, WhatCounts
    <3>3. r.carried \in 0..r.due
      BY <3>2
    <3>4. QED
      BY <3>1, <3>3 DEF Hands!Waits
  <2>5. QED
    BY <2>1, <2>2, <2>3, <2>4 DEF Fair, Waiting
<1>2. Hands!TypeOK
  <2>1. game \in [DOMAIN Settings -> Values]
    BY DEF Hand
  <2>2. table.rows \subseteq [id : 1..table.last, user : Users, n : 1..begun]
    BY DEF Hand, Kept
  <2>3. QED
    BY <1>1, <2>1, <2>2 DEF Hands!TypeOK
<1>3. Hands!AnswersAreHonest
  BY <1>1 DEF Told, Hands!AnswersAreHonest
<1>4. Hands!EverythingIsOnRecord
  <2>1. \A t \in Tabs : tab[t].at = "answered" => tab[t].record # "due"
    BY <1>1 DEF Told
  <2>2. \A u \in Users :
          Hands!Recent(u, Keep) =
            {written[u][i] : i \in {j \in DOMAIN written[u] : j + Keep > Len(written[u])}}
    BY KeptShowsTheNewest DEF Hand
  <2>3. QED
    BY <2>1, <2>2 DEF Hands!EverythingIsOnRecord
<1>5. QED
  BY <1>2, <1>3, <1>4
-----------------------------------------------------------------------------
LEMMA HandStutters ==
  ASSUME Hand, UNCHANGED handVars
  PROVE  Hand'
<1>1. UNCHANGED <<game, table, tab, begun, written>>
  BY DEF handVars
<1>2. Kept'
  <2>1. Kept /\ begun \in Nat
    BY DEF Hand, Kept
  <2>2. begun' \in Nat /\ begun' >= begun /\ UNCHANGED <<table, written>>
    BY <1>1, <2>1
  <2>3. QED
    BY <2>1, <2>2, KeptGoesOn
<1>3. AllFair(tab', game', begun')
  BY <1>1 DEF Hand
<1>4. QED
  BY <1>1, <1>2, <1>3 DEF Hand

LEMMA BootStutters ==
  ASSUME Ordered, UNCHANGED bootVars
  PROVE  Ordered'
  BY DEF Ordered, bootVars

LEMMA HandAndBootInit == Init => Hand /\ Ordered
  BY HandInit, OrderedInit DEF Init

LEMMA HandAndBootStep == Hand /\ Ordered /\ [Next]_vars => Hand' /\ Ordered'
<1> SUFFICES ASSUME Hand, Ordered, [Next]_vars
             PROVE  Hand' /\ Ordered'
  OBVIOUS
<1>1. Hand'
  <2>1. CASE HandsMove
    BY <2>1, HandStep DEF HandsMove
  <2>2. CASE UNCHANGED handVars
    BY <2>2, HandStutters
  <2>3. QED
    BY <2>1, <2>2 DEF Next, vars, ChatMoves, TilesMove, ListsMove, LoginsMove, HandsMove,
       BootMoves, PagesMove
<1>2. Ordered'
  <2>1. CASE BootMoves
    BY <2>1, OrderedIsKept DEF BootMoves
  <2>2. CASE UNCHANGED bootVars
    BY <2>2, BootStutters
  <2>3. QED
    BY <2>1, <2>2 DEF Next, vars, ChatMoves, TilesMove, ListsMove, LoginsMove, HandsMove,
       BootMoves, PagesMove
<1>3. QED
  BY <1>1, <1>2

\* Whoever is told what came of a command of his that changes something, sent from
\* anywhere but the settings page, finds it in his history, unless the statement
\* that records it failed; his page shows the newest he did, however much the others
\* do and whenever it is pruned; and every migration is done once and in order,
\* whenever the panel is killed.
THEOREM EverythingAlwaysOnRecord == Spec => []EverythingIsOnRecord
<1> DEFINE Inv == Hand /\ Ordered
<1>1. Init => Inv
  BY HandAndBootInit
<1>2. Inv /\ [Next]_vars => Inv'
  BY HandAndBootStep
<1>3. Inv => EverythingIsOnRecord
  BY HandHolds, OrderedHolds DEF EverythingIsOnRecord
<1>4. QED
  BY <1>1, <1>2, <1>3, PTL DEF Spec
-----------------------------------------------------------------------------
(***************************************************************************)
(* The pages: what is picked from a list.                                  *)
(***************************************************************************)

\* Of a set in some order the first n.
FirstIn(S, R, n) == {i \in S : Cardinality({j \in S : <<j, i>> \in R}) < n}

\* Of a finite set in some order as many come first as are asked for, or all.
LEMMA FirstOfMany ==
  ASSUME NEW S, IsFiniteSet(S), NEW R, NEW n \in Nat,
         \A i, j \in S : i = j \/ <<i, j>> \in R \/ <<j, i>> \in R,
         \A i \in S : <<i, i>> \notin R,
         \A i, j, k \in S : (<<i, j>> \in R /\ <<j, k>> \in R) => <<i, k>> \in R
  PROVE  Cardinality(FirstIn(S, R, n)) = IF n <= Cardinality(S) THEN n ELSE Cardinality(S)
<1> DEFINE Below(i) == {j \in S : <<j, i>> \in R}
           f == [i \in S |-> Cardinality(Below(i))]
           m == Cardinality(S)
           First == {i \in S : Cardinality(Below(i)) < n}
           last == IF n <= m THEN n - 1 ELSE m - 1
           g == [i \in First |-> f[i]]
<1>1. m \in Nat
  BY FS_CardinalityType
<1>2. \A i \in S : IsFiniteSet(Below(i)) /\ Cardinality(Below(i)) \in 0..(m - 1)
  <2> TAKE i \in S
  <2>1. IsFiniteSet(Below(i)) /\ Cardinality(Below(i)) <= m /\ Below(i) # S
        /\ (m = Cardinality(Below(i)) => S = Below(i))
    BY FS_Subset
  <2>2. Cardinality(Below(i)) \in Nat
    BY <2>1, FS_CardinalityType
  <2> HIDE DEF Below, m
  <2>3. QED
    BY <1>1, <2>1, <2>2
<1>3. ASSUME NEW i \in S, NEW j \in S, <<i, j>> \in R
      PROVE  Cardinality(Below(i)) < Cardinality(Below(j))
  <2>1. Below(i) \subseteq Below(j) /\ i \in Below(j) \ Below(i)
    BY <1>3
  <2>2. /\ Cardinality(Below(i)) <= Cardinality(Below(j))
        /\ Cardinality(Below(j)) = Cardinality(Below(i)) => Below(j) = Below(i)
    BY <1>2, <2>1, FS_Subset
  <2> HIDE DEF Below, m
  <2>3. Cardinality(Below(i)) \in Int /\ Cardinality(Below(j)) \in Int
    BY <1>1, <1>2
  <2>4. Cardinality(Below(j)) # Cardinality(Below(i))
    BY <2>1, <2>2
  <2>5. QED
    BY <2>2, <2>3, <2>4
<1>4. /\ f \in [S -> 0..(m - 1)]
      /\ \A i, j \in S : <<i, j>> \in R => f[i] < f[j]
      /\ \A i \in S : f[i] = Cardinality(Below(i))
  <2> HIDE DEF Below, m
  <2>1. QED
    BY <1>2, <1>3
<1>5. f \in Injection(S, 0..(m - 1))
  <2>1. ASSUME NEW i \in S, NEW j \in S, f[i] = f[j], i # j
        PROVE  FALSE
    <3> HIDE DEF f, m
    <3>1. f[i] \in Int /\ f[j] \in Int
      BY <1>1, <1>4
    <3>2. f[i] < f[j] \/ f[j] < f[i]
      BY <1>4, <2>1
    <3>3. QED
      BY <2>1, <3>1, <3>2
  <2> HIDE DEF f, m
  <2>2. QED
    BY <1>4, <2>1 DEF Injection, IsInjective
<1>6. f \in Surjection(S, 0..(m - 1))
  <2>1. IsFiniteSet(0..(m - 1)) /\ Cardinality(0..(m - 1)) = m
    <3> HIDE DEF m
    <3>1. QED
      BY <1>1, FS_Interval
  <2> HIDE DEF f
  <2>2. QED
    BY <1>5, <2>1, FS_Injection
<1>7. g \in Bijection(First, 0..last)
  <2> HIDE DEF Below, m
  <2>1. \A i \in First : i \in S /\ g[i] = Cardinality(Below(i)) /\ g[i] < n
    OBVIOUS
  <2>2. g \in [First -> 0..last]
    BY <1>1, <1>2, <2>1
  <2>3. \A k \in 0..last : k \in 0..(m - 1) /\ k < n
    BY <1>1
  <2>4. ASSUME NEW k \in 0..last
        PROVE  \E i \in First : g[i] = k
    <3>1. PICK i \in S : f[i] = k
      BY <1>6, <2>3, <2>4 DEF Surjection
    <3>2. QED
      BY <2>3, <3>1
  <2>5. \A i, j \in First : g[i] = g[j] => i = j
    <3>1. \A i, j \in S : f[i] = f[j] => i = j
      BY <1>5 DEF Injection, IsInjective
    <3>2. QED
      BY <1>4, <2>1, <3>1
  <2> HIDE DEF g, First, last
  <2>6. g \in Injection(First, 0..last)
    BY <2>2, <2>5 DEF Injection, IsInjective
  <2>7. g \in Surjection(First, 0..last)
    BY <2>2, <2>4 DEF Surjection
  <2>8. QED
    BY <2>6, <2>7 DEF Bijection
<1>8. IsFiniteSet(First)
  BY FS_Subset
<1>9. Cardinality(0..last) = IF n <= m THEN n ELSE m
  <2> HIDE DEF m
  <2>1. last \in Int /\ last >= -1 /\ last + 1 = IF n <= m THEN n ELSE m
    BY <1>1
  <2> HIDE DEF last
  <2>2. Cardinality(0..last) = IF 0 > last THEN 0 ELSE last - 0 + 1
    BY <2>1, FS_Interval
  <2>3. QED
    BY <1>1, <2>1, <2>2
<1>10. Cardinality(First) = Cardinality(0..last)
  <2> HIDE DEF First, last, g
  <2>1. ExistsBijection(First, 0..last)
    BY <1>7 DEF ExistsBijection
  <2>2. QED
    BY <1>8, <2>1, FS_Bijection
<1>11. QED
  BY <1>9, <1>10 DEF FirstIn

\* The first of what a search found are shown, and they are the best.
LEMMA BestIsPicked ==
  ASSUME NEW catalogue \in Read!Catalogues, NEW shelf \in Shelves, NEW given \in BOOLEAN,
         NEW all \in BOOLEAN, NEW limit \in Nat
  PROVE  Read!PicksTheBest(catalogue, shelf, given, all, limit)
<1> DEFINE found == Read!Found(catalogue, shelf, given, all)
           rank(i) == Read!Rank(catalogue, shelf[i])
           R == {p \in found \X found :
                   Read!Above(catalogue, shelf, given, p[1], p[2])}
           n == Read!ClampLimit(catalogue, limit)
           shown == Read!FirstOf(catalogue, shelf, given, found, n)
<1>1. \A A : Read!Cardinality(A) = Cardinality(A)
  BY DEF Cardinality, Read!Cardinality
<1>2. found \subseteq Int /\ IsFiniteSet(found)
  <2>1. DOMAIN shelf = 1..Len(shelf) /\ Len(shelf) \in Nat
    BY PagesAssumption
  <2>2. IsFiniteSet(DOMAIN shelf)
    BY <2>1, FS_Interval
  <2>3. QED
    BY <2>1, <2>2, FS_Subset DEF Read!Found
<1>3. \A i \in found : rank(i) \in Int
  BY DEF Read!Rank, Read!Catalogues
<1>4. n \in Nat \ {0}
  BY DEF Read!ClampLimit
<1>5. \A i, j \in found :
        (<<i, j>> \in R) <=> IF given /\ rank(i) # rank(j) THEN rank(i) < rank(j) ELSE i < j
  <2> HIDE DEF found
  <2>1. QED
    BY DEF Read!Above
<1> HIDE DEF found, rank, R, n
<1>6. /\ \A i, j \in found : i = j \/ <<i, j>> \in R \/ <<j, i>> \in R
      /\ \A i \in found : <<i, i>> \notin R
  BY <1>2, <1>3, <1>5
<1>7. ASSUME NEW i \in found, NEW j \in found, NEW k \in found,
             <<i, j>> \in R, <<j, k>> \in R
      PROVE  <<i, k>> \in R
  <2>1. rank(i) \in Int /\ rank(j) \in Int /\ rank(k) \in Int /\ i \in Int /\ j \in Int /\ k \in Int
    BY <1>2, <1>3
  <2>2. QED
    BY <1>5, <1>7, <2>1
<1>8. shown = {i \in found : Cardinality({j \in found : <<j, i>> \in R}) < n}
  BY <1>1 DEF Read!FirstOf, R
<1> HIDE DEF shown
<1>9. Cardinality(shown) = IF n <= Cardinality(found) THEN n ELSE Cardinality(found)
  <2>1. /\ n \in Nat
        /\ \A i, j, k \in found : (<<i, j>> \in R /\ <<j, k>> \in R) => <<i, k>> \in R
    BY <1>4, <1>7
  <2>2. Cardinality(FirstIn(found, R, n)) = IF n <= Cardinality(found) THEN n ELSE Cardinality(found)
    BY <1>2, <1>6, <2>1, FirstOfMany
  <2>3. QED
    BY <1>8, <2>2 DEF FirstIn
<1>10. Cardinality(found) \in Nat
  BY <1>2, FS_CardinalityType
<1>11. Cardinality(shown) = Read!Min({n, Cardinality(found)})
  <2>1. PICK a \in Nat : a = Cardinality(found)
    BY <1>10
  <2>2. Read!Min({n, a}) = IF n <= a THEN n ELSE a
    BY <1>4, <2>1 DEF Read!Min
  <2>3. QED
    BY <1>9, <2>1, <2>2
<1>12. ASSUME given, NEW i \in shown, NEW j \in found, rank(j) < rank(i)
       PROVE  j \in shown
  <2> DEFINE Over(k) == {h \in found : <<h, k>> \in R}
  <2>1. i \in found /\ <<j, i>> \in R
    BY <1>3, <1>5, <1>8, <1>12
  <2>2. Over(j) \subseteq Over(i)
    BY <1>7, <2>1
  <2>3. Cardinality(Over(j)) <= Cardinality(Over(i)) /\ IsFiniteSet(Over(i)) /\ IsFiniteSet(Over(j))
    BY <1>2, <2>2, FS_Subset
  <2>4. Cardinality(Over(j)) \in Nat /\ Cardinality(Over(i)) \in Nat
    BY <2>3, FS_CardinalityType
  <2>5. Cardinality(Over(i)) < n
    BY <1>8
  <2>6. Cardinality(Over(j)) < n
    <3> HIDE DEF Over
    <3>1. QED
      BY <1>4, <2>3, <2>4, <2>5
  <2>7. QED
    BY <1>8, <2>6
<1>13. /\ Read!Picked(catalogue, shelf, given, all, limit).shown = shown
       /\ Read!Picked(catalogue, shelf, given, all, limit).total = Cardinality(found)
  BY <1>1 DEF Read!Picked, shown, found, n
<1>14. shown \subseteq found
  BY <1>8
<1>15. QED
  BY <1>1, <1>11, <1>12, <1>13, <1>14 DEF Read!PicksTheBest, found, n, rank

-----------------------------------------------------------------------------
(***************************************************************************)
(* The pages: the settings, and the choices beside one of them.            *)
(***************************************************************************)

\* Whatever a preference is called, it has a heading that is on the page.
LEMMA HeadingIsKnown ==
  ASSUME NEW words
  PROVE  Read!GroupFor(words) \in Read!ToSet(Read!Order)
<1> DEFINE own == Read!Under(Read!ByName, {words})
           fit == Read!Under(Read!PrefixGroups,
                             {Read!Longest(Read!PrefixGroups, words)})
           groups == {"Players", "World", "BloodMoon", "Zombies", "Loot", "LandClaim",
                      "Difficulty", "Network", "Server", "Other"}
<1>1. own \subseteq DOMAIN Read!ByName /\ fit \subseteq DOMAIN Read!PrefixGroups
  BY DEF Read!Under
<1>2. DOMAIN Read!ByName \subseteq groups
  BY DEF Read!ByName
<1>3. DOMAIN Read!PrefixGroups \subseteq groups
  BY DEF Read!PrefixGroups
<1>4. groups \subseteq Read!ToSet(Read!Order)
  BY DEF Read!ToSet, Read!Order
<1> DEFINE left == IF own # {} THEN own ELSE IF fit # {} THEN fit ELSE {"Other"}
<1>5. left # {} /\ left \subseteq groups
  <2> HIDE DEF own, fit
  <2>1. QED
    BY <1>1, <1>2, <1>3
<1>6. Read!GroupFor(words) = CHOOSE g \in left : TRUE
  BY DEF Read!GroupFor
<1>7. Read!GroupFor(words) \in left
  <2> HIDE DEF left
  <2>1. QED
    BY <1>5, <1>6
<1>8. QED
  BY <1>4, <1>5, <1>7

\* The settings page has every preference once, with controls where a write is let
\* through, whatever could be read of the game's screen and of what is in force.
LEMMA EachOnce ==
  ASSUME NEW menu \in Menus, NEW options, options = menu.options \/ options = {}, NEW live
  PROVE  Read!ShowsEachOnce(menu.prefs, options, menu.startup, live)
<1> DEFINE prefs == menu.prefs
           s == Read!Sections(prefs, options)
           at(p) == {n \in DOMAIN s : p \in s[n]}
<1>1. \A A : Read!Cardinality(A) = Cardinality(A)
  BY DEF Cardinality, Read!Cardinality
<1>2. \A p \in options : ~Read!ClientOnly(p)
  BY MenusAssumption
<1>3. /\ DOMAIN s = {"world", "server", "client"} /\ s.world = options
      /\ s.server = {p \in prefs \ options : ~Read!ClientOnly(p)}
      /\ s.client = {p \in prefs : Read!ClientOnly(p)}
      /\ s.world = s["world"] /\ s.server = s["server"] /\ s.client = s["client"]
  BY DEF Read!Sections
<1> HIDE DEF s
<1> SUFFICES ASSUME NEW p \in prefs \cup options
             PROVE  /\ Cardinality(at(p)) = 1
                    /\ p \in s.server => p \in Read!UnderHeadings(s.server)
                    /\ Read!Editable(p, s, prefs, menu.startup, live)
                       = Read!Accepts(p, prefs, menu.startup, live)
  BY <1>1 DEF Read!ShowsEachOnce, s
<1>4. \E n \in DOMAIN s : at(p) = {n}
  <2>1. CASE p \in options
    <3>1. at(p) = {"world"}
      BY <1>2, <1>3, <2>1
    <3>2. QED
      BY <1>3, <3>1
  <2>2. CASE p \notin options /\ Read!ClientOnly(p)
    <3>1. at(p) = {"client"}
      BY <1>3, <2>2
    <3>2. QED
      BY <1>3, <3>1
  <2>3. CASE p \notin options /\ ~Read!ClientOnly(p)
    <3>1. at(p) = {"server"}
      BY <1>3, <2>3
    <3>2. QED
      BY <1>3, <3>1
  <2>4. QED
    BY <2>1, <2>2, <2>3
<1>5. Cardinality(at(p)) = 1
  BY <1>4, FS_Singleton
<1>6. p \in s.server => p \in Read!UnderHeadings(s.server)
  BY HeadingIsKnown DEF Read!UnderHeadings
<1>7. p \in s.world \cup s.server <=> p \in options \/ ~Read!ClientOnly(p)
  BY <1>3
<1>8. Read!Editable(p, s, prefs, menu.startup, live)
      = Read!Accepts(p, prefs, menu.startup, live)
  BY <1>2, <1>7 DEF Read!Editable, Read!Accepts, Read!Settable
<1>9. QED
  BY <1>5, <1>6, <1>8

\* A hundred times a number of quarters is whole in float64, too: what is rounded off
\* of a fourth of a whole number is nothing.
LEMMA QuartersStayWhole ==
  ASSUME NEW k \in Int, 0 < k, k < 8192, NEW a \in Int, a = 25 * k
  PROVE  Read!StaysWhole(a)
<1>1. \E p \in {4, 8, 16, 32, 64, 128, 256, 512, 1024, 2048, 4096, 8192, 16384} :
        409600 <= 25 * k * p /\ 25 * k * p < 819200
  OBVIOUS
<1>2. PICK p \in {4, 8, 16, 32, 64, 128, 256, 512, 1024, 2048, 4096, 8192, 16384} :
        409600 <= 25 * k * p /\ 25 * k * p < 819200
  BY <1>1
<1>3. (25 * k * p) % 100 = 0
  <2>1. PICK h \in {1, 2, 4, 8, 16, 32, 64, 128, 256, 512, 1024, 2048, 4096} : p = 4 * h
    BY <1>2
  <2>2. k * h \in Int /\ 25 * k * p = 100 * (k * h)
    BY <2>1
  <2> DEFINE n == k * h
             m == 25 * k * p
  <2>3. n \in Int /\ m = 100 * n
    BY <2>2
  <2> HIDE DEF n, m
  <2>4. m % 100 = 0
    BY <2>3
  <2>5. QED
    BY <2>4 DEF m
<1>4. QED
  BY <1>2, <1>3 DEF Read!StaysWhole

LEMMA QuartersAreFloats ==
  ASSUME NEW j \in Int, -8192 < j, j < 8192
  PROVE  Read!FloatWhole(25 * j)
<1> DEFINE k == IF j < 0 THEN -j ELSE j
           b == IF 25 * j < 0 THEN -(25 * j) ELSE 25 * j
<1>1. CASE j = 0
  BY <1>1 DEF Read!FloatWhole
<1>2. CASE j # 0
  <2>1. k \in Int /\ 0 < k /\ k < 8192 /\ b \in Int /\ b = 25 * k
    BY <1>2
  <2>2. Read!FloatWhole(25 * j) <=> 25 * j = 0 \/ Read!StaysWhole(b)
    BY DEF Read!FloatWhole
  <2> HIDE DEF k, b
  <2>3. Read!StaysWhole(b)
    BY <2>1, QuartersStayWhole
  <2>4. QED
    BY <2>2, <2>3
<1>3. QED
  BY <1>1, <1>2

LEMMA QuartersAreWhole ==
  ASSUME NEW v \in Read!Exact, v % 250 = 0
  PROVE  v % 10 = 0 /\ Read!FloatWhole(v \div 10)
<1>1. v \in Int /\ -2048000 < v /\ v < 2048000
  BY DEF Read!Exact
<1>2. PICK j \in Int : v = 250 * j /\ -8192 < j /\ j < 8192
  BY <1>1
<1>3. v % 10 = 0 /\ v \div 10 = 25 * j
  BY <1>2
<1>4. QED
  BY <1>2, <1>3, QuartersAreFloats

\* A preference is offered the values of its option on a scale that it is on, and on
\* that of percentages at least where each is a number of quarters.
LEMMA OwnIsOffered ==
  ASSUME NEW values, values \subseteq Read!Exact, NEW current
  PROVE  Read!OffersItsOwn(values, current)
<1> DEFINE offered == Read!ChoicesFor(values, current)
           percentages == {100 * v : v \in values}
           plain == Read!AtScale(values, 1)
           scaled == Read!AtScale(values, 100)
           exact == \A v \in values : v % 10 = 0 /\ Read!FloatWhole(v \div 10)
<1>1. plain = values
  <2>1. plain = {v * 1 : v \in values}
    BY DEF Read!AtScale
  <2>2. \A v \in values : v * 1 = v
    BY DEF Read!Exact
  <2>3. QED
    BY <2>1, <2>2
<1>2. /\ exact => scaled = percentages
      /\ ~exact => scaled = {}
  <2>1. scaled = IF exact THEN {v * 100 : v \in values} ELSE {}
    BY DEF Read!AtScale
  <2>2. \A v \in values : v * 100 = 100 * v
    BY DEF Read!Exact
  <2>3. {v * 100 : v \in values} = percentages
    BY <2>2
  <2>4. QED
    BY <2>1, <2>3
<1>3. (\A v \in values : v % 250 = 0) => exact
  BY QuartersAreWhole
<1>4. exact => \A v \in values : v % 10 = 0
  OBVIOUS
<1>5. offered = IF current \in plain THEN plain
                ELSE IF current \in scaled THEN scaled ELSE {}
  BY DEF Read!ChoicesFor
<1> HIDE DEF offered, percentages, plain, scaled, exact
<1>6. /\ offered = {} \/ (offered \in {values, percentages} /\ current \in offered)
      /\ offered # {} /\ offered # values => exact
      /\ current \in values => offered = values
      /\ current \in percentages \ values /\ exact => offered = percentages
  BY <1>1, <1>2, <1>5
<1>7. QED
  BY <1>3, <1>4, <1>6 DEF Read!OffersItsOwn, offered, percentages

-----------------------------------------------------------------------------
(***************************************************************************)
(* The pages: what a call brought, and which calls were made.              *)
(***************************************************************************)

\* The game, where everybody has the id that he had last.
Town ==
  /\ town \in [Persons -> Ids \cup {Read!Away}] /\ entity \in [Persons -> Ids \cup {Read!Away}]
  /\ \A p \in Persons : town[p] \in {Read!Away, entity[p]}
  /\ mood \in Read!Moods

\* What was seen since a page was asked for.
Watched ==
  /\ moods \subseteq Read!Moods \cup {"hitch"}
  /\ ask # Read!NoPage =>
       /\ mood \in moods /\ Read!Here \subseteq met
       /\ \A p \in stayed : p \in Persons /\ town[p] # Read!Away

\* Rows of people: everybody was in the game at some time, whoever is said to be
\* there was there since, and whoever was there throughout is said to be, if at all.
RowsSaySo(rows, ids, m, st) ==
  /\ \A r \in rows :
       /\ r.who \in Persons /\ ids[r.who] # Read!Away
       /\ IF r.online THEN [who |-> r.who, id |-> r.id] \in m ELSE r.who \notin st
  /\ \A r, s \in rows : r.who = s.who => r = s

\* Nobody of these is missing.
Whole(rows, st) == \A p \in st : \E r \in rows : r.who = p /\ r.online

\* All who ever joined are on one page.
OnePage(ids) == Cardinality({p \in Persons : ids[p] # Read!Away}) <= MaxKnown

\* What a call came back with says what was so.
SaysSo(c, end, ids, m, st, mo) ==
  /\ end.well =>
       /\ c \in Read!Public \/ "open" \in mo
       /\ c \in {"known", "online"} => RowsSaySo(end.rows, ids, m, st)
       /\ c = "online" \/ (c = "known" /\ OnePage(ids)) => Whole(end.rows, st)
       /\ c = "online" => \A r \in end.rows : r.online
  /\ ~end.well =>
       \/ end.why = "refused" /\ c \notin Read!Public /\ "shut" \in mo
       \/ end.why \in {"silent", "error"} /\ mo \cap {"down", "hitch"} # {}
       \/ end.why = "missing" /\ c = "icon"

AllSaySo ==
  \A c \in DOMAIN ask.got : SaysSo(c, ask.got[c], entity, met, stayed, moods)

\* The calls of which a goroutine can be made.
Topics == DOMAIN Read!Calls \cup DOMAIN Read!Layers

\* What the game is asked for.
Endpoints == {"known", "online", "prefs", "sandbox", "live", "info", "log", "stats", "mem",
              "version", "weather", "config", "icon", "hostiles", "animals", "claims"}

\* What was got, with what one more call came back with, and what is left then.
Plus(got, c, end) == [x \in DOMAIN got \cup {c} |-> IF x = c THEN end ELSE got[x]]
After(left, end) ==
  IF end.well \/ Head(left) \in Read!Optional THEN Tail(left) ELSE << >>

\* A call after which the next one is made.
Good(c, got) == got[c].well \/ c \in Read!Optional

\* Of its calls a goroutine has made the first k, of which all but the last were
\* good, and has the others before it if that one was, too.
Made(t, k, got, left) ==
  LET calls == Read!CallsOf(t)
  IN /\ \A i \in DOMAIN calls : calls[i] \in DOMAIN got <=> i <= k
     /\ \A i \in 1..(k - 1) : Good(calls[i], got)
     /\ IF k > 0 /\ ~Good(calls[k], got) THEN left = << >>
        ELSE /\ Len(left) = Len(calls) - k
             /\ \A i \in 1..(Len(calls) - k) : left[i] = calls[k + i]

Asking ==
  /\ ask = [page |-> ask.page, of |-> ask.of, left |-> ask.left, got |-> ask.got]
  /\ ask.left = [t \in DOMAIN ask.left |-> ask.left[t]]
  /\ ask.got = [c \in DOMAIN ask.got |-> ask.got[c]]
  /\ DOMAIN ask.left \subseteq Topics
  /\ ask.page # "markers" => DOMAIN ask.left \subseteq {ask.page}
  /\ ask.page \in DOMAIN Read!Calls => DOMAIN ask.left = {ask.page}
  /\ ask.page = "markers" => DOMAIN ask.left \subseteq DOMAIN Read!Layers
  /\ ask.page = "settings" => \E menu \in Menus : ask.of = {menu}
  /\ ask.page = "picker" => \E shelf \in Shelves : ask.of = {shelf}
  /\ ask.page = "choices" => \E scale \in Scales : ask.of = {scale}
  /\ \A c \in DOMAIN ask.got :
       \E t \in DOMAIN ask.left : \E i \in DOMAIN Read!CallsOf(t) : c = Read!CallsOf(t)[i]
  /\ \A t \in DOMAIN ask.left :
       /\ ask.left[t] \in Seq(Endpoints)
       /\ \E k \in 0..Len(Read!CallsOf(t)) : Made(t, k, ask.got, ask.left[t])

Paging == Town /\ Watched /\ AllSaySo /\ Asking

\* The calls of a page are different, and so are those of different layers.
LEMMA CallsDiffer ==
  /\ \A t \in Topics :
       /\ Read!CallsOf(t) \in Seq(Endpoints)
       /\ \A i, j \in DOMAIN Read!CallsOf(t) : Read!CallsOf(t)[i] = Read!CallsOf(t)[j] => i = j
  /\ \A t, u \in DOMAIN Read!Layers : t # u =>
       \A i \in DOMAIN Read!CallsOf(t), j \in DOMAIN Read!CallsOf(u) :
         Read!CallsOf(t)[i] # Read!CallsOf(u)[j]
<1> DEFINE of(t) == Read!CallsOf(t)
<1>1. /\ of("players") = <<"known", "online">>
      /\ of("settings") = <<"prefs", "sandbox", "live">>
      /\ of("probe") = <<"info", "log", "stats">>
      /\ of("vitals") = <<"mem", "version">>
      /\ of("weather") = <<"weather">> /\ of("map") = <<"config">> /\ of("icon") = <<"icon">>
      /\ of("hostiles") = <<"hostiles">> /\ of("animals") = <<"animals">>
      /\ of("claims") = <<"claims">>
  BY DEF Read!CallsOf, Read!Calls, Read!Layers, Read!PlayerList, Read!SettingsList,
         Read!Trial, Read!ServerHealth, Read!CurrentWeather, Read!MapConfig, Read!ItemIcon
<1>2. /\ DOMAIN Read!Layers = {"players", "hostiles", "animals", "claims"}
      /\ Topics = {"players", "settings", "probe", "vitals", "weather", "map", "icon",
                   "hostiles", "animals", "claims"}
  BY DEF Topics, Read!Calls, Read!Layers
<1> HIDE DEF of
<1>3. ASSUME NEW t \in Topics
      PROVE  /\ of(t) \in Seq(Endpoints)
             /\ \A i, j \in DOMAIN of(t) : of(t)[i] = of(t)[j] => i = j
  <2>1. ASSUME NEW W, NEW a \in W, NEW b \in W, NEW c \in W
        PROVE  <<a>> \in Seq(W) /\ <<a, b>> \in Seq(W) /\ <<a, b, c>> \in Seq(W)
    OBVIOUS
  <2>2. \A a, b, c \in Endpoints : <<a>> \in Seq(Endpoints) /\ <<a, b>> \in Seq(Endpoints)
                               /\ <<a, b, c>> \in Seq(Endpoints)
    BY <2>1
  <2>3. of(t) \in Seq(Endpoints)
    <3>1. /\ <<"known", "online">> \in Seq(Endpoints)
          /\ <<"prefs", "sandbox", "live">> \in Seq(Endpoints)
          /\ <<"info", "log", "stats">> \in Seq(Endpoints)
          /\ <<"mem", "version">> \in Seq(Endpoints)
          /\ <<"weather">> \in Seq(Endpoints)
          /\ <<"config">> \in Seq(Endpoints)
          /\ <<"icon">> \in Seq(Endpoints)
          /\ <<"hostiles">> \in Seq(Endpoints)
          /\ <<"animals">> \in Seq(Endpoints)
          /\ <<"claims">> \in Seq(Endpoints)
      BY <2>2 DEF Endpoints
    <3>2. QED
      BY <1>1, <1>2, <3>1
  <2>4. \A i, j \in DOMAIN of(t) : of(t)[i] = of(t)[j] => i = j
    BY <1>1, <1>2
  <2>5. QED
    BY <2>3, <2>4
<1>4. ASSUME NEW t \in DOMAIN Read!Layers, NEW u \in DOMAIN Read!Layers, t # u
      PROVE  \A i \in DOMAIN of(t), j \in DOMAIN of(u) : of(t)[i] # of(u)[j]
  BY <1>1, <1>2, <1>4
<1>5. QED
  BY <1>3, <1>4 DEF of

\* What was so stays so, whatever the game does next.
LEMMA SaysSoStill ==
  ASSUME NEW c, NEW end, NEW ids, NEW m, NEW st, NEW mo, SaysSo(c, end, ids, m, st, mo),
         NEW ids2, NEW m2, NEW st2, NEW mo2,
         m \subseteq m2, st2 \subseteq st, mo \subseteq mo2,
         \A p \in Persons : ids[p] # Read!Away => ids2[p] # Read!Away
  PROVE  SaysSo(c, end, ids2, m2, st2, mo2)
<1>1. ASSUME RowsSaySo(end.rows, ids, m, st)
      PROVE  RowsSaySo(end.rows, ids2, m2, st2)
  BY <1>1 DEF RowsSaySo
<1>2. Whole(end.rows, st) => Whole(end.rows, st2)
  BY DEF Whole
<1>3. OnePage(ids2) => OnePage(ids)
  <2> DEFINE old == {p \in Persons : ids[p] # Read!Away}
             new == {p \in Persons : ids2[p] # Read!Away}
  <2>1. old \subseteq new /\ new \subseteq Persons
    OBVIOUS
  <2>2. IsFiniteSet(new)
    <3>1. IsFiniteSet(Persons) /\ new \in SUBSET Persons
      BY PagesAssumption
    <3> HIDE DEF new
    <3>2. QED
      BY <3>1, FS_Subset
  <2>3. Cardinality(old) <= Cardinality(new) /\ IsFiniteSet(old)
    BY <2>1, <2>2, FS_Subset
  <2>4. Cardinality(old) \in Nat /\ Cardinality(new) \in Nat /\ MaxKnown \in Nat
    BY <2>2, <2>3, FS_CardinalityType, ServicesAssumption
  <2>5. QED
    BY <2>3, <2>4 DEF OnePage
<1>4. QED
  BY <1>1, <1>2, <1>3 DEF SaysSo

LEMMA PagesInit ==
  ASSUME Read!Init
  PROVE  Paging
<1> USE DEF Read!Away
<1>1. /\ entity \in [Persons -> Ids \cup {Read!Away}]
      /\ \E here \in SUBSET {p \in Persons : entity[p] # Read!Away} :
           town = [p \in Persons |-> IF p \in here THEN entity[p] ELSE Read!Away]
      /\ mood = "open" /\ ask = Read!NoPage /\ moods = {}
  BY DEF Read!Init, Read!Quiet
<1>2. Town
  BY <1>1 DEF Town, Read!Moods
<1>3. Watched
  BY <1>1 DEF Watched
<1>4. DOMAIN ask.got = {} /\ DOMAIN ask.left = {} /\ ask.page = "none"
      /\ ask = [page |-> ask.page, of |-> ask.of, left |-> ask.left, got |-> ask.got]
      /\ ask.left = [t \in {} |-> ask.left[t]] /\ ask.got = [c \in {} |-> ask.got[c]]
  BY <1>1 DEF Read!NoPage, Read!Nothing
<1>5. "none" \notin DOMAIN Read!Calls
  BY DEF Read!Calls
<1>6. AllSaySo /\ Asking
  BY <1>4, <1>5 DEF AllSaySo, Asking
<1>7. QED
  BY <1>2, <1>3, <1>6 DEF Paging

\* The game goes on while a page is made.
LEMMA GameGoesOn ==
  ASSUME Paging, ask # Read!NoPage, UNCHANGED ask, Town', moods \subseteq moods',
         moods' \subseteq Read!Moods \cup {"hitch"}, mood' \in moods',
         met' = met \cup Read!In(town'), stayed' = {p \in stayed : town'[p] # Read!Away},
         \A p \in Persons : entity[p] # Read!Away => entity'[p] # Read!Away
  PROVE  Paging'
<1>1. Watched'
  BY DEF Paging, Watched, Read!Here
<1>2. AllSaySo'
  <2>1. met \subseteq met' /\ stayed' \subseteq stayed
    OBVIOUS
  <2>2. ASSUME NEW c \in DOMAIN ask.got
        PROVE  SaysSo(c, ask.got[c], entity', met', stayed', moods')
    <3>1. SaysSo(c, ask.got[c], entity, met, stayed, moods)
      BY DEF Paging, AllSaySo
    <3>2. QED
      BY <2>1, <3>1, SaysSoStill
  <2>3. QED
    BY <2>2 DEF AllSaySo
<1>3. Asking'
  BY DEF Paging, Asking
<1>4. QED
  BY <1>1, <1>2, <1>3 DEF Paging

LEMMA MovesKeepPages ==
  ASSUME Paging,
         \/ \E p \in Persons : Read!Leaves(p) \/ \E id \in Ids : Read!Joins(p, id)
         \/ Read!MoodChanges
  PROVE  Paging'
<1>1. CASE \E p \in Persons : Read!Leaves(p)
  <2>1. PICK p \in Persons : Read!Leaves(p)
    BY <1>1
  <2>2. /\ ask # Read!NoPage /\ town' = [town EXCEPT ![p] = Read!Away]
        /\ UNCHANGED <<entity, mood, ask, moods>>
        /\ met' = met \cup Read!In(town') /\ stayed' = {q \in stayed : town'[q] # Read!Away}
    BY <2>1 DEF Read!Leaves, Read!Moves, Read!Witness
  <2>3. Town'
    BY <2>2 DEF Paging, Town
  <2>4. /\ moods \subseteq moods' /\ moods' \subseteq Read!Moods \cup {"hitch"}
        /\ mood' \in moods'
        /\ \A q \in Persons : entity[q] # Read!Away => entity'[q] # Read!Away
    BY <2>2 DEF Paging, Watched
  <2>5. QED
    BY <2>2, <2>3, <2>4, GameGoesOn
<1>2. CASE \E p \in Persons : \E id \in Ids : Read!Joins(p, id)
  <2>1. PICK p \in Persons, id \in Ids : Read!Joins(p, id)
    BY <1>2
  <2>2. /\ ask # Read!NoPage /\ town' = [town EXCEPT ![p] = id]
        /\ entity' = [entity EXCEPT ![p] = id]
        /\ UNCHANGED <<mood, ask, moods>>
        /\ met' = met \cup Read!In(town') /\ stayed' = {q \in stayed : town'[q] # Read!Away}
    BY <2>1 DEF Read!Joins, Read!Moves, Read!Witness
  <2>3. Town'
    BY <2>2 DEF Paging, Town
  <2>4. /\ moods \subseteq moods' /\ moods' \subseteq Read!Moods \cup {"hitch"}
        /\ mood' \in moods'
        /\ \A q \in Persons : entity[q] # Read!Away => entity'[q] # Read!Away
    BY <2>2, PagesAssumption DEF Paging, Watched, Town
  <2>5. QED
    BY <2>2, <2>3, <2>4, GameGoesOn
<1>3. CASE Read!MoodChanges
  <2>1. /\ ask # Read!NoPage /\ mood' \in Read!Moods /\ moods' = moods \cup {mood'}
        /\ UNCHANGED <<town, entity, ask, met, stayed>>
    BY <1>3 DEF Read!MoodChanges, Read!Moves
  <2>2. Town'
    BY <2>1 DEF Paging, Town
  <2>3. /\ moods \subseteq moods' /\ moods' \subseteq Read!Moods \cup {"hitch"}
        /\ mood' \in moods'
    BY <2>1 DEF Paging, Watched
  <2>4. met' = met \cup Read!In(town') /\ stayed' = {q \in stayed : town'[q] # Read!Away}
    BY <2>1 DEF Paging, Watched, Read!Here
  <2>5. QED
    BY <2>1, <2>2, <2>3, <2>4, GameGoesOn
<1>4. QED
  BY <1>1, <1>2, <1>3

\* A page is asked for.
LEMMA OpensPage ==
  ASSUME Paging, Read!Opens
  PROVE  Paging'
<1>1. /\ mood' \in Read!Moods /\ moods' = {mood'}
      /\ met' = Read!Here /\ stayed' = {r.who : r \in Read!Here}
      /\ UNCHANGED <<town, entity>>
  BY DEF Read!Opens
<1>2. Town'
  BY <1>1 DEF Paging, Town
<1>3. Watched'
  <2>1. \A p \in stayed' : p \in Persons /\ town'[p] # Read!Away
    BY <1>1 DEF Read!Here, Read!In
  <2>2. Read!Here' \subseteq met'
    BY <1>1 DEF Read!Here, Read!In
  <2>3. QED
    BY <1>1, <2>1, <2>2 DEF Watched
<1>4. PICK p, of, layers :
        /\ ask' = Read!Page(p, of, layers)
        /\ layers \subseteq Topics
        /\ p # "markers" => layers \subseteq {p}
        /\ p \in DOMAIN Read!Calls => layers = {p}
        /\ p = "markers" => layers \subseteq DOMAIN Read!Layers
        /\ p = "settings" => \E menu \in Menus : of = {menu}
        /\ p = "picker" => \E shelf \in Shelves : of = {shelf}
        /\ p = "choices" => \E scale \in Scales : of = {scale}
  <2>1. /\ "markers" \notin DOMAIN Read!Calls /\ "picker" \notin DOMAIN Read!Calls
        /\ "choices" \notin DOMAIN Read!Calls /\ "settings" \in DOMAIN Read!Calls
    BY DEF Read!Calls
  <2>2. \A req : Read!Wanted(req) \subseteq DOMAIN Read!Layers
    BY DEF Read!Wanted, Read!FirstLayers, Read!Layers
  <2>3. CASE \E p \in DOMAIN Read!Calls \ {"settings"} : ask' = Read!Page(p, {}, {p})
    BY <2>1, <2>3 DEF Topics
  <2>4. CASE \E menu \in Menus : ask' = Read!Page("settings", {menu}, {"settings"})
    BY <2>1, <2>4 DEF Topics
  <2>5. CASE \E req \in MapQueries : ask' = Read!Page("markers", {}, Read!Wanted(req))
    BY <2>1, <2>2, <2>5 DEF Topics
  <2>6. CASE \E shelf \in Shelves : ask' = Read!Page("picker", {shelf}, {})
    BY <2>1, <2>6 DEF Topics
  <2>7. CASE \E scale \in Scales : ask' = Read!Page("choices", {scale}, {})
    BY <2>1, <2>7 DEF Topics
  <2>8. QED
    BY <2>3, <2>4, <2>5, <2>6, <2>7 DEF Read!Opens
<1>5. /\ ask' = [page |-> p, of |-> of, left |-> [t \in layers |-> Read!CallsOf(t)],
                 got |-> [c \in {} |-> c]]
  BY <1>4 DEF Read!Page, Read!NoPage, Read!Nothing
<1>6. /\ ask'.page = p /\ ask'.of = of /\ DOMAIN ask'.left = layers /\ DOMAIN ask'.got = {}
      /\ ask' = [page |-> ask'.page, of |-> ask'.of, left |-> ask'.left, got |-> ask'.got]
      /\ ask'.left = [t \in DOMAIN ask'.left |-> ask'.left[t]]
      /\ ask'.got = [c \in DOMAIN ask'.got |-> ask'.got[c]]
      /\ \A t \in layers : ask'.left[t] = Read!CallsOf(t)
  BY <1>5
<1>7. ASSUME NEW t \in layers
      PROVE  /\ ask'.left[t] \in Seq(Endpoints)
             /\ \E k \in 0..Len(Read!CallsOf(t)) : Made(t, k, ask'.got, ask'.left[t])
  <2>1. /\ ask'.left[t] = Read!CallsOf(t) /\ Read!CallsOf(t) \in Seq(Endpoints)
    BY <1>4, <1>6, CallsDiffer
  <2>2. Len(Read!CallsOf(t)) \in Nat /\ DOMAIN Read!CallsOf(t) = 1..Len(Read!CallsOf(t))
    BY <2>1
  <2>3. Made(t, 0, ask'.got, ask'.left[t])
    BY <1>6, <2>1, <2>2 DEF Made
  <2>4. QED
    BY <2>1, <2>2, <2>3
<1>8. Asking'
  BY <1>4, <1>6, <1>7 DEF Asking
<1>9. AllSaySo'
  BY <1>6 DEF AllSaySo
<1>10. QED
  BY <1>2, <1>3, <1>8, <1>9 DEF Paging

\* The first k calls stay made when another call comes back.
LEMMA MadeStays ==
  ASSUME NEW u, NEW k \in Nat, NEW got, NEW left, Made(u, k, got, left), NEW c, NEW end,
         Read!CallsOf(u) \in Seq(Endpoints), k <= Len(Read!CallsOf(u)),
         \A i \in DOMAIN Read!CallsOf(u) : Read!CallsOf(u)[i] # c
  PROVE  Made(u, k, Plus(got, c, end), left)
<1> DEFINE calls == Read!CallsOf(u)
           then == [x \in DOMAIN got \cup {c} |-> IF x = c THEN end ELSE got[x]]
<1>1. DOMAIN calls = 1..Len(calls) /\ Len(calls) \in Nat
  OBVIOUS
<1>2. DOMAIN then = DOMAIN got \cup {c} /\ \A x \in DOMAIN got \ {c} : then[x] = got[x]
  OBVIOUS
<1>3. \A i \in DOMAIN calls : calls[i] \in DOMAIN got <=> i <= k
  BY DEF Made
<1> HIDE DEF then, calls
<1>4. \A i \in DOMAIN calls : calls[i] # c
  BY DEF calls
<1>5. \A i \in 1..k : i \in DOMAIN calls /\ then[calls[i]] = got[calls[i]]
  <2> TAKE i \in 1..k
  <2>1. i \in DOMAIN calls
    BY <1>1 DEF calls
  <2>2. calls[i] \in DOMAIN got \ {c}
    BY <1>3, <1>4, <2>1
  <2>3. QED
    BY <1>2, <2>1, <2>2
<1>6. \A i \in 1..k : Good(calls[i], then) <=> Good(calls[i], got)
  BY <1>5 DEF Good
<1>7. \A i \in DOMAIN calls : calls[i] \in DOMAIN then <=> i <= k
  BY <1>2, <1>3, <1>4
<1>8. /\ \A i \in 1..(k - 1) : Good(calls[i], got)
      /\ IF k > 0 /\ ~Good(calls[k], got) THEN left = << >>
         ELSE /\ Len(left) = Len(calls) - k
              /\ \A i \in 1..(Len(calls) - k) : left[i] = calls[k + i]
  BY DEF Made, calls
<1>9. \A i \in 1..(k - 1) : i \in 1..k
  OBVIOUS
<1>10. k > 0 => (Good(calls[k], then) <=> Good(calls[k], got))
  BY <1>6
<1>11. \A i \in 1..(k - 1) : Good(calls[i], then)
  BY <1>6, <1>8, <1>9
<1>12. Made(u, k, then, left)
  BY <1>7, <1>8, <1>10, <1>11 DEF Made, calls
<1>13. QED
  BY <1>12 DEF then, Plus

\* The next of its calls comes back to a goroutine.
LEMMA OneMoreIsMade ==
  ASSUME NEW t, NEW k \in Nat, NEW got, NEW left \in Seq(Endpoints), Made(t, k, got, left),
         left # << >>, NEW end,
         Read!CallsOf(t) \in Seq(Endpoints), k <= Len(Read!CallsOf(t)),
         \A i, j \in DOMAIN Read!CallsOf(t) :
           Read!CallsOf(t)[i] = Read!CallsOf(t)[j] => i = j
  PROVE  /\ k + 1 <= Len(Read!CallsOf(t)) /\ Head(left) = Read!CallsOf(t)[k + 1]
         /\ After(left, end) \in Seq(Endpoints)
         /\ Made(t, k + 1, Plus(got, Head(left), end), After(left, end))
<1> DEFINE calls == Read!CallsOf(t)
           c == Head(left)
           then == [x \in DOMAIN got \cup {c} |-> IF x = c THEN end ELSE got[x]]
           rest == IF end.well \/ c \in Read!Optional THEN Tail(left) ELSE << >>
<1>1. /\ DOMAIN calls = 1..Len(calls) /\ Len(calls) \in Nat
      /\ \A i, j \in DOMAIN calls : calls[i] = calls[j] => i = j
  OBVIOUS
<1>2. /\ \A i \in DOMAIN calls : calls[i] \in DOMAIN got <=> i <= k
      /\ \A i \in 1..(k - 1) : Good(calls[i], got)
      /\ k > 0 => Good(calls[k], got)
      /\ Len(left) = Len(calls) - k
      /\ \A i \in 1..(Len(calls) - k) : left[i] = calls[k + i]
  BY DEF Made
<1>3. /\ Len(left) \in Nat \ {0} /\ c = left[1]
      /\ Tail(left) \in Seq(Endpoints) /\ Len(Tail(left)) = Len(left) - 1
      /\ \A i \in 1..(Len(left) - 1) : Tail(left)[i] = left[i + 1]
  OBVIOUS
<1>4. rest \in Seq(Endpoints)
  BY <1>3
<1>5. /\ DOMAIN then = DOMAIN got \cup {c} /\ then[c] = end
      /\ \A x \in DOMAIN got \ {c} : then[x] = got[x]
  OBVIOUS
<1> HIDE DEF calls, c, then, Plus, After
<1> DEFINE n == Len(calls)
           m == Len(left)
<1>a. n \in Nat /\ m \in Nat \ {0} /\ m = n - k
  BY <1>1, <1>2, <1>3
<1> HIDE DEF n, m
<1>b. k + 1 \in 1..n /\ 1 \in 1..(n - k)
  BY <1>a
<1>6. k + 1 \in DOMAIN calls /\ c = calls[k + 1]
  BY <1>1, <1>2, <1>3, <1>b DEF n
<1>7. \A i \in DOMAIN calls : i # k + 1 => calls[i] # c
  BY <1>1, <1>6
<1>8. \A i \in DOMAIN calls : calls[i] \in DOMAIN then <=> i <= k + 1
  <2> TAKE i \in DOMAIN calls
  <2>1. CASE i = k + 1
    BY <1>5, <1>6, <2>1
  <2>2. CASE i # k + 1
    <3>1. i <= k + 1 <=> i <= k
      BY <1>1, <2>2
    <3>2. calls[i] \in DOMAIN then <=> calls[i] \in DOMAIN got
      BY <1>5, <1>7, <2>2
    <3>3. QED
      BY <1>2, <3>1, <3>2
  <2>3. QED
    BY <2>1, <2>2
<1>9. \A i \in 1..k : Good(calls[i], then)
  <2> TAKE i \in 1..k
  <2>1. i \in DOMAIN calls /\ i # k + 1 /\ (i \in 1..(k - 1) \/ i = k)
    BY <1>1, <1>6
  <2>2. Good(calls[i], got)
    BY <1>2, <2>1
  <2>3. calls[i] \in DOMAIN got \ {c}
    BY <1>2, <1>7, <2>1
  <2>4. QED
    BY <1>5, <2>2, <2>3 DEF Good
<1>10. Good(calls[k + 1], then) <=> (end.well \/ c \in Read!Optional)
  BY <1>5, <1>6 DEF Good
<1>11. CASE end.well \/ c \in Read!Optional
  <2>1. rest = Tail(left)
    BY <1>11
  <2>2. Len(rest) = Len(calls) - (k + 1)
    <3>1. n - (k + 1) = m - 1
      BY <1>a
    <3>2. QED
      BY <1>3, <2>1, <3>1 DEF n, m
  <2>3. ASSUME NEW i \in 1..(Len(calls) - (k + 1))
        PROVE  rest[i] = calls[(k + 1) + i]
    <3>1. /\ i \in 1..(Len(left) - 1) /\ i + 1 \in 1..(Len(calls) - k)
          /\ k + (i + 1) = (k + 1) + i
      <4>1. i \in 1..(n - (k + 1))
        BY DEF n
      <4>2. i \in 1..(m - 1) /\ i + 1 \in 1..(n - k) /\ k + (i + 1) = (k + 1) + i
        BY <1>a, <4>1
      <4>3. QED
        BY <4>2 DEF n, m
    <3>2. rest[i] = left[i + 1]
      BY <1>3, <2>1, <3>1
    <3>3. left[i + 1] = calls[k + (i + 1)]
      BY <1>2, <3>1
    <3>4. QED
      BY <3>1, <3>2, <3>3
  <2>4. \A i \in 1..((k + 1) - 1) : Good(calls[i], then)
    BY <1>9
  <2>5. Made(t, k + 1, then, rest)
    BY <1>8, <1>10, <1>11, <2>2, <2>3, <2>4 DEF Made, calls
  <2>6. QED
    BY <1>1, <1>4, <1>6, <2>5 DEF calls, c, then, Plus, After
<1>12. CASE ~(end.well \/ c \in Read!Optional)
  <2>1. rest = << >> /\ k + 1 > 0
    BY <1>12
  <2>2. \A i \in 1..((k + 1) - 1) : Good(calls[i], then)
    BY <1>9
  <2>3. Made(t, k + 1, then, rest)
    BY <1>8, <1>10, <1>12, <2>1, <2>2 DEF Made, calls
  <2>4. QED
    BY <1>1, <1>4, <1>6, <2>3 DEF calls, c, then, Plus, After
<1>13. QED
  BY <1>11, <1>12

\* A call comes back to one goroutine of a page.
LEMMA CallReturns ==
  ASSUME Asking, AllSaySo, NEW t \in DOMAIN ask.left, NEW end, Read!Returns(t, end),
         moods \subseteq moods',
         \A c : c = Head(ask.left[t]) => SaysSo(c, end, entity, met, stayed, moods')
  PROVE  Asking' /\ AllSaySo' /\ ask' # Read!NoPage /\ ask # Read!NoPage
<1> DEFINE c == Head(ask.left[t])
           then == [x \in DOMAIN ask.got \cup {c} |-> IF x = c THEN end ELSE ask.got[x]]
           rest == IF end.well \/ c \in Read!Optional THEN Tail(ask.left[t]) ELSE << >>
           calls(u) == Read!CallsOf(u)
<1>1. /\ ask.left[t] # << >> /\ UNCHANGED <<town, entity, mood, met, stayed>>
      /\ ask' = [ask EXCEPT !.got = then, !.left[t] = rest]
  BY DEF Read!Returns
<1>2. ask = [page |-> ask.page, of |-> ask.of, left |-> ask.left, got |-> ask.got]
  BY DEF Asking
<1>3. /\ ask'.page = ask.page /\ ask'.of = ask.of
      /\ ask'.left = [ask.left EXCEPT ![t] = rest] /\ ask'.got = then
      /\ ask' = [page |-> ask'.page, of |-> ask'.of, left |-> ask'.left, got |-> ask'.got]
  <2> DEFINE left2 == [ask.left EXCEPT ![t] = rest]
  <2>1. ask' = [page |-> ask.page, of |-> ask.of, left |-> left2, got |-> then]
    <3> HIDE DEF then, rest
    <3>1. QED
      BY <1>1, <1>2
  <2> HIDE DEF then, left2
  <2>2. QED
    BY <2>1 DEF left2
<1>4. PICK k \in 0..Len(calls(t)) : Made(t, k, ask.got, ask.left[t])
  BY DEF Asking
<1>5. /\ \A u \in DOMAIN ask.left : u \in Topics /\ calls(u) \in Seq(Endpoints)
      /\ \A i, j \in DOMAIN calls(t) : calls(t)[i] = calls(t)[j] => i = j
      /\ k \in Nat /\ ask.left[t] \in Seq(Endpoints)
  <2>1. t \in Topics /\ ask.left[t] \in Seq(Endpoints)
    BY DEF Asking
  <2>2. \A u \in DOMAIN ask.left : u \in Topics
    BY DEF Asking
  <2>3. QED
    BY <2>1, <2>2, CallsDiffer
<1>6. /\ k + 1 <= Len(calls(t)) /\ c = calls(t)[k + 1] /\ rest \in Seq(Endpoints)
      /\ Made(t, k + 1, then, rest)
  <2> DEFINE left == ask.left[t]
             got == ask.got
  <2>1. /\ left \in Seq(Endpoints) /\ Made(t, k, got, left) /\ left # << >>
        /\ calls(t) \in Seq(Endpoints) /\ k <= Len(calls(t)) /\ k \in Nat
        /\ \A i, j \in DOMAIN calls(t) : calls(t)[i] = calls(t)[j] => i = j
    BY <1>1, <1>4, <1>5
  <2> HIDE DEF left, got
  <2>2. /\ k + 1 <= Len(Read!CallsOf(t)) /\ Head(left) = Read!CallsOf(t)[k + 1]
        /\ After(left, end) \in Seq(Endpoints)
        /\ Made(t, k + 1, Plus(got, Head(left), end), After(left, end))
    BY <2>1, OneMoreIsMade
  <2>3. QED
    BY <2>2 DEF left, got, Plus, After
<1> HIDE DEF rest, then, c
<1>7. /\ DOMAIN ask'.left = DOMAIN ask.left /\ ask'.left[t] = rest
      /\ \A u \in DOMAIN ask.left \ {t} : ask'.left[u] = ask.left[u]
      /\ ask'.left = [u \in DOMAIN ask'.left |-> ask'.left[u]]
  <2>1. ask.left = [u \in DOMAIN ask.left |-> ask.left[u]]
    BY DEF Asking
  <2>2. QED
    BY <1>3, <2>1
<1>8. /\ DOMAIN ask'.got = DOMAIN ask.got \cup {c} /\ ask'.got[c] = end
      /\ \A x \in DOMAIN ask.got \ {c} : ask'.got[x] = ask.got[x]
      /\ ask'.got = [x \in DOMAIN ask'.got |-> ask'.got[x]]
  BY <1>3 DEF then
<1>9. ASSUME NEW u \in DOMAIN ask.left
      PROVE  /\ ask'.left[u] \in Seq(Endpoints)
             /\ \E j \in 0..Len(calls(u)) : Made(u, j, ask'.got, ask'.left[u])
  <2>1. CASE u = t
    <3>1. k + 1 \in 0..Len(calls(t))
      <4>1. Len(calls(t)) \in Nat
        BY <1>5
      <4>2. QED
        BY <1>5, <1>6, <4>1
    <3>2. QED
      BY <1>3, <1>6, <1>7, <2>1, <3>1
  <2>2. CASE u # t
    <3>1. u \in DOMAIN Read!Layers /\ t \in DOMAIN Read!Layers
      BY <2>2 DEF Asking
    <3>2. \A i \in DOMAIN calls(u) : calls(u)[i] # c
      <4>1. k + 1 \in DOMAIN calls(t)
        <5>1. Len(calls(t)) \in Nat /\ DOMAIN calls(t) = 1..Len(calls(t))
          BY <1>5
        <5>2. QED
          BY <1>5, <1>6, <5>1
      <4>2. \A i \in DOMAIN calls(u), j \in DOMAIN calls(t) : calls(u)[i] # calls(t)[j]
        BY <2>2, <3>1, CallsDiffer
      <4>3. QED
        BY <1>6, <4>1, <4>2
    <3>3. PICK j \in 0..Len(calls(u)) : Made(u, j, ask.got, ask.left[u])
      BY DEF Asking
    <3>4. j \in Nat /\ j <= Len(calls(u)) /\ calls(u) \in Seq(Endpoints)
          /\ ask.left[u] \in Seq(Endpoints)
      BY <1>5 DEF Asking
    <3>5. Made(u, j, then, ask.left[u])
      <4> DEFINE got == ask.got
                 left == ask.left[u]
      <4>1. /\ Made(u, j, got, left) /\ j \in Nat /\ Read!CallsOf(u) \in Seq(Endpoints)
            /\ j <= Len(Read!CallsOf(u))
            /\ \A i \in DOMAIN Read!CallsOf(u) : Read!CallsOf(u)[i] # c
        BY <3>2, <3>3, <3>4
      <4> HIDE DEF got, left
      <4>2. Made(u, j, Plus(got, c, end), left)
        BY <4>1, MadeStays
      <4>3. QED
        BY <4>2 DEF got, left, then, Plus
    <3>6. QED
      BY <1>3, <1>7, <2>2, <3>4, <3>5
  <2>3. QED
    BY <2>1, <2>2
<1>10. ASSUME NEW x \in DOMAIN ask'.got
       PROVE  \E u \in DOMAIN ask.left : \E i \in DOMAIN calls(u) : x = calls(u)[i]
  <2>1. CASE x = c
    <3>1. Len(calls(t)) \in Nat /\ DOMAIN calls(t) = 1..Len(calls(t))
      BY <1>5
    <3>2. k + 1 \in DOMAIN calls(t)
      BY <1>5, <1>6, <3>1
    <3>3. QED
      BY <1>6, <2>1, <3>2
  <2>2. CASE x # c
    BY <1>8, <2>2 DEF Asking
  <2>3. QED
    BY <2>1, <2>2
<1>11. Asking'
  <2> HIDE DEF calls
  <2>1. /\ DOMAIN ask.left \subseteq Topics
        /\ ask.page # "markers" => DOMAIN ask.left \subseteq {ask.page}
        /\ ask.page \in DOMAIN Read!Calls => DOMAIN ask.left = {ask.page}
        /\ ask.page = "markers" => DOMAIN ask.left \subseteq DOMAIN Read!Layers
        /\ ask.page = "settings" => \E menu \in Menus : ask.of = {menu}
        /\ ask.page = "picker" => \E shelf \in Shelves : ask.of = {shelf}
        /\ ask.page = "choices" => \E scale \in Scales : ask.of = {scale}
    BY DEF Asking
  <2>2. QED
    BY <1>3, <1>7, <1>8, <1>9, <1>10, <2>1 DEF Asking, calls
<1>12. AllSaySo'
  <2>1. ASSUME NEW x \in DOMAIN ask'.got
        PROVE  SaysSo(x, ask'.got[x], entity', met', stayed', moods')
    <3>1. CASE x = c
      BY <1>1, <1>8, <3>1 DEF c
    <3>2. CASE x # c
      <4>1. x \in DOMAIN ask.got /\ ask'.got[x] = ask.got[x]
        BY <1>8, <3>2
      <4>2. SaysSo(x, ask.got[x], entity, met, stayed, moods)
        BY <4>1 DEF AllSaySo
      <4>3. SaysSo(x, ask.got[x], entity, met, stayed, moods')
        BY <4>2, SaysSoStill
      <4>4. QED
        BY <1>1, <4>1, <4>3
    <3>3. QED
      BY <3>1, <3>2
  <2>2. QED
    BY <2>1 DEF AllSaySo
<1>13. ask # Read!NoPage /\ ask' # Read!NoPage
  <2>1. DOMAIN Read!NoPage.left = {}
    BY DEF Read!NoPage, Read!Nothing
  <2>2. QED
    BY <1>7, <2>1
<1>14. QED
  BY <1>11, <1>12, <1>13

\* The game answers with the people it has.
LEMMA RowsOfTheGame ==
  ASSUME Town, Watched, ask # Read!NoPage
  PROVE  /\ \A some \in SUBSET Read!EverJoined :
              /\ RowsSaySo(Read!KnownRows(some), entity, met, stayed)
              /\ some = Read!EverJoined => Whole(Read!KnownRows(some), stayed)
         /\ RowsSaySo(Read!OnlineRows, entity, met, stayed)
         /\ Whole(Read!OnlineRows, stayed)
         /\ \A r \in Read!OnlineRows : r.online
<1>1. /\ \A p \in Persons : town[p] = Read!Away \/ town[p] = entity[p]
      /\ \A p \in Persons : town[p] # Read!Away => [who |-> p, id |-> town[p]] \in met
      /\ \A p \in stayed : p \in Persons /\ town[p] # Read!Away
  BY DEF Town, Watched, Read!Here, Read!In
<1>2. ASSUME NEW some \in SUBSET Read!EverJoined
      PROVE  /\ RowsSaySo(Read!KnownRows(some), entity, met, stayed)
             /\ some = Read!EverJoined => Whole(Read!KnownRows(some), stayed)
  <2>1. ASSUME NEW r \in Read!KnownRows(some)
        PROVE  /\ r.who \in Persons /\ entity[r.who] # Read!Away /\ r.id = entity[r.who]
               /\ r.online = (town[r.who] # Read!Away)
               /\ r = [who |-> r.who, id |-> entity[r.who], online |-> town[r.who] # Read!Away]
    BY DEF Read!KnownRows, Read!EverJoined
  <2>2. ASSUME some = Read!EverJoined, NEW p \in stayed
        PROVE  \E r \in Read!KnownRows(some) : r.who = p /\ r.online
    <3>1. p \in some
      BY <1>1, <2>2 DEF Read!EverJoined
    <3>2. [who |-> p, id |-> entity[p], online |-> town[p] # Read!Away]
            \in Read!KnownRows(some)
      BY <3>1 DEF Read!KnownRows
    <3>3. QED
      BY <1>1, <2>2, <3>2
  <2>3. \A r \in Read!KnownRows(some) :
          IF r.online THEN [who |-> r.who, id |-> r.id] \in met ELSE r.who \notin stayed
    BY <1>1, <2>1
  <2>4. \A r, s \in Read!KnownRows(some) : r.who = s.who => r = s
    BY <2>1
  <2>5. QED
    BY <2>1, <2>2, <2>3, <2>4 DEF RowsSaySo, Whole
<1>3. ASSUME NEW r \in Read!OnlineRows
      PROVE  /\ r.who \in Persons /\ town[r.who] # Read!Away /\ r.id = town[r.who]
             /\ r.online /\ r = [who |-> r.who, id |-> town[r.who], online |-> TRUE]
  BY DEF Read!OnlineRows, Read!Here, Read!In
<1>4. RowsSaySo(Read!OnlineRows, entity, met, stayed) /\ Whole(Read!OnlineRows, stayed)
  <2>1. ASSUME NEW p \in stayed
        PROVE  \E r \in Read!OnlineRows : r.who = p /\ r.online
    <3>1. [who |-> p, id |-> town[p]] \in Read!Here
      BY <1>1 DEF Read!Here, Read!In
    <3>2. [who |-> p, id |-> town[p], online |-> TRUE] \in Read!OnlineRows
      <4> DEFINE h == [who |-> p, id |-> town[p]]
      <4>1. h \in Read!Here /\ h.who = p /\ h.id = town[p]
        BY <3>1
      <4> HIDE DEF h
      <4>2. [who |-> h.who, id |-> h.id, online |-> TRUE] \in Read!OnlineRows
        BY <4>1 DEF Read!OnlineRows
      <4>3. QED
        BY <4>1, <4>2
    <3>3. QED
      BY <3>2
  <2>2. \A r \in Read!OnlineRows :
          /\ r.who \in Persons /\ entity[r.who] # Read!Away
          /\ IF r.online THEN [who |-> r.who, id |-> r.id] \in met ELSE r.who \notin stayed
    BY <1>1, <1>3
  <2>3. \A r, s \in Read!OnlineRows : r.who = s.who => r = s
    BY <1>3
  <2>4. QED
    BY <2>1, <2>2, <2>3 DEF RowsSaySo, Whole
<1>5. QED
  BY <1>2, <1>3, <1>4

\* Where all who ever joined are on one page, that page has them all.
LEMMA PageHasThemAll ==
  ASSUME NEW some \in SUBSET Read!EverJoined, Read!Listed(some), OnePage(entity)
  PROVE  some = Read!EverJoined
<1>1. \A S : Read!Cardinality(S) = Cardinality(S)
  BY DEF Cardinality, Read!Cardinality
<1>2. Read!EverJoined = {p \in Persons : entity[p] # Read!Away}
  BY DEF Read!EverJoined
<1>3. Cardinality(some) = Cardinality(Read!EverJoined)
  BY <1>1, <1>2 DEF Read!Listed, OnePage
<1>4. IsFiniteSet(Read!EverJoined)
  <2>1. IsFiniteSet(Persons) /\ Read!EverJoined \in SUBSET Persons
    BY <1>2, PagesAssumption
  <2>2. QED
    BY <2>1, FS_Subset
<1>5. QED
  BY <1>3, <1>4, FS_Subset

\* Whatever a call ends with is what it can end with in the game's mood.
LEMMA EndsSaySo ==
  ASSUME Paging, ask # Read!NoPage, NEW c, NEW end \in Read!Ends(c)
  PROVE  SaysSo(c, end, entity, met, stayed, moods)
<1>1. mood \in moods /\ mood \in {"open", "shut", "down"}
  BY DEF Paging, Watched, Town, Read!Moods
<1>2. CASE mood = "down"
  <2>1. end = Read!Failed("silent")
    BY <1>2 DEF Read!Ends
  <2>2. ~end.well /\ end.why = "silent"
    BY <2>1 DEF Read!Failed
  <2>3. QED
    BY <1>1, <1>2, <2>2 DEF SaysSo
<1>3. CASE mood = "shut" /\ c \notin Read!Public
  <2>1. end = Read!Failed("refused")
    BY <1>3 DEF Read!Ends
  <2>2. ~end.well /\ end.why = "refused"
    BY <2>1 DEF Read!Failed
  <2>3. QED
    BY <1>1, <1>3, <2>2 DEF SaysSo
<1>4. CASE mood # "down" /\ ~(mood = "shut" /\ c \notin Read!Public)
  <2>1. end \in Read!Brought(c) \/ (c = "icon" /\ end = Read!Failed("missing"))
    BY <1>4 DEF Read!Ends
  <2>2. CASE end \in Read!Brought(c)
    <3>1. /\ end.well
          /\ c = "known" => \E some \in SUBSET Read!EverJoined :
                              Read!Listed(some) /\ end.rows = Read!KnownRows(some)
          /\ c = "online" => end.rows = Read!OnlineRows
      <4>1. \A rows : Read!Well(rows).well /\ Read!Well(rows).rows = rows
        BY DEF Read!Well
      <4>2. CASE c = "known"
        <5>1. Read!Brought(c) = {Read!Well(Read!KnownRows(some)) :
                some \in {s \in SUBSET Read!EverJoined : Read!Listed(s)}}
          BY <4>2 DEF Read!Brought
        <5>2. QED
          BY <2>2, <4>1, <4>2, <5>1
      <4>3. CASE c = "online"
        <5>1. Read!Brought(c) = {Read!Well(Read!OnlineRows)}
          BY <4>3 DEF Read!Brought
        <5>2. QED
          BY <2>2, <4>1, <4>3, <5>1
      <4>4. CASE c \notin {"known", "online"}
        <5>1. Read!Brought(c) = {Read!Well({})}
          BY <4>4 DEF Read!Brought
        <5>2. QED
          BY <2>2, <4>1, <4>4, <5>1
      <4>5. QED
        BY <4>2, <4>3, <4>4
    <3>2. c \in Read!Public \/ "open" \in moods
      BY <1>1, <1>4
    <3>3. /\ \A some \in SUBSET Read!EverJoined :
               /\ RowsSaySo(Read!KnownRows(some), entity, met, stayed)
               /\ some = Read!EverJoined => Whole(Read!KnownRows(some), stayed)
          /\ RowsSaySo(Read!OnlineRows, entity, met, stayed)
          /\ Whole(Read!OnlineRows, stayed)
          /\ \A r \in Read!OnlineRows : r.online
      BY RowsOfTheGame DEF Paging
    <3>4. c = "known" => /\ RowsSaySo(end.rows, entity, met, stayed)
                         /\ OnePage(entity) => Whole(end.rows, stayed)
      BY <3>1, <3>3, PageHasThemAll
    <3>5. c = "online" => /\ RowsSaySo(end.rows, entity, met, stayed)
                          /\ Whole(end.rows, stayed) /\ \A r \in end.rows : r.online
      BY <3>1, <3>3
    <3>6. QED
      BY <3>1, <3>2, <3>4, <3>5 DEF SaysSo
  <2>3. CASE c = "icon" /\ end = Read!Failed("missing")
    <3>1. ~end.well /\ end.why = "missing"
      BY <2>3 DEF Read!Failed
    <3>2. QED
      BY <2>3, <3>1 DEF SaysSo
  <2>4. QED
    BY <2>1, <2>2, <2>3
<1>5. QED
  BY <1>2, <1>3, <1>4

LEMMA CallsReturn ==
  ASSUME Paging, NEW t \in DOMAIN ask.left, Read!Answers(t) \/ Read!Hitches(t)
  PROVE  Paging'
<1>1. PICK end : /\ Read!Returns(t, end) /\ moods \subseteq moods'
                 /\ moods' \subseteq Read!Moods \cup {"hitch"}
                 /\ \A c : c = Head(ask.left[t]) =>
                      SaysSo(c, end, entity, met, stayed, moods')
  <2>1. CASE Read!Answers(t)
    <3>1. PICK end \in Read!Asked(t) : Read!Returns(t, end) /\ UNCHANGED <<moves, moods>>
      BY <2>1 DEF Read!Answers
    <3>2. end \in Read!Ends(Head(ask.left[t]))
      BY <3>1 DEF Read!Asked
    <3>3. ask # Read!NoPage
      BY DEF Read!NoPage, Read!Nothing
    <3>4. \A c : c = Head(ask.left[t]) => SaysSo(c, end, entity, met, stayed, moods')
      BY <3>1, <3>2, <3>3, EndsSaySo
    <3>5. QED
      BY <3>1, <3>4 DEF Paging, Watched
  <2>2. CASE Read!Hitches(t)
    <3>1. PICK why \in {"error", "silent"} : Read!Returns(t, Read!Failed(why))
      BY <2>2 DEF Read!Hitches
    <3>2. moods' = moods \cup {"hitch"}
      BY <2>2 DEF Read!Hitches
    <3>3. ~Read!Failed(why).well /\ Read!Failed(why).why = why
      BY DEF Read!Failed
    <3>4. \A c : SaysSo(c, Read!Failed(why), entity, met, stayed, moods')
      BY <3>2, <3>3 DEF SaysSo
    <3>5. QED
      BY <3>1, <3>2, <3>4 DEF Paging, Watched
  <2>3. QED
    BY <2>1, <2>2
<1>2. /\ Asking' /\ AllSaySo' /\ ask' # Read!NoPage /\ ask # Read!NoPage
  BY <1>1, CallReturns DEF Paging
<1>3. UNCHANGED <<town, entity, mood, met, stayed>>
  BY <1>1 DEF Read!Returns
<1>4. Town'
  BY <1>3 DEF Paging, Town
<1>5. Watched'
  BY <1>1, <1>2, <1>3 DEF Paging, Watched, Read!Here
<1>6. QED
  BY <1>2, <1>4, <1>5 DEF Paging

LEMMA PagesStep ==
  ASSUME Paging, Read!Next
  PROVE  Paging'
BY OpensPage, CallsReturn, MovesKeepPages DEF Read!Next

-----------------------------------------------------------------------------
(***************************************************************************)
(* The pages: what they make of it.                                        *)
(***************************************************************************)

\* A page is done when of each goroutine's calls all were good, or all before one
\* that was not.
LEMMA AllIsMade ==
  ASSUME Asking, Read!Done, NEW t \in DOMAIN ask.left
  PROVE  LET calls == Read!CallsOf(t)
         IN \/ \A i \in DOMAIN calls : calls[i] \in DOMAIN ask.got /\ Good(calls[i], ask.got)
            \/ \E k \in DOMAIN calls :
                 /\ calls[k] \in DOMAIN ask.got /\ ~Good(calls[k], ask.got)
                 /\ \A i \in DOMAIN calls : i < k => calls[i] \in DOMAIN ask.got
                                                     /\ Good(calls[i], ask.got)
<1> DEFINE calls == Read!CallsOf(t)
           n == Len(calls)
<1>1. calls \in Seq(Endpoints)
  <2>1. t \in Topics
    BY DEF Asking
  <2>2. QED
    BY <2>1, CallsDiffer
<1>2. n \in Nat /\ DOMAIN calls = 1..n
  BY <1>1
<1>3. PICK k \in 0..n : Made(t, k, ask.got, ask.left[t])
  BY DEF Asking
<1>4. ask.left[t] = << >> /\ Len(<< >>) = 0
  BY DEF Read!Done
<1>5. /\ \A i \in DOMAIN calls : calls[i] \in DOMAIN ask.got <=> i <= k
      /\ \A i \in 1..(k - 1) : Good(calls[i], ask.got)
      /\ (k > 0 /\ ~Good(calls[k], ask.got)) \/ 0 = n - k
  BY <1>3, <1>4 DEF Made
<1> HIDE DEF n, calls
<1>6. CASE k > 0 /\ ~Good(calls[k], ask.got)
  <2>1. k \in DOMAIN calls /\ calls[k] \in DOMAIN ask.got
    BY <1>2, <1>5, <1>6
  <2>2. \A i \in DOMAIN calls : i < k => i \in 1..(k - 1) /\ i <= k
    BY <1>2
  <2>3. QED
    BY <1>5, <1>6, <2>1, <2>2 DEF calls
<1>7. CASE ~(k > 0 /\ ~Good(calls[k], ask.got))
  <2>1. \A i \in DOMAIN calls : i <= k /\ (i \in 1..(k - 1) \/ (i = k /\ k > 0))
    BY <1>2, <1>5, <1>7
  <2>2. QED
    BY <1>5, <1>7, <2>1 DEF calls
<1>8. QED
  BY <1>6, <1>7

\* What the calls of a page and of a layer are.
LEMMA WhoIsAsked ==
  /\ \A i \in DOMAIN Read!CallsOf("players") : Read!CallsOf("players")[i] \in Read!Optional
  /\ DOMAIN Read!CallsOf("players") = {1, 2}
  /\ Read!CallsOf("players")[1] = "known" /\ Read!CallsOf("players")[2] = "online"
  /\ \A t \in DOMAIN Read!Layers \ {"players"} :
       \A i \in DOMAIN Read!CallsOf(t) : Read!CallsOf(t)[i] = t
  /\ DOMAIN Read!CallsOf("probe") = {1, 2, 3}
  /\ Read!CallsOf("probe")[1] = "info" /\ Read!CallsOf("probe")[2] = "log"
  /\ Read!CallsOf("probe")[3] = "stats"
  /\ {"players", "probe"} \subseteq DOMAIN Read!Calls
BY DEF Read!CallsOf, Read!Calls, Read!Layers, Read!PlayerList, Read!Trial, Read!Optional

\* The list of people was asked for, once a page with it is done.
LEMMA PeopleAsked ==
  ASSUME Asking, Read!Done, "players" \in DOMAIN ask.left
  PROVE  "known" \in DOMAIN ask.got /\ "online" \in DOMAIN ask.got
<1> DEFINE calls == Read!CallsOf("players")
<1>1. \A i \in DOMAIN calls : Good(calls[i], ask.got)
  BY WhoIsAsked DEF Good
<1>2. \A i \in DOMAIN calls : calls[i] \in DOMAIN ask.got
  BY <1>1, AllIsMade
<1>3. QED
  BY <1>2, WhoIsAsked

LEMMA WhoIsThereIsShown ==
  ASSUME Paging, Read!Done
  PROVE  Read!ShowsWhoIsThere
<1> DEFINE On == Read!PlayersIn("online")
           Known == Read!PlayersIn("known")
<1>1. /\ Read!Got("online") => RowsSaySo(On, entity, met, stayed) /\ \A r \in On : r.online
      /\ Read!Got("known") => RowsSaySo(Known, entity, met, stayed)
      /\ Read!Got("online") => Whole(On, stayed)
      /\ Read!Got("known") /\ OnePage(entity) => Whole(Known, stayed)
      /\ ~Read!Got("online") => On = {}
      /\ ~Read!Got("known") => Known = {}
  BY DEF Paging, AllSaySo, SaysSo, Read!Got, Read!PlayersIn
<1>2. /\ Read!Merged = On \cup {k \in Known : k.who \notin {o.who : o \in On}}
      /\ Read!Shown = IF "players" \in Read!DrawnLayers THEN {r \in Read!Merged : r.online}
                      ELSE {}
      /\ Read!ListFails <=> ~Read!Got("known") /\ ~Read!Got("online")
  BY DEF Read!Merged, Read!Shown, Read!ListFails
<1> HIDE DEF On, Known
<1>3. /\ \A r \in On : /\ r.who \in Persons /\ entity[r.who] # Read!Away /\ r.online
                       /\ [who |-> r.who, id |-> r.id] \in met
      /\ \A r, s \in On : r.who = s.who => r = s
      /\ Read!Got("online") => \A p \in stayed : \E r \in On : r.who = p /\ r.online
  BY <1>1 DEF RowsSaySo, Whole
<1>4. /\ \A r \in Known : /\ r.who \in Persons /\ entity[r.who] # Read!Away
                          /\ r.online => [who |-> r.who, id |-> r.id] \in met
                          /\ ~r.online => r.who \notin stayed
      /\ \A r, s \in Known : r.who = s.who => r = s
      /\ Read!Got("known") /\ OnePage(entity)
           => \A p \in stayed : \E r \in Known : r.who = p /\ r.online
  BY <1>1 DEF RowsSaySo, Whole
<1>5. \A r \in Read!Shown : [who |-> r.who, id |-> r.id] \in met
  BY <1>2, <1>3, <1>4
<1>6. \A r, s \in Read!Merged : r.who = s.who => r = s
  BY <1>2, <1>3, <1>4
<1>7. "players" \in Read!DrawnLayers => ~Read!ListFails
  BY DEF Read!DrawnLayers, Read!Broken
<1>8. ASSUME "players" \in Read!DrawnLayers, Read!Got("online") \/ OnePage(entity),
             NEW p \in stayed
      PROVE  \E r \in Read!Shown : r.who = p
  <2>1. CASE Read!Got("online")
    BY <1>2, <1>3, <1>8, <2>1
  <2>2. CASE ~Read!Got("online")
    <3>1. Read!Got("known") /\ On = {}
      BY <1>1, <1>2, <1>7, <1>8, <2>2
    <3>2. Known \subseteq Read!Merged
      BY <1>2, <3>1
    <3>3. PICK r \in Known : r.who = p /\ r.online
      BY <1>4, <1>8, <2>2, <3>1
    <3>4. QED
      BY <1>2, <1>8, <3>2, <3>3
  <2>3. QED
    BY <2>1, <2>2
<1>9. ASSUME NEW r \in Read!PlayersPage.rest
      PROVE  r.who \notin stayed /\ entity[r.who] # Read!Away
  <2>1. ask.page = "players" /\ r \in Read!Merged \ Read!Shown
    BY DEF Read!PlayersPage
  <2>2. "players" \in DOMAIN ask.left
    BY <2>1, WhoIsAsked DEF Paging, Asking
  <2>3. ~Read!ListFails
    BY <1>1, <1>2, <2>1
  <2>4. "players" \in Read!DrawnLayers
    BY <2>2, <2>3 DEF Read!DrawnLayers, Read!Broken
  <2>5. ~r.online
    BY <1>2, <2>1, <2>4
  <2>6. r \in Known
    BY <1>2, <1>3, <2>1, <2>5
  <2>7. QED
    BY <1>4, <2>5, <2>6
<1>10. OnePage(entity) <=> Read!Cardinality(Read!EverJoined) <= MaxKnown
  BY DEF OnePage, Read!EverJoined, Cardinality, Read!Cardinality
<1>11. QED
  BY <1>5, <1>6, <1>8, <1>9, <1>10 DEF Read!ShowsWhoIsThere

\* What a layer or a page is broken by is a call that failed.
LEMMA BrokenByACall ==
  ASSUME Paging, Read!Done, NEW t \in DOMAIN ask.left
  PROVE  /\ t \notin Read!DrawnLayers =>
              Read!Broken(t) \in DOMAIN ask.got /\ ~ask.got[Read!Broken(t)].well
         /\ t \in Read!DrawnLayers /\ t # "players" =>
              \A c \in DOMAIN ask.got :
                \/ ask.got[c].well \/ c \in Read!Optional
                \/ ask.page = "markers" /\ c # t
<1>1. t \in Read!DrawnLayers <=> Read!Broken(t) = ""
  BY DEF Read!DrawnLayers
<1>2. CASE t = "players"
  <2>1. Read!Broken(t) = IF ~Read!Got("known") /\ ~Read!Got("online") THEN "known" ELSE ""
    BY <1>2 DEF Read!Broken, Read!ListFails
  <2>2. "known" \in DOMAIN ask.got
    BY <1>2, PeopleAsked DEF Paging
  <2>3. QED
    BY <1>1, <1>2, <2>1, <2>2 DEF Read!Got
<1>3. CASE t # "players"
  <2> DEFINE bad == {c \in DOMAIN ask.got : ~Read!Got(c) /\ c \notin Read!Optional
                                            /\ (ask.page = "markers" => c = t)}
  <2>1. Read!Broken(t) = IF bad = {} THEN "" ELSE CHOOSE c \in bad : TRUE
    BY <1>3 DEF Read!Broken
  <2>2. \A c \in bad : c \in DOMAIN ask.got /\ ~ask.got[c].well
    BY DEF Read!Got
  <2>3. "" \notin DOMAIN ask.got
    <3>1. \A u \in DOMAIN ask.left : Read!CallsOf(u) \in Seq(Endpoints)
      BY CallsDiffer DEF Paging, Asking
    <3>2. \A c \in DOMAIN ask.got : c \in Endpoints
      BY <3>1 DEF Paging, Asking
    <3>3. QED
      BY <3>2 DEF Endpoints
  <2>4. ASSUME bad = {}, NEW c \in DOMAIN ask.got
        PROVE  \/ ask.got[c].well \/ c \in Read!Optional
               \/ ask.page = "markers" /\ c # t
    <3>1. c \notin bad
      BY <2>4
    <3>2. Read!Got(c) \/ c \in Read!Optional \/ ~(ask.page = "markers" => c = t)
      BY <3>1
    <3>3. QED
      BY <3>2 DEF Read!Got
  <2>5. bad \subseteq DOMAIN ask.got
    OBVIOUS
  <2> HIDE DEF bad
  <2>6. CASE bad = {}
    BY <1>1, <2>1, <2>4, <2>6
  <2>7. CASE bad # {}
    <3>1. Read!Broken(t) \in bad
      BY <2>1, <2>7
    <3>2. t \notin Read!DrawnLayers
      BY <1>1, <2>3, <2>5, <3>1
    <3>3. QED
      BY <2>2, <3>1, <3>2
  <2>8. QED
    BY <2>6, <2>7
<1>4. QED
  BY <1>2, <1>3

LEMMA LackIsSaid ==
  ASSUME Paging, Read!Done
  PROVE  Read!SaysWhatItLacks
<1>1. \A c \in DOMAIN ask.got : SaysSo(c, ask.got[c], entity, met, stayed, moods)
  BY DEF Paging, AllSaySo
<1>2. ASSUME NEW t \in DOMAIN Read!Problems
      PROVE  /\ Read!Problems[t] = "refused" => "shut" \in moods
             /\ Read!Problems[t] # "missing" => moods \cap {"shut", "down", "hitch"} # {}
  <2>1. t \in DOMAIN ask.left /\ t \notin Read!DrawnLayers
        /\ Read!Problems[t] = Read!Why(Read!Broken(t))
    BY DEF Read!Problems
  <2>2. PICK c \in DOMAIN ask.got : c = Read!Broken(t) /\ ~ask.got[c].well
    BY <2>1, BrokenByACall
  <2>3. Read!Problems[t] = ask.got[c].why
    BY <2>1, <2>2 DEF Read!Why
  <2>4. SaysSo(c, ask.got[c], entity, met, stayed, moods)
    BY <1>1
  <2>5. QED
    BY <2>2, <2>3, <2>4 DEF SaysSo
<1>3. ASSUME NEW t \in Read!DrawnLayers, NEW c \in Read!ToSet(Read!CallsOf(t)),
             c \notin Read!Optional
      PROVE  Read!Got(c)
  <2>1. t \in DOMAIN ask.left
    BY DEF Read!DrawnLayers
  <2>2. PICK i \in DOMAIN Read!CallsOf(t) : c = Read!CallsOf(t)[i]
    BY DEF Read!ToSet
  <2>3. t # "players"
    BY <1>3, <2>2, WhoIsAsked
  <2>4. \A d \in DOMAIN ask.got : \/ ask.got[d].well \/ d \in Read!Optional
                                  \/ ask.page = "markers" /\ d # t
    BY <2>1, <2>3, BrokenByACall
  <2>5. ask.page = "markers" =>
          \A j \in DOMAIN Read!CallsOf(t) : Read!CallsOf(t)[j] = t
    BY <2>1, <2>3, WhoIsAsked DEF Paging, Asking
  <2>6. \A j \in DOMAIN Read!CallsOf(t) :
          Read!CallsOf(t)[j] \in DOMAIN ask.got => Good(Read!CallsOf(t)[j], ask.got)
    BY <2>4, <2>5 DEF Good
  <2>7. \A j \in DOMAIN Read!CallsOf(t) : Read!CallsOf(t)[j] \in DOMAIN ask.got
    BY <2>1, <2>6, AllIsMade DEF Paging
  <2>8. c \in DOMAIN ask.got /\ Good(c, ask.got)
    BY <2>2, <2>6, <2>7
  <2>9. QED
    BY <1>3, <2>8 DEF Read!Got, Good
<1>4. ASSUME ask.page = "probe"
      PROVE  CASE Read!Verdict = "works" -> "open" \in moods
               [] Read!Verdict = "refused" -> "shut" \in moods
               [] OTHER -> moods \cap {"down", "hitch"} # {}
  <2> DEFINE calls == Read!CallsOf("probe")
  <2>1. "probe" \in DOMAIN ask.left
    BY <1>4, WhoIsAsked DEF Paging, Asking
  <2>2. \/ \A i \in DOMAIN calls : calls[i] \in DOMAIN ask.got /\ Good(calls[i], ask.got)
        \/ \E k \in DOMAIN calls :
             /\ calls[k] \in DOMAIN ask.got /\ ~Good(calls[k], ask.got)
             /\ \A i \in DOMAIN calls : i < k => calls[i] \in DOMAIN ask.got
                                                 /\ Good(calls[i], ask.got)
    BY <2>1, AllIsMade DEF Paging
  <2>3. /\ DOMAIN calls = {1, 2, 3} /\ calls[1] = "info" /\ calls[2] = "log"
        /\ calls[3] = "stats"
    BY WhoIsAsked
  <2>4. /\ "info" \notin Read!Optional /\ "log" \notin Read!Optional
        /\ "stats" \in Read!Optional /\ "info" \in Read!Public /\ "log" \notin Read!Public
    BY DEF Read!Optional, Read!Public
  <2> HIDE DEF calls
  <2>5. /\ Good("info", ask.got) <=> ask.got["info"].well
        /\ Good("log", ask.got) <=> ask.got["log"].well
        /\ Good("stats", ask.got)
    BY <2>4 DEF Good
  <2>6. "info" \in DOMAIN ask.got
    BY <2>2, <2>3
  <2>7. Read!Got("info") <=> ask.got["info"].well
    BY <2>6 DEF Read!Got
  <2>8. Read!Got("info") => "log" \in DOMAIN ask.got
    BY <2>2, <2>3, <2>5, <2>7
  <2>9. SaysSo("info", ask.got["info"], entity, met, stayed, moods)
    BY <1>1, <2>6
  <2>10. CASE ~Read!Got("info")
    <3>1. Read!Verdict = "unreachable"
      BY <2>10 DEF Read!Verdict
    <3>2. moods \cap {"down", "hitch"} # {}
      BY <2>4, <2>7, <2>9, <2>10 DEF SaysSo
    <3>3. QED
      BY <3>1, <3>2
  <2>11. CASE Read!Got("info")
    <3>1. SaysSo("log", ask.got["log"], entity, met, stayed, moods)
      BY <1>1, <2>8, <2>11
    <3>2. Read!Got("log") <=> ask.got["log"].well
      BY <2>8, <2>11 DEF Read!Got
    <3>3. CASE Read!Got("log")
      <4>1. Read!Verdict = "works"
        BY <2>11, <3>3 DEF Read!Verdict
      <4>2. "open" \in moods
        BY <2>4, <3>1, <3>2, <3>3 DEF SaysSo
      <4>3. QED
        BY <4>1, <4>2
    <3>4. CASE ~Read!Got("log")
      <4>1. Read!Verdict = IF ask.got["log"].why = "refused" THEN "refused" ELSE "unreadable"
        BY <2>11, <3>4 DEF Read!Verdict, Read!Refused, Read!Why
      <4>2. \/ ask.got["log"].why = "refused" /\ "shut" \in moods
            \/ ask.got["log"].why # "refused" /\ moods \cap {"down", "hitch"} # {}
        BY <2>4, <3>1, <3>2, <3>4 DEF SaysSo
      <4>3. QED
        BY <4>1, <4>2
    <3>5. QED
      BY <3>3, <3>4
  <2>12. QED
    BY <2>10, <2>11
<1>5. QED
  BY <1>2, <1>3, <1>4 DEF Read!SaysWhatItLacks

LEMMA ListsAreOfThePage ==
  ASSUME Paging
  PROVE  Read!ListsAreRight
<1>1. ASSUME ask.page = "settings"
      PROVE  Read!ShowsEachOnce(Read!Of.prefs, Read!Options, Read!Of.startup, Read!Live)
  <2>1. PICK menu \in Menus : ask.of = {menu}
    BY <1>1 DEF Paging, Asking
  <2>2. Read!Of = menu
    BY <2>1 DEF Read!Of
  <2>3. Read!Options = menu.options \/ Read!Options = {}
    BY <2>2 DEF Read!Options
  <2>4. QED
    BY <2>2, <2>3, EachOnce
<1>2. ASSUME ask.page = "picker", NEW c \in Read!Catalogues, NEW given \in BOOLEAN,
             NEW all \in BOOLEAN, NEW limit \in 1..2
      PROVE  Read!PicksTheBest(c, Read!Of, given, all, limit)
  <2>1. PICK shelf \in Shelves : ask.of = {shelf}
    BY <1>2 DEF Paging, Asking
  <2>2. Read!Of = shelf
    BY <2>1 DEF Read!Of
  <2>3. limit \in Nat
    OBVIOUS
  <2>4. QED
    BY <2>2, <2>3, BestIsPicked
<1>3. ASSUME ask.page = "choices"
      PROVE  Read!OffersItsOwn(Read!Of.values, Read!Of.current)
  <2>1. PICK scale \in Scales : ask.of = {scale}
    BY <1>3 DEF Paging, Asking
  <2>2. Read!Of = scale
    BY <2>1 DEF Read!Of
  <2>3. scale.values \subseteq Read!Exact
    BY PagesAssumption
  <2>4. Read!OffersItsOwn(scale.values, scale.current)
    BY <2>3, OwnIsOffered
  <2>5. QED
    BY <2>2, <2>4
<1>4. QED
  BY <1>1, <1>2, <1>3 DEF Read!ListsAreRight

LEMMA PagesHold ==
  ASSUME Paging
  PROVE  Read!PagesAreHonest
BY WhoIsThereIsShown, LackIsSaid, ListsAreOfThePage DEF Read!PagesAreHonest

LEMMA PagesStutter ==
  ASSUME Paging, UNCHANGED pageVars
  PROVE  Paging'
<1>1. UNCHANGED <<town, entity, mood, ask, met, stayed, moods>>
  BY DEF pageVars
<1>2. Town' /\ Watched'
  BY <1>1 DEF Paging, Town, Watched, Read!Here
<1>3. AllSaySo' /\ Asking'
  BY <1>1 DEF Paging, AllSaySo, Asking
<1>4. QED
  BY <1>2, <1>3 DEF Paging

\* Who does not move has one state to be in: without a page.
LEMMA QuietPages ==
  ASSUME town = [p \in Persons |-> Read!Away], entity = town, Read!Quiet
  PROVE  Paging
<1>1. /\ mood = "open" /\ ask = Read!NoPage /\ moods = {}
      /\ \A p \in Persons : town[p] = Read!Away
  BY DEF Read!Quiet
<1>2. Town
  BY <1>1 DEF Town, Read!Moods
<1>3. Watched
  BY <1>1 DEF Watched
<1>4. DOMAIN ask.got = {} /\ DOMAIN ask.left = {} /\ ask.page = "none"
      /\ ask = [page |-> ask.page, of |-> ask.of, left |-> ask.left, got |-> ask.got]
      /\ ask.left = [t \in {} |-> ask.left[t]] /\ ask.got = [c \in {} |-> ask.got[c]]
  BY <1>1 DEF Read!NoPage, Read!Nothing
<1>5. "none" \notin DOMAIN Read!Calls
  BY DEF Read!Calls
<1>6. AllSaySo /\ Asking
  BY <1>4, <1>5 DEF AllSaySo, Asking
<1>7. QED
  BY <1>2, <1>3, <1>6 DEF Paging

LEMMA AnswersInit == Init => Hand /\ Ordered /\ Paging
  BY HandAndBootInit, PagesInit, QuietPages DEF Init

LEMMA AnswersStep == Hand /\ Ordered /\ Paging /\ [Next]_vars => (Hand /\ Ordered /\ Paging)'
<1> SUFFICES ASSUME Hand, Ordered, Paging, [Next]_vars
             PROVE  Hand' /\ Ordered' /\ Paging'
  OBVIOUS
<1>1. CASE PagesMove
  BY <1>1, PagesStep, HandAndBootStep DEF PagesMove
<1>2. CASE UNCHANGED pageVars
  BY <1>2, PagesStutter, HandAndBootStep
<1>3. QED
  BY <1>1, <1>2 DEF Next, vars, ChatMoves, TilesMove, ListsMove, LoginsMove, HandsMove,
     BootMoves, PagesMove

\* An operator can act on what he is told: what is said to be done was done once and
\* what is said to be refused was not, what is wrong with an environment is all that
\* is, and what a page shows of the game was so while it was read, what it lacks is
\* named, and nothing is on it twice; whatever fails, and whatever the game and the
\* others do meanwhile.
THEOREM AnswersAlwaysHonest == Spec => []AnswersAreHonest
<1> DEFINE Inv == Hand /\ Ordered /\ Paging
<1>1. Init => Inv
  BY AnswersInit
<1>2. Inv /\ [Next]_vars => Inv'
  BY AnswersStep
<1>3. Inv => AnswersAreHonest
  BY HandHolds, OrderedHolds, PagesHold DEF AnswersAreHonest
<1>4. QED
  BY <1>1, <1>2, <1>3, PTL DEF Spec
-----------------------------------------------------------------------------
(***************************************************************************)
(* All the parts are well formed.                                          *)
(***************************************************************************)

LEMMA PagesAreWellFormed ==
  ASSUME Paging
  PROVE  Read!TypeOK
<1>1. ASSUME NEW c \in DOMAIN ask.got
      PROVE  c \in UNION {Read!ToSet(Read!CallsOf(t)) : t \in DOMAIN ask.left}
  <2>1. PICK t \in DOMAIN ask.left : \E i \in DOMAIN Read!CallsOf(t) : c = Read!CallsOf(t)[i]
    BY <1>1 DEF Paging, Asking
  <2>2. c \in Read!ToSet(Read!CallsOf(t))
    BY <2>1 DEF Read!ToSet
  <2>3. QED
    BY <2>2
<1>2. Town /\ moods \subseteq Read!Moods \cup {"hitch"}
  BY DEF Paging, Watched
<1>3. QED
  BY <1>1, <1>2 DEF Read!TypeOK, Town

\* Every part is well formed, whatever happens to it.  The tile cache's list and map
\* hold the same squares, each once, within the cap, and its count is what they
\* weigh (lru.go); one request at a time fetches a square, or a catalogue; a session
\* ends within its term and no address is past its limit; what the bot goes by was
\* saved through SaveChatCommand, and it sends no more than its plan; an operator's
\* request sends no more than it is due; a migration that is recorded is one of
\* ours; and a page has brought only what it had to ask for.
THEOREM EverythingAlwaysWellFormed == Spec => []TypeOK
<1> DEFINE Inv == Orderly /\ Hand /\ Ordered /\ Paging
<1>1. Init => Inv
  BY OrderlyInit, AnswersInit
<1>2. Inv /\ [Next]_vars => Inv'
  BY OrderlyStep, AnswersStep
<1>3. Inv => TypeOK
  BY OrderlyIsWellFormed, HandHolds, OrderedHolds, PagesAreWellFormed DEF TypeOK
<1>4. QED
  BY <1>1, <1>2, <1>3, PTL DEF Spec
=============================================================================
