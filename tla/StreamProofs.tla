----------------------------- MODULE StreamProofs -----------------------------
(***************************************************************************)
(* What the log stream is worth for any lengths of queries, any number of  *)
(* processes and logs of any length: lines come out once and in order, a   *)
(* line held for a repeat is one, and holes are left by failed queries and *)
(* by full pages alone.                                                    *)
(*                                                                         *)
(* The argument: what is held back and what is on the wire is one stretch  *)
(* of one process's log, from the first line of the connection that was    *)
(* not handed on (Flow).  A page is another such stretch, which begins     *)
(* after the cursor and, if it is not full, reaches the first (Fits).  A   *)
(* cursor that is Ready for a stretch takes it whole: Taking one line      *)
(* makes it ready for the next.                                            *)
(***************************************************************************)
EXTENDS LogStreamer, SequenceTheorems, WellFoundedInduction, TLAPS

Cursors ==
  [lastSeen : Nat \cup {-1}, cursorOf : Boots \cup {0}, emitted : Seq(Lines),
   repeats : SUBSET (Boots \X Lines), gaps : SUBSET Excuses, excuse : Excuses]

HasShown(c, line) == \E i \in 1..Len(c.emitted) : c.emitted[i] = line
IsOlder(c, line) ==
  \A i \in 1..Len(c.emitted) : c.emitted[i][1] = line[1] => line[2] < c.emitted[i][2]
Accounted(c, line) == HasShown(c, line) \/ IsOlder(c, line)

\* What is true of the cursor whenever it is not being moved.
InOrder(s) == \A i, j \in 1..Len(s) : i < j => Before(s[i], s[j])

IsRepeat(c, r) ==
  /\ Accounted(c, r[2])
  /\ \E i \in 1..Len(c.emitted) : c.emitted[i][1] = r[1] /\ r[2][2] <= c.emitted[i][2]

Good(c) ==
  /\ c \in Cursors
  /\ InOrder(c.emitted)
  /\ IF c.cursorOf = 0 THEN c.lastSeen = -1
                       ELSE c.lastSeen \in Nat /\ HasShown(c, <<c.cursorOf, c.lastSeen>>)
  /\ \A r \in c.repeats : r[1] = r[2][1] => IsRepeat(c, r)
  /\ "none" \notin c.gaps

\* All that was emitted comes before what process p has to say after the cursor.
Behind(c, p) ==
  \A i \in 1..Len(c.emitted) :
    \/ c.emitted[i][1] < p
    \/ c.emitted[i][1] = p /\ c.cursorOf = p /\ c.emitted[i][2] <= c.lastSeen

\* The cursor may take the lines of p from n on: no hole without an excuse, and
\* what it will take for repeats, from b on, are repeats.
Ready(c, p, b, n) ==
  /\ Behind(c, p)
  /\ c.cursorOf = p => /\ \A k \in b..c.lastSeen : Accounted(c, <<p, k>>)
                       /\ n > c.lastSeen + 1 => c.excuse # "none" /\ n <= b
                       /\ n <= c.lastSeen => b <= n

Within(c, p, n) == c.cursorOf = p => c.lastSeen < n

\* The lines of p from n on.
Stretch(s, p, n) == \A i \in 1..Len(s) : s[i] = <<p, n + i - 1>>

Backfilling == pc \notin {"dialling", "live"}

Types ==
  /\ up \in BOOLEAN /\ connected \in BOOLEAN
  /\ boot \in Boots
  /\ size \in 0..MaxLines[boot]
  /\ wire \in Seq(Lines) /\ buffered \in Seq(Lines)
  /\ pc \in Locations
  /\ page.entries \in Seq(Lines) /\ page.lastLine \in Nat
  /\ page # NoPage => pc \in {"answered", "reseeded"}
  /\ connected => up
  /\ ~up => boot < MaxBoots
  /\ pc = "dialling" => ~connected /\ wire = <<>>
  /\ ~Backfilling => buffered = <<>>

\* What is to come is the lines of p from a on.
Flow(p, a) ==
  /\ p <= boot
  /\ Stretch(buffered, p, a)
  /\ Stretch(wire, p, a + Len(buffered))
  /\ p = boot => a + Len(buffered) + Len(wire) <= size
  /\ connected => p = boot /\ a + Len(buffered) + Len(wire) = size
  /\ Backfilling => p = boot /\ Within(Cursor, p, a)
  /\ Behind(Cursor, p)
  /\ pc = "live" => Ready(Cursor, p, a, a)

\* The page is the log from first on, and reaches a unless it is full.
Fits(first, a) ==
  /\ Stretch(page.entries, boot, first)
  /\ lastSeen < first
  /\ (lastSeen >= 0 \/ page.entries = <<>>) => first = lastSeen + 1
  /\ page.entries # <<>> => first + Len(page.entries) <= size
  /\ PageExcuse = "none" => a <= page.lastLine /\ page.lastLine <= first + Len(page.entries)
  /\ cursorOf = boot => lastSeen <= page.lastLine

Sound ==
  /\ Types
  /\ Good(Cursor) /\ Behind(Cursor, boot) /\ Within(Cursor, boot, size)
  /\ \E p \in Boots, a \in Nat :
       /\ Flow(p, a)
       /\ pc \in {"answered", "reseeded"} => \E first \in Nat : Fits(first, a)
  /\ pc \in {"reseeding", "reseeded"} => lastSeen = -1
-----------------------------------------------------------------------------
(***************************************************************************)
(* Taking one line after the other.                                        *)
(***************************************************************************)

\* Counting up from zero reaches every natural number.
LEMMA CountingUp ==
  ASSUME NEW S, 0 \in S, \A n \in Nat : n \in S => n + 1 \in S
  PROVE  Nat \subseteq S
<1> DEFINE Below == OpToRel(<, Nat)
<1>1. IsWellFoundedOn(Below, Nat)
  BY NatLessThanWellFounded
<1>2. ASSUME Nat \ S # {}
      PROVE  FALSE
  <2>1. \E x \in Nat \ S : \A y \in Nat \ S : <<y, x>> \notin Below
    <3> HIDE DEF Below
    <3>1. QED
      BY <1>1, <1>2, WFMin
  <2>2. PICK x \in Nat \ S : \A y \in Nat \ S : <<y, x>> \notin Below
    BY <2>1
  <2>3. x - 1 \in Nat /\ x - 1 \notin S
    <3>1. x # 0
      OBVIOUS
    <3>2. x - 1 \in Nat /\ (x - 1) + 1 = x
      BY <3>1
    <3>3. QED
      BY <3>2
  <2>4. <<x - 1, x>> \in Below
    BY <2>3 DEF OpToRel
  <2>5. QED
    BY <2>2, <2>3, <2>4
<1>3. QED
  BY <1>2

\* What one line more brings into C[n] from C[n - 1], all lines bring into the last.
LEMMA TakeByTake ==
  ASSUME NEW lines, Len(lines) \in Nat, NEW C, NEW c \in C[0],
         \A n \in 1..Len(lines) : \A d \in C[n - 1] : Take(d, lines[n]) \in C[n]
  PROVE  TakeAll(c, lines) \in C[Len(lines)]
<1> DEFINE total == Len(lines)
           Counts(g, n) == g = [m \in 0..n |-> IF m = 0 THEN c ELSE Take(g[m - 1], lines[m])]
           after == CHOOSE g : Counts(g, total)
<1>1. TakeAll(c, lines) = after[total]
  BY DEF TakeAll
<1>2. \A n \in Nat : \E g : Counts(g, n)
  <2> DEFINE S == {n \in Nat : \E g : Counts(g, n)}
  <2>1. 0 \in S
    <3> DEFINE h == [m \in 0..0 |-> c]
    <3>1. Counts(h, 0)
      OBVIOUS
    <3> HIDE DEF h, Counts
    <3>2. QED
      BY <3>1
  <2>2. ASSUME NEW n \in Nat, n \in S
        PROVE  n + 1 \in S
    <3>1. PICK g : Counts(g, n)
      BY <2>2
    <3> DEFINE h == [m \in 0..(n + 1) |-> IF m = n + 1 THEN Take(g[n], lines[n + 1]) ELSE g[m]]
    <3>2. \A m \in 0..n : h[m] = g[m] /\ g[m] = IF m = 0 THEN c ELSE Take(g[m - 1], lines[m])
      <4>1. \A m \in 0..n : g[m] = IF m = 0 THEN c ELSE Take(g[m - 1], lines[m])
        BY <3>1
      <4>2. \A m \in 0..n : m \in 0..(n + 1) /\ m # n + 1
        OBVIOUS
      <4>3. QED
        BY <4>1, <4>2
    <3>3. h[n + 1] = Take(g[n], lines[n + 1])
      OBVIOUS
    <3>4. ASSUME NEW m \in 0..(n + 1)
          PROVE  h[m] = IF m = 0 THEN c ELSE Take(h[m - 1], lines[m])
      <4>1. CASE m = n + 1
        <5>1. m # 0 /\ m - 1 = n /\ n \in 0..n
          BY <4>1
        <5>2. h[m - 1] = g[n]
          BY <3>2, <5>1
        <5> HIDE DEF h
        <5>3. QED
          BY <3>3, <4>1, <5>1, <5>2
      <4>2. CASE m # n + 1
        <5>1. m \in 0..n /\ (m # 0 => m - 1 \in 0..n)
          BY <4>2
        <5> HIDE DEF h
        <5>2. QED
          BY <3>2, <5>1
      <4>3. QED
        BY <4>1, <4>2
    <3>5. Counts(h, n + 1)
      <4>1. h = [m \in 0..(n + 1) |-> h[m]]
        OBVIOUS
      <4> HIDE DEF h
      <4>2. QED
        BY <3>4, <4>1
    <3> HIDE DEF Counts
    <3>6. QED
      BY <3>5
  <2> HIDE DEF S
  <2>3. Nat \subseteq S
    BY <2>1, <2>2, CountingUp
  <2>4. QED
    BY <2>3 DEF S
<1>3. Counts(after, total)
  BY <1>2
<1> HIDE DEF after
<1>4. after[0] = c /\ \A n \in 1..total : after[n] = Take(after[n - 1], lines[n])
  <2>1. \A n \in 0..total : after[n] = IF n = 0 THEN c ELSE Take(after[n - 1], lines[n])
    BY <1>3
  <2>2. QED
    BY <2>1
<1> DEFINE S == {n \in Nat : n <= total => after[n] \in C[n]}
<1>5. 0 \in S
  BY <1>4
<1>6. ASSUME NEW n \in Nat, n \in S
      PROVE  n + 1 \in S
  <2>1. ASSUME n + 1 <= total
        PROVE  after[n + 1] \in C[n + 1]
    <3>1. n + 1 \in 1..total /\ (n + 1) - 1 = n /\ n <= total
      BY <2>1
    <3>2. after[n] \in C[n]
      BY <1>6, <3>1
    <3>3. QED
      BY <1>4, <3>1, <3>2
  <2>2. QED
    BY <2>1
<1> HIDE DEF S
<1>7. Nat \subseteq S
  BY <1>5, <1>6, CountingUp
<1>8. total \in S /\ total <= total
  BY <1>7
<1>9. QED
  BY <1>1, <1>8 DEF S

\* A line longer than the cursor is emitted; another is a repeat.
LEMMA TakeFields ==
  ASSUME NEW c \in Cursors, NEW line \in Lines
  PROVE  LET d == Take(c, line) IN
         /\ line[2] <= c.lastSeen =>
              /\ d.lastSeen = c.lastSeen /\ d.cursorOf = c.cursorOf /\ d.emitted = c.emitted
              /\ d.repeats = c.repeats \cup {<<c.cursorOf, line>>}
              /\ d.gaps = c.gaps /\ d.excuse = c.excuse
         /\ ~(line[2] <= c.lastSeen) =>
              /\ d.lastSeen = line[2] /\ d.cursorOf = line[1]
              /\ d.emitted = Append(c.emitted, line) /\ d.repeats = c.repeats
              /\ d.gaps = IF c.cursorOf = line[1] /\ line[2] > c.lastSeen + 1
                            THEN c.gaps \cup {c.excuse} ELSE c.gaps
              /\ d.excuse = "none"
BY DEF Take, Cursors

\* The cursor takes the line it is ready for, and is ready for the next.
LEMMA TakeOne ==
  ASSUME NEW c, Good(c), NEW p \in Boots, NEW b \in Nat, NEW n \in Nat, <<p, n>> \in Lines,
         Ready(c, p, b, n)
  PROVE  LET d == Take(c, <<p, n>>) IN
         /\ Good(d) /\ Ready(d, p, b, n + 1)
         /\ \/ d.lastSeen = c.lastSeen /\ d.cursorOf = c.cursorOf /\ n <= c.lastSeen
            \/ d.lastSeen = n /\ d.cursorOf = p
<1> DEFINE line == <<p, n>>
           d == Take(c, line)
           old == Len(c.emitted)
<1>1. /\ c \in Cursors /\ c.emitted \in Seq(Lines) /\ old \in Nat /\ c.lastSeen \in Int
      /\ c.cursorOf \in Nat /\ p \in Nat \ {0} /\ line[1] = p /\ line[2] = n /\ line \in Lines
      /\ \A i \in 1..old : c.emitted[i] \in Lines
  BY LenProperties, ElementOfSeq DEF Good, Cursors, Boots
<1>2. \A i \in 1..old : c.emitted[i][1] \in Boots /\ c.emitted[i][1] \in Nat /\ c.emitted[i][2] \in Nat
  BY <1>1 DEF Lines, Boots
<1> HIDE DEF line
<1>3. CASE n <= c.lastSeen
  <2>1. /\ d.lastSeen = c.lastSeen /\ d.cursorOf = c.cursorOf /\ d.emitted = c.emitted
        /\ d.repeats = c.repeats \cup {<<c.cursorOf, line>>}
        /\ d.gaps = c.gaps /\ d.excuse = c.excuse
    BY <1>1, <1>3, TakeFields
  <2>2. c.cursorOf # 0
    BY <1>1, <1>3 DEF Good
  <2>3. d \in Cursors
    BY <1>1, <1>3, <2>2 DEF Take, Cursors, Boots
  <2> HIDE DEF d
  <2>4. ASSUME c.cursorOf = p
        PROVE  IsRepeat(c, <<p, line>>)
    <3>1. Accounted(c, line)
      BY <1>1, <1>3, <2>4 DEF Ready, line
    <3>2. HasShown(c, <<p, c.lastSeen>>)
      BY <2>2, <2>4 DEF Good
    <3>3. QED
      BY <1>1, <1>3, <3>1, <3>2 DEF IsRepeat, HasShown
  <2>5. \A l : HasShown(d, l) = HasShown(c, l) /\ Accounted(d, l) = Accounted(c, l)
    <3>1. \A l : HasShown(d, l) = HasShown(c, l)
      BY <2>1 DEF HasShown
    <3>2. \A l : IsOlder(d, l) = IsOlder(c, l)
      BY <2>1 DEF IsOlder
    <3>3. QED
      BY <3>1, <3>2 DEF Accounted
  <2>6. Good(d)
    <3>1. \A r \in d.repeats : r[1] = r[2][1] => IsRepeat(d, r)
      <4>1. ASSUME NEW r \in d.repeats, r[1] = r[2][1]
            PROVE  IsRepeat(d, r)
        <5>1. CASE r \in c.repeats
          <6>1. IsRepeat(c, r)
            BY <4>1, <5>1 DEF Good
          <6>2. QED
            BY <2>1, <2>5, <6>1 DEF IsRepeat
        <5>2. CASE r = <<c.cursorOf, line>>
          <6>1. r = <<p, line>>
            BY <1>1, <4>1, <5>2
          <6>2. IsRepeat(c, <<p, line>>)
            BY <2>4, <4>1, <5>2, <1>1
          <6>3. QED
            BY <2>1, <2>5, <6>1, <6>2 DEF IsRepeat
        <5>3. QED
          BY <2>1, <4>1, <5>1, <5>2
      <4>2. QED
        BY <4>1
    <3>2. InOrder(d.emitted) /\ "none" \notin d.gaps
      BY <2>1 DEF Good
    <3>3. IF d.cursorOf = 0 THEN d.lastSeen = -1
                            ELSE d.lastSeen \in Nat /\ HasShown(d, <<d.cursorOf, d.lastSeen>>)
      BY <2>1, <2>5 DEF Good
    <3>4. QED
      BY <2>3, <3>1, <3>2, <3>3 DEF Good
  <2>7. Ready(d, p, b, n + 1)
    <3>1. Behind(d, p)
      BY <2>1 DEF Ready, Behind
    <3>2. ASSUME c.cursorOf = p
          PROVE  /\ \A k \in b..c.lastSeen : Accounted(d, <<p, k>>)
                 /\ n + 1 <= c.lastSeen + 1 /\ b <= n + 1
      <4>1. \A k \in b..c.lastSeen : Accounted(c, <<p, k>>)
        BY <3>2 DEF Ready
      <4>2. b <= n
        BY <1>3, <3>2 DEF Ready
      <4>3. QED
        BY <1>1, <1>3, <2>5, <4>1, <4>2
    <3>3. QED
      BY <1>1, <2>1, <3>1, <3>2 DEF Ready
  <2>8. QED
    BY <1>3, <2>1, <2>6, <2>7 DEF line, d
<1>4. CASE ~(n <= c.lastSeen)
  <2>1. /\ d.lastSeen = n /\ d.cursorOf = p /\ d.emitted = Append(c.emitted, line)
        /\ d.repeats = c.repeats /\ d.excuse = "none"
        /\ d.gaps = IF c.cursorOf = p /\ n > c.lastSeen + 1
                      THEN c.gaps \cup {c.excuse} ELSE c.gaps
    BY <1>1, <1>4, TakeFields
  <2>2. /\ d.emitted \in Seq(Lines) /\ Len(d.emitted) = old + 1 /\ d.emitted[old + 1] = line
        /\ \A i \in 1..old : d.emitted[i] = c.emitted[i]
    BY <1>1, <2>1, AppendProperties
  <2>3. d \in Cursors
    <3>1. Append(c.emitted, line) \in Seq(Lines)
      BY <2>1, <2>2
    <3>2. QED
      BY <1>1, <1>4, <3>1 DEF Take, Cursors, Excuses
  <2> HIDE DEF d
  <2>4. \A i \in 1..(old + 1) : i \in 1..old \/ i = old + 1
    BY <1>1
  <2>5. \A i \in 1..old : i \in 1..(old + 1)
    BY <1>1
  <2>6. \A i \in 1..old : Before(c.emitted[i], line)
    BY <1>1, <1>2, <1>4 DEF Ready, Behind, Before
  <2>7. InOrder(d.emitted)
    <3>1. ASSUME NEW i \in 1..(old + 1), NEW j \in 1..(old + 1), i < j
          PROVE  Before(d.emitted[i], d.emitted[j])
      <4>1. i \in 1..old /\ d.emitted[i] = c.emitted[i]
        <5>1. i \in 1..old
          BY <1>1, <3>1
        <5>2. QED
          BY <2>2, <5>1
      <4>2. CASE j \in 1..old
        <5>1. d.emitted[j] = c.emitted[j]
          BY <2>2, <4>2
        <5>2. Before(c.emitted[i], c.emitted[j])
          BY <3>1, <4>1, <4>2 DEF Good, InOrder
        <5>3. QED
          BY <4>1, <5>1, <5>2
      <4>3. CASE j = old + 1
        BY <2>2, <2>6, <4>1, <4>3
      <4>4. QED
        BY <2>4, <4>2, <4>3
    <3>2. QED
      BY <2>2, <3>1 DEF InOrder
  <2>8. HasShown(d, line)
    BY <1>1, <2>2 DEF HasShown
  <2>9. ASSUME NEW l, HasShown(c, l)
        PROVE  HasShown(d, l)
    BY <2>2, <2>5, <2>9 DEF HasShown
  <2>10. ASSUME NEW r \in d.repeats, r[1] = r[2][1]
         PROVE  IsRepeat(d, r)
    <3>1. r \in c.repeats /\ IsRepeat(c, r) /\ r[2][2] \in Nat
      BY <1>1, <2>1, <2>10 DEF Good, Cursors, Lines
    <3>2. PICK i \in 1..old : c.emitted[i][1] = r[1] /\ r[2][2] <= c.emitted[i][2]
      BY <3>1 DEF IsRepeat
    <3>3. i \in 1..Len(d.emitted) /\ d.emitted[i] = c.emitted[i]
      BY <2>2, <2>5, <3>2
    <3>4. ASSUME IsOlder(c, r[2])
          PROVE  IsOlder(d, r[2])
      <4>1. line[1] = r[2][1] => r[2][2] < line[2]
        BY <1>1, <1>2, <2>6, <2>10, <3>1, <3>2 DEF Before
      <4>2. QED
        BY <2>2, <2>4, <3>4, <4>1 DEF IsOlder
    <3>5. Accounted(d, r[2])
      BY <2>9, <3>1, <3>4 DEF IsRepeat, Accounted
    <3>6. QED
      BY <3>2, <3>3, <3>5 DEF IsRepeat
  <2>11. "none" \notin d.gaps
    BY <2>1 DEF Good, Ready
  <2>12. Good(d)
    BY <1>1, <2>1, <2>2, <2>3, <2>7, <2>8, <2>10, <2>11 DEF Good, line
  <2>13. Behind(d, p)
    BY <1>1, <1>2, <1>4, <2>1, <2>2, <2>4 DEF Ready, Behind
  <2>14. ASSUME NEW k \in b..n
         PROVE  Accounted(d, <<p, k>>)
    <3>1. k \in Nat /\ b <= k /\ k <= n /\ <<p, k>>[1] = p /\ <<p, k>>[2] = k
      BY <2>14
    <3>2. CASE k = n
      BY <2>8, <3>2 DEF Accounted, line
    <3>3. ASSUME k < n, IsOlder(c, <<p, k>>)
          PROVE  IsOlder(d, <<p, k>>)
      BY <1>1, <2>2, <2>4, <3>1, <3>3 DEF IsOlder
    <3>4. CASE k < n /\ c.cursorOf = p
      <4>1. k <= c.lastSeen
        BY <1>1, <1>4, <3>1, <3>4 DEF Ready
      <4>2. Accounted(c, <<p, k>>)
        BY <1>1, <3>1, <3>4, <4>1 DEF Ready
      <4>3. QED
        BY <2>9, <3>3, <3>4, <4>2 DEF Accounted
    <3>5. CASE k < n /\ c.cursorOf # p
      <4>1. \A i \in 1..old : c.emitted[i][1] # p
        BY <1>1, <1>2, <3>5 DEF Ready, Behind
      <4>2. IsOlder(c, <<p, k>>)
        BY <3>1, <4>1 DEF IsOlder
      <4>3. QED
        BY <3>3, <3>5, <4>2 DEF Accounted
    <3>6. QED
      BY <3>1, <3>2, <3>4, <3>5
  <2>15. Ready(d, p, b, n + 1)
    BY <1>1, <2>1, <2>13, <2>14 DEF Ready
  <2>16. QED
    BY <2>1, <2>12, <2>15 DEF line, d
<1>5. QED
  BY <1>3, <1>4

\* And so it takes a stretch, within any bound that the stretch is within.
LEMMA TakeStretch ==
  ASSUME NEW c, Good(c), NEW p \in Boots, NEW b \in Nat, NEW n \in Nat, NEW m \in Nat,
         NEW lines \in Seq(Lines), Stretch(lines, p, n), Ready(c, p, b, n),
         Within(c, p, m), lines # <<>> => n + Len(lines) <= m
  PROVE  LET d == TakeAll(c, lines) IN
         /\ Good(d) /\ Ready(d, p, b, n + Len(lines)) /\ Within(d, p, m)
         /\ IF lines = <<>> THEN d = c ELSE n + Len(lines) <= d.lastSeen + 1
<1> DEFINE total == Len(lines)
           Taken(d, k) == /\ Good(d) /\ Ready(d, p, b, n + k) /\ Within(d, p, m)
                          /\ IF k = 0 THEN d = c ELSE n + k <= d.lastSeen + 1
           C == [k \in 0..total |-> {d \in Cursors : Taken(d, k)}]
           d == TakeAll(c, lines)
<1>1. total \in Nat /\ (lines = <<>> <=> total = 0) /\ \A k \in 1..total : lines[k] \in Lines
  BY LenProperties, ElementOfSeq, EmptySeq
<1>2. c \in C[0]
  BY <1>1 DEF Good
<1>3. ASSUME NEW k \in 1..total, NEW e \in C[k - 1]
      PROVE  Take(e, lines[k]) \in C[k]
  <2> DEFINE f == Take(e, lines[k])
  <2>1. k - 1 \in 0..total /\ k \in 0..total /\ k - 1 \in Nat /\ k # 0 /\ n + (k - 1) + 1 = n + k
        /\ n + (k - 1) \in Nat /\ n + (k - 1) < m /\ n + k - 1 = n + (k - 1)
    BY <1>1
  <2>2. e \in Cursors /\ Good(e) /\ Ready(e, p, b, n + (k - 1)) /\ Within(e, p, m)
    BY <1>3, <2>1
  <2>3. lines[k] = <<p, n + (k - 1)>> /\ <<p, n + (k - 1)>> \in Lines
    BY <1>1, <2>1 DEF Stretch
  <2>4. /\ Good(f) /\ Ready(f, p, b, n + (k - 1) + 1)
        /\ \/ f.lastSeen = e.lastSeen /\ f.cursorOf = e.cursorOf /\ n + (k - 1) <= e.lastSeen
           \/ f.lastSeen = n + (k - 1) /\ f.cursorOf = p
    BY <2>1, <2>2, <2>3, TakeOne
  <2> HIDE DEF f
  <2>5. Within(f, p, m)
    BY <2>1, <2>2, <2>4 DEF Within
  <2>6. f \in Cursors /\ f.lastSeen \in Int /\ e.lastSeen \in Int
    BY <2>2, <2>4 DEF Good, Cursors
  <2>7. n + k <= f.lastSeen + 1
    BY <2>1, <2>4, <2>6
  <2>8. Taken(f, k)
    BY <2>1, <2>4, <2>5, <2>7
  <2> HIDE DEF Taken
  <2>9. QED
    BY <2>1, <2>6, <2>8 DEF f
<1>4. d \in C[total]
  <2> HIDE DEF C
  <2>1. QED
    BY <1>1, <1>2, <1>3, TakeByTake
<1>5. Taken(d, total)
  <2> HIDE DEF Taken, d
  <2>1. QED
    BY <1>1, <1>4
<1>6. QED
  BY <1>1, <1>5
-----------------------------------------------------------------------------
(***************************************************************************)
(* Stretches, and what the cursor's records are to the variables.          *)
(***************************************************************************)

LEMMA StretchAppend ==
  ASSUME NEW S, NEW s \in Seq(S), NEW p, NEW n \in Nat, Stretch(s, p, n),
         <<p, n + Len(s)>> \in S
  PROVE  /\ Append(s, <<p, n + Len(s)>>) \in Seq(S)
         /\ Len(Append(s, <<p, n + Len(s)>>)) = Len(s) + 1
         /\ Stretch(Append(s, <<p, n + Len(s)>>), p, n)
<1> DEFINE e == <<p, n + Len(s)>>
           all == Append(s, e)
           k == Len(s)
<1>1. k \in Nat /\ e = <<p, n + k>>
  BY LenProperties
<1>2. /\ all \in Seq(S) /\ Len(all) = k + 1 /\ all[k + 1] = e
      /\ \A i \in 1..k : all[i] = s[i]
  BY AppendProperties
<1> HIDE DEF e, all, k
<1>3. ASSUME NEW i \in 1..(k + 1)
      PROVE  all[i] = <<p, n + i - 1>>
  <2>1. CASE i = k + 1
    <3>1. n + i - 1 = n + k
      BY <1>1, <2>1
    <3>2. QED
      BY <1>1, <1>2, <2>1, <3>1
  <2>2. CASE i # k + 1
    <3>1. i \in 1..k
      BY <1>1, <2>2
    <3>2. s[i] = <<p, n + i - 1>>
      BY <3>1 DEF Stretch, k
    <3>3. QED
      BY <1>2, <3>1, <3>2
  <2>3. QED
    BY <2>1, <2>2
<1>4. QED
  BY <1>2, <1>3 DEF Stretch, e, all, k

LEMMA StretchTail ==
  ASSUME NEW S, NEW s \in Seq(S), s # <<>>, NEW p, NEW n \in Nat, Stretch(s, p, n)
  PROVE  /\ Head(s) = <<p, n>> /\ <<p, n>> \in S
         /\ Tail(s) \in Seq(S) /\ Len(Tail(s)) = Len(s) - 1
         /\ Stretch(Tail(s), p, n + 1)
<1>1. Len(s) \in Nat \ {0}
  BY EmptySeq
<1>2. /\ Tail(s) \in Seq(S) /\ Len(Tail(s)) = Len(s) - 1 /\ Head(s) \in S
      /\ \A i \in 1..Len(Tail(s)) : Tail(s)[i] = s[i + 1]
  BY HeadTailProperties
<1>3. Head(s) = <<p, n>>
  <2>1. Head(s) = s[1] /\ 1 \in 1..Len(s) /\ n + 1 - 1 = n
    BY <1>1
  <2>2. QED
    BY <2>1 DEF Stretch
<1>4. ASSUME NEW i \in 1..Len(Tail(s))
      PROVE  Tail(s)[i] = <<p, n + 1 + i - 1>>
  <2>1. i + 1 \in 1..Len(s) /\ n + (i + 1) - 1 = n + 1 + i - 1
    BY <1>1, <1>2
  <2>2. s[i + 1] = <<p, n + (i + 1) - 1>>
    BY <2>1 DEF Stretch
  <2>3. QED
    BY <1>2, <2>1, <2>2
<1>5. QED
  BY <1>2, <1>3, <1>4 DEF Stretch

LEMMA NoStretch ==
  ASSUME NEW p, NEW n, NEW S
  PROVE  Stretch(<<>>, p, n) /\ Len(<<>>) = 0 /\ <<>> \in Seq(S)
BY EmptySeq DEF Stretch

\* A query is answered with a stretch of the log.
LEMMA LogIsStretch ==
  ASSUME Types, NEW first \in Nat, NEW last \in Int, first - 1 <= last, last < size
  PROVE  /\ Log(first, last) \in Seq(Lines)
         /\ Len(Log(first, last)) = last - first + 1
         /\ Stretch(Log(first, last), boot, first)
<1> DEFINE k == last - first + 1
<1>1. k \in Nat
  OBVIOUS
<1>2. \A i \in 1..k : <<boot, first + i - 1>> \in Lines
  <2>1. MaxLines[boot] \in Nat /\ size <= MaxLines[boot] /\ boot \in Boots /\ size \in Nat
    BY StreamAssumption DEF Types, Boots
  <2>2. ASSUME NEW i \in 1..k
        PROVE  first + i - 1 \in Nat /\ first + i - 1 < MaxLines[boot]
    BY <1>1, <2>1
  <2>3. QED
    BY <2>1, <2>2 DEF Lines
<1> HIDE DEF k
<1>3. /\ Log(first, last) = [i \in 1..k |-> <<boot, first + i - 1>>]
  BY DEF Log, k
<1>4. Log(first, last) \in Seq(Lines) /\ Len(Log(first, last)) = k
  <2>1. Log(first, last) \in [1..k -> Lines] /\ DOMAIN Log(first, last) = 1..k
    BY <1>2, <1>3
  <2>2. Log(first, last) \in Seq(Lines)
    BY <1>1, <2>1, SeqDef
  <2>3. Len(Log(first, last)) \in Nat /\ 1..Len(Log(first, last)) = 1..k
    BY <2>1, <2>2, LenProperties
  <2> DEFINE m == Len(Log(first, last))
  <2>4. m = k
    <3> HIDE DEF m
    <3>1. m \in Nat /\ 1..m = 1..k
      BY <2>3 DEF m
    <3>2. (k > m => k \in 1..m) /\ (m > k => m \in 1..k)
      BY <1>1, <3>1
    <3>3. QED
      BY <1>1, <3>1, <3>2
  <2>5. QED
    BY <2>2, <2>4
<1>5. QED
  BY <1>1, <1>3, <1>4 DEF Stretch, k

LEMMA Becoming ==
  ASSUME NEW c \in Cursors, Becomes(c)
  PROVE  Cursor' = c
BY DEF Becomes, Cursor, Cursors

LEMMA CursorFields ==
  /\ Cursor.lastSeen = lastSeen /\ Cursor.cursorOf = cursorOf /\ Cursor.emitted = emitted
  /\ Cursor.repeats = repeats /\ Cursor.gaps = gaps /\ Cursor.excuse = excuse
BY DEF Cursor

\* The excuse is for the next hole only.
LEMMA Excused ==
  ASSUME NEW c, Good(c), NEW x \in Excuses
  PROVE  LET d == [c EXCEPT !.excuse = x] IN
         /\ Good(d) /\ d.excuse = x /\ d.lastSeen = c.lastSeen /\ d.cursorOf = c.cursorOf
         /\ \A p : Behind(d, p) = Behind(c, p)
         /\ \A line : Accounted(d, line) = Accounted(c, line)
<1> DEFINE d == [c EXCEPT !.excuse = x]
<1>1. c \in Cursors
  BY DEF Good
<1>2. /\ d \in Cursors /\ d.excuse = x /\ d.lastSeen = c.lastSeen /\ d.cursorOf = c.cursorOf
      /\ d.emitted = c.emitted /\ d.repeats = c.repeats /\ d.gaps = c.gaps
  BY <1>1 DEF Cursors
<1> HIDE DEF d
<1>3. \A line : HasShown(d, line) = HasShown(c, line)
  BY <1>2 DEF HasShown
<1>4. \A line : IsOlder(d, line) = IsOlder(c, line)
  BY <1>2 DEF IsOlder
<1>5. \A line : Accounted(d, line) = Accounted(c, line)
  BY <1>3, <1>4 DEF Accounted
<1>6. \A p : Behind(d, p) = Behind(c, p)
  BY <1>2 DEF Behind
<1>7. \A r : IsRepeat(d, r) = IsRepeat(c, r)
  BY <1>2, <1>5 DEF IsRepeat
<1>8. \A r \in d.repeats : r[1] = r[2][1] => IsRepeat(d, r)
  <2>1. \A r \in c.repeats : r[1] = r[2][1] => IsRepeat(c, r)
    BY DEF Good
  <2>2. QED
    BY <1>2, <1>7, <2>1
<1>9. Good(d)
  BY <1>2, <1>3, <1>8 DEF Good
<1>10. QED
  BY <1>2, <1>5, <1>6, <1>9 DEF d

\* What has been taken cannot come again.
LEMMA ReadyLater ==
  ASSUME NEW c, NEW p, NEW b \in Nat, NEW n \in Nat, b <= n, c.lastSeen \in Int,
         Ready(c, p, b, n)
  PROVE  Ready(c, p, n, n)
<1>1. ASSUME c.cursorOf = p, NEW k \in n..c.lastSeen
      PROVE  Accounted(c, <<p, k>>)
  <2>1. k \in b..c.lastSeen
    OBVIOUS
  <2>2. QED
    BY <1>1, <2>1 DEF Ready
<1>2. QED
  BY <1>1 DEF Ready
-----------------------------------------------------------------------------
(***************************************************************************)
(* The variables' types.                                                   *)
(***************************************************************************)

\* A gap query is answered with the log from the line after the cursor on.
LEMMA FromIs ==
  ASSUME Types, NEW first \in Nat
  PROVE  LET answer == From(first, backfillLines) IN
         /\ answer.entries \in Seq(Lines) /\ answer.lastLine \in Nat
         /\ Stretch(answer.entries, boot, first)
         /\ IF answer.entries = <<>> THEN size <= first ELSE first + Len(answer.entries) <= size
         /\ answer.lastLine <= first + Len(answer.entries)
         /\ Len(answer.entries) # backfillLines => answer.lastLine = size
         /\ first <= size => first <= answer.lastLine
<1> DEFINE last == IF first + backfillLines < size THEN first + backfillLines - 1 ELSE size - 1
           answer == From(first, backfillLines)
<1>1. size \in Nat /\ backfillLines \in Nat \ {0}
  BY StreamAssumption DEF Types, Boots
<1>2. CASE first < size
  <2>1. last \in Int /\ first <= last /\ last < size /\ last + 1 \in Nat
        /\ (last = first + backfillLines - 1 \/ last = size - 1)
    BY <1>1, <1>2
  <2>2. answer = [entries |-> Log(first, last), lastLine |-> last + 1]
    BY <1>2 DEF From
  <2> HIDE DEF last, answer
  <2>3. /\ Log(first, last) \in Seq(Lines) /\ Len(Log(first, last)) = last - first + 1
        /\ Stretch(Log(first, last), boot, first)
    <3>1. first - 1 <= last
      BY <2>1
    <3>2. QED
      BY <2>1, <3>1, LogIsStretch
  <2>4. answer.entries = Log(first, last) /\ answer.lastLine = last + 1
    BY <2>2
  <2>5. Log(first, last) # <<>>
    <3>1. Len(Log(first, last)) # 0
      BY <2>1, <2>3
    <3>2. QED
      BY <3>1, EmptySeq
  <2>6. QED
    BY <1>1, <2>1, <2>3, <2>4, <2>5 DEF answer
<1>3. CASE ~(first < size)
  <2>1. answer = [entries |-> <<>>, lastLine |-> size]
    BY <1>3 DEF From
  <2>2. answer.entries = <<>> /\ answer.lastLine = size
    BY <2>1
  <2> HIDE DEF answer
  <2>3. QED
    BY <1>1, <1>3, <2>2, NoStretch DEF answer
<1>4. QED
  BY <1>2, <1>3

\* A cold start is answered with the end of the log.
LEMMA NewestIs ==
  ASSUME Types
  PROVE  LET answer == Newest(seedLines) IN
         /\ answer.entries \in Seq(Lines) /\ answer.lastLine = size
         /\ \E first \in Nat : /\ Stretch(answer.entries, boot, first)
                               /\ first + Len(answer.entries) = size
                               /\ answer.entries = <<>> => first = 0
<1> DEFINE first == IF size > seedLines THEN size - seedLines ELSE 0
           answer == Newest(seedLines)
<1>1. size \in Nat /\ seedLines \in Nat \ {0}
  BY StreamAssumption DEF Types, Boots
<1>2. first \in Nat /\ first <= size /\ (first = size => first = 0)
  BY <1>1
<1>3. answer.entries = Log(first, size - 1) /\ answer.lastLine = size
  BY DEF Newest
<1> HIDE DEF first, answer
<1>4. /\ Log(first, size - 1) \in Seq(Lines) /\ Len(Log(first, size - 1)) = size - 1 - first + 1
      /\ Stretch(Log(first, size - 1), boot, first)
  <2>1. size - 1 \in Int /\ first - 1 <= size - 1 /\ size - 1 < size
    BY <1>1, <1>2
  <2>2. QED
    BY <1>2, <2>1, LogIsStretch
<1>5. first + Len(Log(first, size - 1)) = size
  BY <1>1, <1>2, <1>4
<1>6. Log(first, size - 1) = <<>> => first = 0
  <2>1. ASSUME Log(first, size - 1) = <<>>
        PROVE  first = 0
    <3>1. Len(Log(first, size - 1)) = 0
      BY <2>1, EmptySeq
    <3>2. QED
      BY <1>1, <1>2, <1>5, <3>1
  <2>2. QED
    BY <2>1
<1>7. QED
  BY <1>2, <1>3, <1>4, <1>5, <1>6 DEF answer

LEMMA TypesStep == Types /\ Good(Cursor) /\ [Next]_vars => Types'
<1> SUFFICES ASSUME Types, Good(Cursor), [Next]_vars
             PROVE  Types'
  OBVIOUS
<1> USE DEF Types, Locations, Backfilling
<1>0. /\ <<>> \in Seq(Lines) /\ NoPage.entries = <<>> /\ NoPage.lastLine = 0
      /\ lastSeen \in Nat \cup {-1}
      /\ size \in Nat /\ boot \in Nat /\ MaxBoots \in Nat /\ MaxLines[boot] \in Nat
  BY EmptySeq, CursorFields, StreamAssumption DEF NoPage, Good, Cursors, Boots
<1>1. CASE Logs
  <2>1. <<boot, size>> \in Lines
    BY <1>0, <1>1 DEF Logs, Lines
  <2>2. wire' \in Seq(Lines)
    BY <1>1, <2>1, AppendProperties DEF Logs
  <2>3. size' \in 0..MaxLines[boot]
    BY <1>0, <1>1 DEF Logs
  <2>4. QED
    BY <1>1, <2>2, <2>3 DEF Logs
<1>2. CASE ConnectionEnds
  BY <1>0, <1>2 DEF ConnectionEnds, server, cursor
<1>3. CASE GoesDown
  BY <1>0, <1>3 DEF GoesDown, cursor
<1>4. CASE Restarts
  <2>1. boot' \in Boots /\ size' \in 0..MaxLines[boot']
    <3>1. boot + 1 \in Boots
      BY <1>0, <1>4 DEF Restarts, Boots
    <3>2. MaxLines[boot + 1] \in Nat
      BY <3>1, StreamAssumption DEF Boots
    <3>3. QED
      BY <1>4, <3>1, <3>2 DEF Restarts
  <2>2. QED
    BY <1>4, <2>1 DEF Restarts, stream, cursor
<1>5. CASE Deliver
  <2>1. wire # <<>> /\ wire' = Tail(wire)
        /\ buffered' \in {buffered, Append(buffered, Head(wire))}
    BY <1>5 DEF Deliver
  <2>2. /\ UNCHANGED <<server, connected, pc, page>>
        /\ pc = "live" => buffered' = buffered
    BY <1>5 DEF Deliver
  <2>3. Head(wire) \in Lines /\ Tail(wire) \in Seq(Lines)
    BY <2>1, HeadTailProperties
  <2>4. Append(buffered, Head(wire)) \in Seq(Lines)
    BY <2>3, AppendProperties
  <2>5. QED
    BY <2>1, <2>2, <2>3, <2>4 DEF server
<1>6. CASE Open
  BY <1>0, <1>6 DEF Open, server, cursor
<1>7. CASE FetchAnswered
  <2>1. page'.entries \in Seq(Lines) /\ page'.lastLine \in Nat
    <3>1. CASE lastSeen < 0
      BY <1>0, <1>7, <3>1, NewestIs DEF FetchAnswered
    <3>2. CASE ~(lastSeen < 0)
      <4>1. lastSeen + 1 \in Nat
        BY <1>0, <3>2
      <4>2. QED
        BY <1>7, <3>2, <4>1, FromIs DEF FetchAnswered
    <3>3. QED
      BY <3>1, <3>2
  <2>2. QED
    BY <1>7, <2>1 DEF FetchAnswered, server, stream, cursor
<1>8. CASE Reseed
  <2>1. /\ UNCHANGED <<server, stream, buffered>> /\ page' = NoPage /\ pc' = "reseeding"
        /\ pc = "answered"
    BY <1>8 DEF Reseed
  <2>2. page'.entries \in Seq(Lines) /\ page'.lastLine \in Nat
    BY <1>0, <2>1 DEF NoPage
  <2>3. QED
    BY <2>1, <2>2 DEF server, stream
<1>9. CASE ReseedAnswered
  <2>1. page'.entries \in Seq(Lines) /\ page'.lastLine \in Nat
    BY <1>0, <1>9, NewestIs DEF ReseedAnswered
  <2>2. QED
    BY <1>9, <2>1 DEF ReseedAnswered, server, stream, cursor
<1>10. CASE Settle
  <2>1. /\ UNCHANGED <<server, stream>> /\ buffered' = <<>> /\ page' = NoPage /\ pc' = "live"
        /\ pc \in {"answered", "reseeded"}
    BY <1>10 DEF Settle
  <2>2. page'.entries \in Seq(Lines) /\ page'.lastLine \in Nat
    BY <1>0, <2>1 DEF NoPage
  <2>3. QED
    BY <1>0, <2>1, <2>2 DEF server, stream
<1>11. CASE BackfillFails
  <2>1. /\ UNCHANGED <<server, stream, page>> /\ buffered' = <<>> /\ pc' = "live"
        /\ pc \in {"asking", "reseeding"}
    BY <1>11 DEF BackfillFails
  <2>2. QED
    BY <1>0, <2>1 DEF server, stream
<1>12. CASE Disconnected
  BY <1>12 DEF Disconnected, server, stream, cursor
<1>13. CASE UNCHANGED vars
  BY <1>13 DEF vars, server, stream
<1>14. QED
  BY <1>1, <1>2, <1>3, <1>4, <1>5, <1>6, <1>7, <1>8, <1>9, <1>10, <1>11, <1>12, <1>13
     DEF Next, StreamerStep
-----------------------------------------------------------------------------
(***************************************************************************)
(* Every step keeps the stream sound.                                      *)
(***************************************************************************)

Promised(a) == pc \in {"answered", "reseeded"} => \E first \in Nat : Fits(first, a)

LEMMA Facts ==
  ASSUME Types, Good(Cursor)
  PROVE  /\ size \in Nat /\ boot \in Nat /\ MaxBoots \in Nat /\ boot \in Boots
         /\ Len(wire) \in Nat /\ Len(buffered) \in Nat
         /\ lastSeen \in Nat \cup {-1} /\ lastSeen \in Int /\ cursorOf \in Nat
         /\ Cursor \in Cursors /\ Len(emitted) \in Nat
         /\ \A i \in 1..Len(emitted) : emitted[i][1] \in Nat
         /\ lastSeen = -1 <=> cursorOf = 0
<1>1. Cursor \in Cursors /\ emitted \in Seq(Lines)
  BY CursorFields DEF Good, Cursors
<1>2. Len(emitted) \in Nat /\ \A i \in 1..Len(emitted) : emitted[i] \in Lines
  BY <1>1, LenProperties, ElementOfSeq
<1>3. \A i \in 1..Len(emitted) : emitted[i][1] \in Nat
  BY <1>2 DEF Lines, Boots
<1>4. lastSeen \in Nat \cup {-1} /\ cursorOf \in Nat
  BY <1>1, CursorFields DEF Cursors, Boots
<1>5. lastSeen = -1 <=> cursorOf = 0
  BY <1>4, CursorFields DEF Good
<1>6. QED
  BY <1>1, <1>2, <1>3, <1>4, <1>5, LenProperties, StreamAssumption DEF Types, Boots

\* Nothing came of a later process than the present one.
LEMMA NothingLater ==
  ASSUME Types, Good(Cursor), Behind(Cursor, boot), NEW p \in Nat, boot < p
  PROVE  Behind(Cursor, p) /\ cursorOf # p
<1>1. \A i \in 1..Len(emitted) : emitted[i][1] < p
  BY Facts, CursorFields DEF Behind
<1>2. ASSUME cursorOf = p
      PROVE  FALSE
  <2>1. HasShown(Cursor, <<cursorOf, lastSeen>>)
    BY <1>2, Facts, CursorFields DEF Good
  <2>2. PICK i \in 1..Len(emitted) : emitted[i] = <<cursorOf, lastSeen>>
    BY <2>1, CursorFields DEF HasShown
  <2>3. QED
    BY <1>1, <1>2, <2>2
<1>3. QED
  BY <1>1, <1>2, CursorFields DEF Behind

\* The game server and its connection.
LEMMA ServerStep ==
  ASSUME Sound, Logs \/ ConnectionEnds \/ GoesDown \/ Restarts
  PROVE  /\ Cursor' = Cursor /\ Behind(Cursor, boot') /\ Within(Cursor, boot', size')
         /\ \E p \in Boots, a \in Nat : Flow(p, a)' /\ Promised(a)'
<1>1. Types /\ Good(Cursor) /\ Behind(Cursor, boot) /\ Within(Cursor, boot, size)
  BY DEF Sound
<1>2. PICK p \in Boots, a \in Nat : Flow(p, a) /\ Promised(a)
  BY DEF Sound, Promised
<1>3. /\ size \in Nat /\ boot \in Nat /\ Len(wire) \in Nat /\ Len(buffered) \in Nat
      /\ lastSeen \in Int /\ p \in Nat /\ wire \in Seq(Lines)
  BY <1>1, Facts DEF Types, Boots
<1>4. Cursor' = Cursor /\ lastSeen' = lastSeen /\ cursorOf' = cursorOf /\ excuse' = excuse
        /\ UNCHANGED <<pc, buffered, page>>
  BY DEF Logs, ConnectionEnds, GoesDown, Restarts, cursor, Cursor
<1>5. CASE Logs
  <2>1. boot' = boot /\ size' = size + 1 /\ connected' = connected /\ up
    BY <1>5 DEF Logs
  <2>2. Within(Cursor, boot', size')
    BY <1>1, <1>3, <2>1, CursorFields DEF Within
  <2>3. Promised(a)'
    <3>1. ASSUME NEW first \in Nat, Fits(first, a)
          PROVE  Fits(first, a)'
      <4>1. page.entries # <<>> => first + Len(page.entries) <= size + 1
        <5>1. pc \in Locations /\ Len(page.entries) \in Nat
          BY <1>1, LenProperties DEF Types
        <5> DEFINE k == Len(page.entries)
        <5>2. page.entries # <<>> => first + k <= size
          BY <3>1 DEF Fits
        <5> HIDE DEF k
        <5>3. first + k <= size => first + k <= size + 1
          BY <1>3, <5>1 DEF k
        <5>4. QED
          BY <5>2, <5>3 DEF k
      <4>2. QED
        BY <1>4, <2>1, <3>1, <4>1 DEF Fits, PageExcuse
    <3>2. QED
      BY <1>2, <1>4, <3>1 DEF Promised
  <2>4. Flow(p, a)'
    <3>1. CASE connected
      <4>1. p = boot /\ a + Len(buffered) + Len(wire) = size
        BY <1>2, <3>1 DEF Flow
      <4> DEFINE n == a + Len(buffered)
      <4>2. n \in Nat /\ n + Len(wire) = size /\ wire' = Append(wire, <<p, n + Len(wire)>>)
        BY <1>3, <1>5, <3>1, <4>1 DEF Logs
      <4>3. Stretch(wire, p, n)
        BY <1>2 DEF Flow
      <4>4. <<p, n + Len(wire)>> \in Lines
        BY <1>1, <1>3, <1>5, <4>1, <4>2, StreamAssumption DEF Logs, Lines
      <4> HIDE DEF n
      <4>5. Stretch(wire', p, n) /\ Len(wire') = Len(wire) + 1
        BY <1>3, <4>2, <4>3, <4>4, StretchAppend
      <4>6. n + Len(wire') = size'
        BY <1>3, <2>1, <4>2, <4>5
      <4>7. QED
        BY <1>2, <1>3, <1>4, <2>1, <4>1, <4>5, <4>6 DEF Flow, n, Within, Backfilling
    <3>2. CASE ~connected
      <4>1. wire' = wire
        BY <1>5, <3>2 DEF Logs
      <4>2. p = boot => a + Len(buffered) + Len(wire) <= size'
        <5> DEFINE m == a + Len(buffered) + Len(wire)
        <5>1. m \in Nat /\ (p = boot => m <= size)
          BY <1>2, <1>3 DEF Flow
        <5> HIDE DEF m
        <5>2. p = boot => m <= size'
          BY <1>3, <2>1, <5>1
        <5>3. QED
          BY <5>2 DEF m
      <4>3. QED
        BY <1>2, <1>4, <2>1, <3>2, <4>1, <4>2 DEF Flow, Backfilling
    <3>3. QED
      BY <3>1, <3>2
  <2>5. QED
    BY <1>1, <1>4, <2>1, <2>2, <2>3, <2>4
<1>6. CASE ConnectionEnds \/ GoesDown
  <2>1. boot' = boot /\ size' = size /\ ~connected' /\ wire' \in {wire, <<>>}
    BY <1>6 DEF ConnectionEnds, GoesDown, server
  <2>2. Promised(a)'
    BY <1>2, <1>4, <2>1 DEF Promised, Fits, PageExcuse
  <2>3. /\ Stretch(wire', p, a + Len(buffered))
        /\ p = boot => a + Len(buffered) + Len(wire') <= size
    <3>1. CASE wire' = wire
      BY <1>2, <3>1 DEF Flow
    <3>2. CASE wire' = <<>>
      <4>1. Len(wire') = 0 /\ Stretch(wire', p, a + Len(buffered))
        BY <3>2, NoStretch
      <4> DEFINE m == a + Len(buffered)
      <4>2. m \in Nat /\ (p = boot => m + Len(wire) <= size)
        BY <1>2, <1>3 DEF Flow
      <4> HIDE DEF m
      <4>3. p = boot => m + Len(wire') <= size
        BY <1>3, <4>1, <4>2
      <4>4. QED
        BY <4>1, <4>3 DEF m
    <3>3. QED
      BY <2>1, <3>1, <3>2
  <2>4. Flow(p, a)'
    BY <1>2, <1>4, <2>1, <2>3 DEF Flow, Backfilling
  <2>5. QED
    BY <1>1, <1>4, <2>1, <2>2, <2>4
<1>7. CASE Restarts
  <2>1. /\ boot' = boot + 1 /\ size' = 0 /\ connected' = connected /\ wire' = wire
        /\ ~connected /\ pc \in {"dialling", "live"}
    BY <1>1, <1>7 DEF Restarts, stream, Types
  <2>2. Behind(Cursor, boot') /\ cursorOf # boot'
    BY <1>1, <1>3, <2>1, NothingLater
  <2>3. Promised(a)'
    BY <1>4, <2>1 DEF Promised
  <2>4. p <= boot' /\ p # boot'
    BY <1>2, <1>3, <2>1 DEF Flow
  <2>5. Flow(p, a)'
    BY <1>2, <1>4, <2>1, <2>4 DEF Flow, Backfilling
  <2>6. QED
    BY <1>4, <2>2, <2>3, <2>5, CursorFields DEF Within
<1>8. QED
  BY <1>5, <1>6, <1>7

\* The steps of runOnce and of the scanner that leave the cursor alone.
LEMMA QuietStep ==
  ASSUME Sound,
         \/ Open \/ FetchAnswered \/ ReseedAnswered \/ Disconnected
         \/ Deliver /\ pc # "live"
  PROVE  /\ Cursor' = Cursor /\ UNCHANGED server
         /\ \E p \in Boots, a \in Nat : Flow(p, a)' /\ Promised(a)'
         /\ pc' \in {"reseeding", "reseeded"} => lastSeen' = -1
<1>1. Types /\ Good(Cursor) /\ Behind(Cursor, boot) /\ Within(Cursor, boot, size)
      /\ (pc \in {"reseeding", "reseeded"} => lastSeen = -1)
  BY DEF Sound
<1>2. PICK p \in Boots, a \in Nat : Flow(p, a) /\ Promised(a)
  BY DEF Sound, Promised
<1>3. /\ size \in Nat /\ boot \in Nat /\ boot # 0 /\ boot \in Boots
      /\ Len(wire) \in Nat /\ Len(buffered) \in Nat
      /\ lastSeen \in Nat \cup {-1} /\ p \in Nat /\ wire \in Seq(Lines)
      /\ (lastSeen = -1 <=> cursorOf = 0)
  BY <1>1, Facts DEF Types, Boots
<1>4. /\ Cursor' = Cursor /\ lastSeen' = lastSeen /\ cursorOf' = cursorOf /\ excuse' = excuse
      /\ boot' = boot /\ size' = size /\ up' = up
  BY DEF Open, FetchAnswered, ReseedAnswered, Disconnected, Deliver, cursor, server, Cursor
<1>5. CASE Open
  <2>1. /\ connected' = TRUE /\ wire' = <<>> /\ buffered' = <<>> /\ pc' = "asking"
    BY <1>5 DEF Open
  <2>2. Flow(boot, size)'
    <3>1. /\ Len(wire') = 0 /\ Len(buffered') = 0
          /\ Stretch(wire', boot, size + Len(buffered')) /\ Stretch(buffered', boot, size)
      BY <2>1, NoStretch
    <3>2. size + Len(buffered') + Len(wire') = size /\ boot <= boot /\ size <= size
      BY <1>3, <3>1
    <3>3. QED
      BY <1>1, <1>4, <2>1, <3>1, <3>2 DEF Flow, Backfilling
  <2>3. Promised(size)'
    BY <2>1 DEF Promised
  <2>4. QED
    BY <1>3, <1>4, <2>1, <2>2, <2>3 DEF server
<1>6. CASE FetchAnswered
  <2>1. /\ UNCHANGED <<stream, buffered>> /\ pc' = "answered" /\ pc = "asking"
    BY <1>6 DEF FetchAnswered
  <2>2. Flow(p, a)'
    BY <1>2, <1>4, <2>1 DEF Flow, Backfilling, stream
  <2>3. p = boot /\ a <= size
    <3>1. p = boot
      BY <1>2, <2>1 DEF Flow, Backfilling
    <3> DEFINE b == Len(buffered)
               w == Len(wire)
    <3>2. b \in Nat /\ w \in Nat /\ a + b + w <= size
      BY <1>2, <1>3, <3>1 DEF Flow
    <3> HIDE DEF b, w
    <3>3. QED
      BY <1>3, <3>1, <3>2
  <2>4. CASE lastSeen < 0
    <3>1. page' = Newest(seedLines) /\ lastSeen = -1
      BY <1>3, <1>6, <2>4 DEF FetchAnswered
    <3>2. PICK first \in Nat : /\ Stretch(page'.entries, boot, first)
                               /\ first + Len(page'.entries) = size
                               /\ page'.entries = <<>> => first = 0
                               /\ page'.lastLine = size
      BY <1>1, <3>1, NewestIs
    <3>3. Fits(first, a)'
      <4>1. /\ lastSeen < first /\ (page'.entries = <<>> => first = lastSeen + 1)
            /\ ~(lastSeen >= 0) /\ cursorOf # boot /\ size <= size
        BY <1>3, <3>1, <3>2
      <4>2. QED
        BY <1>4, <2>3, <3>2, <4>1 DEF Fits
    <3>4. QED
      BY <1>4, <2>1, <2>2, <3>3 DEF Promised, server
  <2>5. CASE ~(lastSeen < 0)
    <3>1. lastSeen + 1 \in Nat
      BY <1>3, <2>5
    <3>2. PICK first \in Nat : first = lastSeen + 1
      BY <3>1
    <3>3. page' = From(first, backfillLines) /\ lastSeen \in Nat
            /\ lastSeen < first /\ lastSeen >= 0
      BY <1>3, <1>6, <2>5, <3>2 DEF FetchAnswered
    <3>4. /\ page'.entries \in Seq(Lines) /\ page'.lastLine \in Nat
          /\ Stretch(page'.entries, boot, first)
          /\ page'.entries # <<>> => first + Len(page'.entries) <= size
          /\ page'.lastLine <= first + Len(page'.entries)
          /\ Len(page'.entries) # backfillLines => page'.lastLine = size
          /\ first <= size => first <= page'.lastLine
      BY <1>1, <3>3, <3>2, FromIs
    <3>5. cursorOf = boot => lastSeen <= page'.lastLine
      <4>1. cursorOf = boot => lastSeen < size
        BY <1>1, CursorFields DEF Within
      <4>2. QED
        BY <1>3, <3>3, <3>4, <3>2, <4>1
    <3>6. PageExcuse' = "none" => a <= page'.lastLine
      <4>1. PageExcuse' = "none" => Len(page'.entries) # backfillLines
        BY <1>4, <2>1, <3>3 DEF PageExcuse
      <4>2. QED
        BY <2>3, <3>4, <4>1
    <3>7. Fits(first, a)'
      BY <1>4, <3>3, <3>4, <3>5, <3>6, <3>2 DEF Fits
    <3>8. QED
      BY <1>4, <2>1, <2>2, <3>3, <3>7 DEF Promised, server
  <2>6. QED
    BY <2>4, <2>5
<1>7. CASE ReseedAnswered
  <2>1. /\ UNCHANGED <<stream, buffered>> /\ pc' = "reseeded" /\ pc = "reseeding"
        /\ page' = Newest(seedLines) /\ lastSeen = -1
    BY <1>1, <1>7 DEF ReseedAnswered
  <2>2. Flow(p, a)'
    BY <1>2, <1>4, <2>1 DEF Flow, Backfilling, stream
  <2>3. p = boot /\ a <= size
    <3>1. p = boot
      BY <1>2, <2>1 DEF Flow, Backfilling
    <3> DEFINE b == Len(buffered)
               w == Len(wire)
    <3>2. b \in Nat /\ w \in Nat /\ a + b + w <= size
      BY <1>2, <1>3, <3>1 DEF Flow
    <3> HIDE DEF b, w
    <3>3. QED
      BY <1>3, <3>1, <3>2
  <2>4. PICK first \in Nat : /\ Stretch(page'.entries, boot, first)
                             /\ first + Len(page'.entries) = size
                             /\ page'.entries = <<>> => first = 0
                             /\ page'.lastLine = size
    BY <1>1, <2>1, NewestIs
  <2>5. Fits(first, a)'
    <3>1. /\ lastSeen < first /\ (page'.entries = <<>> => first = lastSeen + 1)
          /\ ~(lastSeen >= 0) /\ cursorOf # boot /\ size <= size
      BY <1>3, <2>1, <2>4
    <3>2. QED
      BY <1>4, <2>3, <2>4, <3>1 DEF Fits
  <2>6. QED
    BY <1>4, <2>1, <2>2, <2>5 DEF Promised, server
<1>8. CASE Disconnected
  <2>1. /\ UNCHANGED <<stream, buffered, page>> /\ pc' = "dialling" /\ pc = "live"
    BY <1>8 DEF Disconnected
  <2>2. Flow(p, a)' /\ Promised(a)'
    BY <1>2, <1>4, <2>1 DEF Flow, Backfilling, stream, Promised
  <2>3. QED
    BY <1>4, <2>1, <2>2 DEF server
<1>9. CASE Deliver /\ pc # "live"
  <2>1. /\ wire # <<>> /\ wire' = Tail(wire) /\ buffered' = Append(buffered, Head(wire))
        /\ UNCHANGED <<connected, pc, page>>
    BY <1>9 DEF Deliver
  <2>2. pc # "dialling" /\ Backfilling /\ p = boot
    BY <1>1, <1>2, <1>9, <2>1 DEF Types, Flow, Backfilling
  <2> DEFINE n == a + Len(buffered)
  <2>3. n \in Nat /\ Stretch(buffered, p, a) /\ Stretch(wire, p, n) /\ buffered \in Seq(Lines)
    BY <1>1, <1>2, <1>3 DEF Flow, Types
  <2> HIDE DEF n
  <2>4. /\ Head(wire) = <<p, n>> /\ <<p, n>> \in Lines
        /\ Len(wire') = Len(wire) - 1 /\ Stretch(wire', p, n + 1)
    BY <1>3, <2>1, <2>3, StretchTail
  <2>5. Len(buffered') = Len(buffered) + 1 /\ Stretch(buffered', p, a)
    <3>1. /\ buffered' = Append(buffered, <<p, a + Len(buffered)>>)
          /\ <<p, a + Len(buffered)>> \in Lines
      BY <2>1, <2>4 DEF n
    <3>2. QED
      BY <2>3, <3>1, StretchAppend
  <2>6. a + Len(buffered') = n + 1 /\ a + Len(buffered') + Len(wire') = n + Len(wire)
    BY <1>3, <2>3, <2>4, <2>5 DEF n
  <2>7. /\ n + Len(wire) <= size
        /\ connected => n + Len(wire) = size
    BY <1>2, <2>2 DEF Flow, n
  <2>8. Flow(p, a)'
    BY <1>2, <1>4, <1>9, <2>1, <2>2, <2>4, <2>5, <2>6, <2>7 DEF Flow, Backfilling
  <2>9. Promised(a)'
    BY <1>2, <1>4, <2>1 DEF Promised, Fits, PageExcuse
  <2>10. QED
    BY <1>1, <1>4, <2>1, <2>8, <2>9 DEF server
<1>10. QED
  BY <1>5, <1>6, <1>7, <1>8, <1>9

\* A line on the wire, handed on at once.
LEMMA DeliverStep ==
  ASSUME Sound, Deliver, pc = "live"
  PROVE  /\ Good(Cursor') /\ Behind(Cursor', boot) /\ Within(Cursor', boot, size)
         /\ \E p \in Boots, a \in Nat : Flow(p, a)' /\ Promised(a)'
<1>1. Types /\ Good(Cursor) /\ Behind(Cursor, boot) /\ Within(Cursor, boot, size)
  BY DEF Sound
<1>2. PICK p \in Boots, a \in Nat : Flow(p, a)
  BY DEF Sound
<1>3. /\ size \in Nat /\ boot \in Nat /\ Len(wire) \in Nat /\ p \in Nat /\ wire \in Seq(Lines)
      /\ buffered = <<>> /\ Len(buffered) = 0 /\ p <= boot
  BY <1>1, <1>2, Facts, EmptySeq DEF Types, Flow, Boots, Backfilling
<1>4. /\ wire # <<>> /\ wire' = Tail(wire) /\ Becomes(Take(Cursor, Head(wire)))
      /\ UNCHANGED <<server, connected, pc, page, buffered>>
  BY DEF Deliver
<1>5. /\ Head(wire) = <<p, a>> /\ <<p, a>> \in Lines
      /\ Len(wire') = Len(wire) - 1 /\ Stretch(wire', p, a + 1)
  <2>1. Stretch(wire, p, a)
    <3>1. a + Len(buffered) = a
      BY <1>3
    <3>2. QED
      BY <1>2, <3>1 DEF Flow
  <2>2. QED
    BY <1>3, <1>4, <2>1, StretchTail
<1> DEFINE d == Take(Cursor, <<p, a>>)
<1>6. /\ Good(d) /\ Ready(d, p, a, a + 1)
      /\ \/ d.lastSeen = Cursor.lastSeen /\ d.cursorOf = Cursor.cursorOf
         \/ d.lastSeen = a /\ d.cursorOf = p
  BY <1>1, <1>2, <1>5, TakeOne DEF Flow
<1> HIDE DEF d
<1>7. Cursor' = d
  BY <1>4, <1>5, <1>6, Becoming DEF Good, d
<1>8. Ready(d, p, a + 1, a + 1)
  <2>1. d.lastSeen \in Int /\ a + 1 \in Nat /\ a <= a + 1
    BY <1>6 DEF Good, Cursors
  <2>2. QED
    BY <1>6, <2>1, ReadyLater
<1>9. Behind(d, boot)
  <2>1. CASE p = boot
    BY <1>8, <2>1 DEF Ready
  <2>2. CASE p # boot
    <3>1. p < boot
      BY <1>3, <2>2
    <3>2. \A i \in 1..Len(d.emitted) : d.emitted[i][1] \in Nat
      <4>1. d.emitted \in Seq(Lines)
        BY <1>6 DEF Good, Cursors
      <4>2. \A i \in 1..Len(d.emitted) : d.emitted[i] \in Lines
        BY <4>1, ElementOfSeq
      <4>3. QED
        BY <4>2 DEF Lines, Boots
    <3>3. QED
      BY <1>3, <1>8, <3>1, <3>2 DEF Ready, Behind
  <2>3. QED
    BY <2>1, <2>2
<1>10. a + 1 + Len(wire') = a + Len(buffered) + Len(wire) /\ a + 1 + Len(buffered) = a + 1
  BY <1>3, <1>5
<1>11. Within(d, boot, size)
  <2>1. p = boot => a < size
    <3>1. p = boot => a + Len(buffered) + Len(wire) <= size
      BY <1>2 DEF Flow
    <3>2. Len(wire') \in Nat
      BY <1>3, <1>4, <1>5, HeadTailProperties, LenProperties
    <3>3. QED
      BY <1>3, <1>10, <3>1, <3>2
  <2>2. QED
    BY <1>1, <1>6, <2>1 DEF Within
<1>12. Flow(p, a + 1)'
  <2>1. /\ Stretch(buffered', p, a + 1) /\ Stretch(wire', p, a + 1 + Len(buffered'))
        /\ a + 1 + Len(buffered') + Len(wire') = a + Len(buffered) + Len(wire)
    BY <1>3, <1>4, <1>5, <1>10, NoStretch
  <2>2. /\ p = boot => a + Len(buffered) + Len(wire) <= size
        /\ connected => p = boot /\ a + Len(buffered) + Len(wire) = size
    BY <1>2 DEF Flow
  <2>3. Behind(d, p)
    BY <1>8 DEF Ready
  <2>4. QED
    BY <1>3, <1>4, <1>7, <1>8, <2>1, <2>2, <2>3 DEF Flow, Backfilling, server
<1>13. Promised(a + 1)'
  BY <1>4 DEF Promised
<1>14. a + 1 \in Nat
  OBVIOUS
<1>15. QED
  BY <1>6, <1>7, <1>9, <1>11, <1>12, <1>13, <1>14

\* A log that restarted is of a process nothing was emitted of.
LEMMA ReseedStep ==
  ASSUME Sound, Reseed
  PROVE  /\ Good(Cursor') /\ Behind(Cursor', boot) /\ Within(Cursor', boot, size)
         /\ \E p \in Boots, a \in Nat : Flow(p, a)' /\ Promised(a)'
         /\ lastSeen' = -1
<1>1. Types /\ Good(Cursor) /\ Behind(Cursor, boot)
  BY DEF Sound
<1>2. PICK p \in Boots, a \in Nat : Flow(p, a) /\ Promised(a)
  BY DEF Sound, Promised
<1>3. /\ Len(emitted) \in Nat /\ boot \in Boots /\ boot # 0 /\ boot \in Nat /\ lastSeen \in Int
      /\ Cursor \in Cursors
  BY <1>1, Facts DEF Boots
<1>4. /\ pc = "answered" /\ LogRestarted /\ lastSeen' = -1 /\ cursorOf' = 0
      /\ pc' = "reseeding" /\ UNCHANGED <<server, stream, emitted, repeats, excuse, gaps, buffered>>
  BY DEF Reseed
<1>5. cursorOf # boot
  <2>1. PICK first \in Nat : Fits(first, a)
    BY <1>2, <1>4 DEF Promised
  <2>2. page.lastLine \in Nat /\ page.lastLine < lastSeen
    BY <1>1, <1>4 DEF Types, LogRestarted
  <2>3. QED
    BY <1>3, <2>1, <2>2 DEF Fits
<1> DEFINE d == [Cursor EXCEPT !.lastSeen = -1, !.cursorOf = 0]
<1>6. d \in Cursors /\ d.lastSeen = -1 /\ d.cursorOf = 0 /\ d.emitted = emitted
        /\ d.repeats = repeats /\ d.gaps = gaps /\ d.excuse = excuse
  BY <1>3, CursorFields DEF Cursors
<1> HIDE DEF d
<1>7. Cursor' = d
  BY <1>4, <1>6, CursorFields, Becoming DEF Becomes
<1>8. Good(d)
  <2>1. \A line : HasShown(d, line) = HasShown(Cursor, line)
    BY <1>6, CursorFields DEF HasShown
  <2>2. \A line : IsOlder(d, line) = IsOlder(Cursor, line)
    BY <1>6, CursorFields DEF IsOlder
  <2>3. \A r : IsRepeat(d, r) = IsRepeat(Cursor, r)
    BY <1>6, <2>1, <2>2, CursorFields DEF IsRepeat, Accounted
  <2>4. \A r \in repeats : r[1] = r[2][1] => IsRepeat(Cursor, r)
    BY <1>1, CursorFields DEF Good
  <2>5. InOrder(emitted) /\ "none" \notin gaps
    BY <1>1, CursorFields DEF Good
  <2>6. QED
    BY <1>6, <2>3, <2>4, <2>5 DEF Good
<1>9. \A i \in 1..Len(emitted) : emitted[i][1] < boot
  BY <1>1, <1>5, CursorFields DEF Behind
<1>10. Behind(d, boot) /\ Within(d, boot, size) /\ Within(d, boot, a)
  BY <1>3, <1>6, <1>9 DEF Behind, Within
<1>11. p = boot
  BY <1>2, <1>4 DEF Flow, Backfilling
<1>12. Flow(p, a)'
  BY <1>2, <1>4, <1>7, <1>10, <1>11 DEF Flow, Backfilling, server, stream
<1>13. Promised(a)'
  BY <1>4 DEF Promised
<1>14. QED
  BY <1>4, <1>7, <1>8, <1>10, <1>12, <1>13

\* What is held back is taken when the cursor is ready for it.
LEMMA HeldStep ==
  ASSUME Sound, NEW p \in Boots, NEW a \in Nat, Flow(p, a), Backfilling,
         NEW c, Good(c), Ready(c, boot, a, a), Within(c, boot, size),
         Becomes(TakeAll(c, buffered)),
         UNCHANGED <<server, stream>>, buffered' = <<>>, pc' = "live"
  PROVE  /\ Good(Cursor') /\ Behind(Cursor', boot) /\ Within(Cursor', boot, size)
         /\ \E q \in Boots, b \in Nat : Flow(q, b)' /\ Promised(b)'
<1>1. Types /\ Good(Cursor)
  BY DEF Sound
<1>2. /\ size \in Nat /\ boot \in Boots /\ Len(wire) \in Nat /\ Len(buffered) \in Nat
      /\ buffered \in Seq(Lines)
  BY <1>1, Facts DEF Types
<1>3. p = boot /\ Stretch(buffered, boot, a) /\ a + Len(buffered) + Len(wire) <= size
  BY DEF Flow
<1>4. PICK k \in Nat : k = a + Len(buffered) /\ a <= k /\ k <= size
  <2> DEFINE b == Len(buffered)
             w == Len(wire)
  <2>1. b \in Nat /\ w \in Nat /\ a + b + w <= size
    BY <1>2, <1>3
  <2> HIDE DEF b, w
  <2>2. a + b \in Nat /\ a <= a + b /\ a + b <= size
    BY <1>2, <2>1
  <2>3. QED
    BY <2>2 DEF b
<1> DEFINE d == TakeAll(c, buffered)
<1>5. Good(d) /\ Ready(d, boot, a, k) /\ Within(d, boot, size)
  BY <1>2, <1>3, <1>4, TakeStretch
<1> HIDE DEF d
<1>6. Cursor' = d
  BY <1>5, Becoming DEF Good, d
<1>7. Ready(d, boot, k, k)
  BY <1>4, <1>5, ReadyLater DEF Good, Cursors
<1>8. Flow(p, k)'
  <2>1. /\ Len(buffered') = 0 /\ k + Len(buffered') = k /\ Stretch(buffered', boot, k)
    BY <1>4, NoStretch
  <2>2. /\ Stretch(wire, boot, k) /\ k + Len(wire) <= size
        /\ connected => k + Len(wire) = size
    BY <1>2, <1>3, <1>4 DEF Flow
  <2>3. Behind(d, boot)
    BY <1>7 DEF Ready
  <2>4. boot <= boot /\ boot' = boot /\ size' = size /\ wire' = wire /\ connected' = connected
    BY <1>2 DEF server, stream, Boots
  <2>5. QED
    BY <1>3, <1>6, <1>7, <2>1, <2>2, <2>3, <2>4 DEF Flow, Backfilling
<1>9. Promised(k)'
  BY DEF Promised
<1>10. QED
  BY <1>2, <1>4, <1>5, <1>6, <1>7, <1>8, <1>9 DEF Ready

\* A query failed: nothing is known of the lines before those held back.
LEMMA FailStep ==
  ASSUME Sound, BackfillFails
  PROVE  /\ Good(Cursor') /\ Behind(Cursor', boot) /\ Within(Cursor', boot, size)
         /\ \E p \in Boots, a \in Nat : Flow(p, a)' /\ Promised(a)'
<1>1. Types /\ Good(Cursor) /\ Behind(Cursor, boot) /\ Within(Cursor, boot, size)
  BY DEF Sound
<1>2. PICK p \in Boots, a \in Nat : Flow(p, a)
  BY DEF Sound
<1> DEFINE c == [Cursor EXCEPT !.excuse = "failedBackfill"]
<1>3. Backfilling /\ Becomes(TakeAll(c, buffered)) /\ UNCHANGED <<server, stream>>
        /\ buffered' = <<>> /\ pc' = "live"
  BY DEF BackfillFails, Backfilling
<1>4. /\ Good(c) /\ c.excuse = "failedBackfill" /\ c.lastSeen = lastSeen
      /\ c.cursorOf = cursorOf /\ Behind(c, boot)
  <2>1. "failedBackfill" \in Excuses
    BY DEF Excuses
  <2>2. QED
    BY <1>1, <2>1, Excused, CursorFields
<1> HIDE DEF c
<1>5. Within(Cursor, boot, a) /\ lastSeen \in Int
  BY <1>1, <1>2, <1>3, Facts DEF Flow
<1>6. Ready(c, boot, a, a)
  BY <1>4, <1>5, CursorFields DEF Ready, Within
<1>7. Within(c, boot, size)
  BY <1>1, <1>4, CursorFields DEF Within
<1>8. QED
  BY <1>2, <1>3, <1>4, <1>6, <1>7, HeldStep

\* The page closes the gap or is full; what is held back comes after it.
LEMMA SettleStep ==
  ASSUME Sound, Settle
  PROVE  /\ Good(Cursor') /\ Behind(Cursor', boot) /\ Within(Cursor', boot, size)
         /\ \E p \in Boots, a \in Nat : Flow(p, a)' /\ Promised(a)'
<1>1. Types /\ Good(Cursor) /\ Behind(Cursor, boot) /\ Within(Cursor, boot, size)
  BY DEF Sound
<1>2. pc \in {"answered", "reseeded"} /\ Backfilling
  BY DEF Settle, Backfilling
<1>3. PICK p \in Boots, a \in Nat :
        Flow(p, a) /\ (pc \in {"answered", "reseeded"} => \E first \in Nat : Fits(first, a))
  BY DEF Sound
<1>4. PICK first \in Nat : Fits(first, a)
  BY <1>2, <1>3
<1> DEFINE paged == TakeAll(Cursor, page.entries)
           c == [paged EXCEPT !.excuse = PageExcuse]
<1>5. Becomes(TakeAll(c, buffered)) /\ UNCHANGED <<server, stream>>
        /\ buffered' = <<>> /\ pc' = "live"
  BY DEF Settle
<1>6. /\ size \in Nat /\ boot \in Boots /\ boot # 0 /\ lastSeen \in Int
      /\ (cursorOf = boot => lastSeen >= 0)
      /\ page.entries \in Seq(Lines) /\ Len(page.entries) \in Nat /\ page.lastLine \in Nat
  BY <1>1, Facts, LenProperties DEF Types, Boots
<1>7. Within(Cursor, boot, a)
  BY <1>2, <1>3 DEF Flow
<1>8. Ready(Cursor, boot, a, first)
  <2>1. ASSUME cursorOf = boot
        PROVE  lastSeen < a /\ first = lastSeen + 1
    BY <1>4, <1>6, <1>7, <2>1, CursorFields DEF Within, Fits
  <2>2. ASSUME cursorOf = boot
        PROVE  /\ \A k \in a..lastSeen : Accounted(Cursor, <<boot, k>>)
               /\ ~(first > lastSeen + 1) /\ ~(first <= lastSeen)
    BY <1>6, <2>1, <2>2
  <2>3. QED
    BY <1>1, <2>2, CursorFields DEF Ready
<1>9. /\ Good(paged) /\ Ready(paged, boot, a, first + Len(page.entries))
      /\ Within(paged, boot, size)
      /\ IF page.entries = <<>> THEN paged = Cursor
                                ELSE first + Len(page.entries) <= paged.lastSeen + 1
  <2>1. Stretch(page.entries, boot, first)
        /\ (page.entries # <<>> => first + Len(page.entries) <= size)
    BY <1>4 DEF Fits
  <2>2. QED
    BY <1>1, <1>6, <1>8, <2>1, TakeStretch
<1> HIDE DEF paged
<1>10. first + Len(page.entries) <= paged.lastSeen + 1
  <2>1. CASE page.entries = <<>>
    <3>1. Len(page.entries) = 0 /\ first = lastSeen + 1 /\ paged.lastSeen = lastSeen
      BY <1>4, <1>9, <2>1, EmptySeq, CursorFields DEF Fits
    <3>2. QED
      BY <1>6, <3>1
  <2>2. QED
    BY <1>9, <2>1
<1>11. /\ Good(c) /\ c.excuse = PageExcuse /\ c.lastSeen = paged.lastSeen
       /\ c.cursorOf = paged.cursorOf /\ Behind(c, boot) = Behind(paged, boot)
       /\ \A line : Accounted(c, line) = Accounted(paged, line)
  <2>1. PageExcuse \in Excuses
    BY DEF PageExcuse, Excuses
  <2>2. QED
    BY <1>9, <2>1, Excused
<1> HIDE DEF c
<1>12. Ready(c, boot, a, a)
  <2>1. ASSUME a > paged.lastSeen + 1
        PROVE  PageExcuse # "none"
    <3> DEFINE k == Len(page.entries)
               s == paged.lastSeen
    <3>1. /\ k \in Nat /\ s \in Int /\ first + k <= s + 1 /\ page.lastLine \in Nat
          /\ PageExcuse = "none" => a <= page.lastLine /\ page.lastLine <= first + k
      BY <1>4, <1>6, <1>9, <1>10 DEF Fits, Good, Cursors
    <3>2. a > s + 1
      BY <2>1
    <3> HIDE DEF k, s
    <3>3. QED
      BY <3>1, <3>2
  <2>2. Behind(paged, boot) /\ (paged.cursorOf = boot =>
          \A k \in a..paged.lastSeen : Accounted(paged, <<boot, k>>))
    BY <1>9 DEF Ready
  <2>3. QED
    BY <1>11, <2>1, <2>2 DEF Ready
<1>13. Within(c, boot, size)
  BY <1>9, <1>11 DEF Within
<1>14. QED
  BY <1>2, <1>3, <1>5, <1>11, <1>12, <1>13, HeldStep

LEMMA InitSound == Init => Sound
<1> SUFFICES ASSUME Init
             PROVE  Sound
  OBVIOUS
<1>1. /\ MaxBoots \in Nat \ {0} /\ 1 \in Boots /\ 0 \in Nat /\ boot = 1
      /\ <<>> \in Seq(Lines) /\ Len(<<>>) = 0 /\ 1..0 = {}
  BY StreamAssumption, EmptySeq DEF Init, Boots
<1>2. size \in 0..MaxLines[boot] /\ size \in Nat
  BY <1>1, StreamAssumption DEF Init, Boots
<1>3. Types
  BY <1>1, <1>2 DEF Init, Types, Locations, NoPage, Backfilling
<1>4. /\ Cursor.lastSeen = -1 /\ Cursor.cursorOf = 0 /\ Cursor.emitted = <<>>
      /\ Cursor.repeats = {} /\ Cursor.gaps = {} /\ Cursor.excuse = "none"
  BY CursorFields DEF Init
<1>5. Good(Cursor)
  <2>1. Cursor \in Cursors
    BY <1>1 DEF Init, Cursor, Cursors, Excuses
  <2>2. QED
    BY <1>1, <1>4, <2>1 DEF Good, InOrder
<1>6. \A p : Behind(Cursor, p)
  BY <1>1, <1>4 DEF Behind
<1>7. Within(Cursor, boot, size)
  BY <1>1, <1>4 DEF Within
<1>8. Flow(1, 0)
  <2>1. Stretch(buffered, 1, 0) /\ Stretch(wire, 1, 0 + Len(buffered))
    BY NoStretch DEF Init
  <2>2. Len(buffered) = 0 /\ Len(wire) = 0
    BY <1>1 DEF Init
  <2>3. QED
    BY <1>1, <1>2, <1>6, <2>1, <2>2 DEF Init, Flow, Backfilling
<1>9. pc = "dialling"
  BY DEF Init
<1>10. QED
  BY <1>1, <1>3, <1>5, <1>6, <1>7, <1>8, <1>9 DEF Sound

LEMMA SoundStep == Sound /\ [Next]_vars => Sound'
<1> SUFFICES ASSUME Sound, [Next]_vars
             PROVE  Sound'
  OBVIOUS
<1>1. Types'
  BY TypesStep DEF Sound
<1>2. CASE Logs \/ ConnectionEnds \/ GoesDown \/ Restarts
  <2>1. pc' = pc /\ lastSeen' = lastSeen
    BY <1>2 DEF Logs, ConnectionEnds, GoesDown, Restarts, cursor
  <2>2. /\ Cursor' = Cursor /\ Behind(Cursor, boot') /\ Within(Cursor, boot', size')
        /\ \E p \in Boots, a \in Nat : Flow(p, a)' /\ Promised(a)'
    BY <1>2, ServerStep
  <2>3. QED
    BY <1>1, <2>1, <2>2 DEF Sound, Promised
<1>3. CASE \/ Open \/ FetchAnswered \/ ReseedAnswered \/ Disconnected
           \/ Deliver /\ pc # "live"
  <2>1. /\ Cursor' = Cursor /\ boot' = boot /\ size' = size
        /\ \E p \in Boots, a \in Nat : Flow(p, a)' /\ Promised(a)'
        /\ pc' \in {"reseeding", "reseeded"} => lastSeen' = -1
    BY <1>3, QuietStep DEF server
  <2>2. QED
    BY <1>1, <2>1 DEF Sound, Promised
<1>4. CASE Deliver /\ pc = "live"
  <2>1. boot' = boot /\ size' = size /\ pc' = "live"
    BY <1>4 DEF Deliver, server
  <2>2. /\ Good(Cursor') /\ Behind(Cursor', boot) /\ Within(Cursor', boot, size)
        /\ \E p \in Boots, a \in Nat : Flow(p, a)' /\ Promised(a)'
    BY <1>4, DeliverStep
  <2>3. QED
    BY <1>1, <2>1, <2>2 DEF Sound, Promised
<1>5. CASE Reseed
  <2>1. boot' = boot /\ size' = size
    BY <1>5 DEF Reseed, server
  <2>2. /\ Good(Cursor') /\ Behind(Cursor', boot) /\ Within(Cursor', boot, size)
        /\ \E p \in Boots, a \in Nat : Flow(p, a)' /\ Promised(a)'
        /\ lastSeen' = -1
    BY <1>5, ReseedStep
  <2>3. QED
    BY <1>1, <2>1, <2>2 DEF Sound, Promised
<1>6. CASE Settle \/ BackfillFails
  <2>1. boot' = boot /\ size' = size /\ pc' = "live"
    BY <1>6 DEF Settle, BackfillFails, server
  <2>2. /\ Good(Cursor') /\ Behind(Cursor', boot) /\ Within(Cursor', boot, size)
        /\ \E p \in Boots, a \in Nat : Flow(p, a)' /\ Promised(a)'
    BY <1>6, SettleStep, FailStep
  <2>3. QED
    BY <1>1, <2>1, <2>2 DEF Sound, Promised
<1>7. CASE UNCHANGED vars
  BY <1>7 DEF vars, server, stream, cursor, Sound, Types, Good, Behind, Within, Flow, Fits,
     Cursor, Backfilling, PageExcuse, Ready
<1>8. QED
  BY <1>2, <1>3, <1>4, <1>5, <1>6, <1>7 DEF Next, StreamerStep

LEMMA SoundAlways == Spec => []Sound
BY InitSound, SoundStep, PTL DEF Spec

-----------------------------------------------------------------------------
(***************************************************************************)
(* What a sound stream promises.                                           *)
(***************************************************************************)

\* sse.go: the variables have their types, lines are held back and an answer is held
\* only while a backfill is under way; for any lengths of queries and logs.
THEOREM TypeCorrect == Spec => []TypeOK
<1>1. Sound => TypeOK
  <2> SUFFICES ASSUME Sound
               PROVE  TypeOK
    OBVIOUS
  <2>1. /\ lastSeen \in Nat \cup {-1} /\ cursorOf \in Boots \cup {0} /\ emitted \in Seq(Lines)
        /\ repeats \subseteq Boots \X Lines /\ gaps \subseteq Excuses /\ excuse \in Excuses
    BY CursorFields DEF Sound, Good, Cursors
  <2>2. \A r \in repeats : r[1] \in Boots /\ r[2] \in Lines
    BY <2>1
  <2>3. QED
    BY <2>1, <2>2 DEF Sound, Types, Backfilling, TypeOK
<1>2. QED
  BY <1>1, SoundAlways, PTL

\* sse.go, deliver and backfill: no line is emitted twice and all come in the order
\* they were logged, whatever breaks or restarts in between.
THEOREM LinesOnceInOrder == Spec => []OnceInOrder
<1>1. Sound => OnceInOrder
  <2> SUFFICES ASSUME Sound
               PROVE  OnceInOrder
    OBVIOUS
  <2>1. emitted \in Seq(Lines) /\ InOrder(emitted)
    BY CursorFields DEF Sound, Good, Cursors
  <2>2. DOMAIN emitted = 1..Len(emitted)
    BY <2>1, LenProperties
  <2>3. QED
    BY <2>1, <2>2 DEF InOrder, OnceInOrder
<1>2. QED
  BY <1>1, SoundAlways, PTL

\* sse.go, deliver: a line of the cursor's own process that is dropped as seen was
\* emitted, or is older than all that was shown of that process.
THEOREM DroppedWereShown == Spec => []RepeatsAreRepeats
<1>1. Sound => RepeatsAreRepeats
  <2> SUFFICES ASSUME Sound, NEW r \in repeats, r[1] = r[2][1]
               PROVE  \/ r[2] \in ToSet(emitted)
                      \/ \A line \in ToSet(emitted) : line[1] = r[1] => r[2][2] < line[2]
    BY DEF RepeatsAreRepeats
  <2>1. Accounted(Cursor, r[2]) /\ emitted \in Seq(Lines)
    BY CursorFields DEF Sound, Good, IsRepeat, Cursors
  <2>2. ToSet(emitted) = {emitted[i] : i \in 1..Len(emitted)}
    BY <2>1, LenProperties DEF ToSet
  <2>3. QED
    BY <2>1, <2>2, CursorFields DEF Accounted, HasShown, IsOlder
<1>2. QED
  BY <1>1, SoundAlways, PTL

\* sse.go, backfill: inside one process's lines a hole is left by a query that failed
\* or by a page that was full, and by nothing else.
THEOREM HolesHaveExcuses == Spec => []NoOtherGaps
<1>1. Sound => NoOtherGaps
  BY CursorFields DEF Sound, Good, NoOtherGaps
<1>2. QED
  BY <1>1, SoundAlways, PTL
=============================================================================
