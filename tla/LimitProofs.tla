----------------------------- MODULE LimitProofs -----------------------------
(***************************************************************************)
(* What people may do with the panel and how often, and what they share,   *)
(* for any number of accounts, sessions, attempts, players and requests    *)
(* and any limits.                                                         *)
(*                                                                         *)
(* The login.  Between VerifyPassword and Sessions.Create an account       *)
(* changes only with a start of the panel, which takes every attempt with  *)
(* it (Verified); so what is created is current when it is, and what a     *)
(* start leaves is current after it.  Of the attempts of an address some   *)
(* began a window (Windows): one in any Limit of them, and more than a     *)
(* window after the one before.                                            *)
(*                                                                         *)
(* The bot.  What it may send was decided when it looked, and stays in     *)
(* what it holds (Trust).  A use a player was charged for is not younger   *)
(* than what the store has, or one that was let through after it has been  *)
(* given back and forgotten with it (Remembered); so the next one that is  *)
(* let through is as far from it as its row asks (OneMoreCharge), and who  *)
(* gives back his own charge is himself the one in between                 *)
(* (GivenBackRemembered), whatever the row asked when.                     *)
(*                                                                         *)
(* The caches.  Nobody is stranded: whoever takes a square keeps it until  *)
(* he tells (Taken), and whoever joins him is told in the same step in     *)
(* which he is done (Joined).  Nobody goes back: a square has one owner    *)
(* and a refresh one holder, who brings what is as new as all that was     *)
(* shown, is held or is about to be told (AsNew, OneRefresh); so what is   *)
(* told is as new as what was shown to anybody before he asked (Telling).  *)
(* And what is counted is what is held (Tidy).                             *)
(***************************************************************************)
EXTENDS Services, FiniteSetTheorems, SequenceTheorems, WellFoundedInduction, TLAPS

-----------------------------------------------------------------------------
(***************************************************************************)
(* The login: whose session it is.                                         *)
(***************************************************************************)

LoginType ==
  [at : {"idle", "verify", "create", "reset"}, from : Addresses \cup {"nowhere"},
   name : Names \cup {"nobody"}, guess : Passwords \cup {Logins!NoPassword}]

\* Accounts are of passwords; whose a session or an attempt is, is an account.
Named ==
  /\ accounts \in [Names -> Passwords \cup {Logins!NoPassword}]
  /\ login \in [Attempts -> LoginType]
  /\ \A a \in Attempts : login[a].at # "idle" => login[a].name \in Names
  /\ \A s \in sessions : s.name \in Names

\* Who is about to get a session gave the account's password.
Verified ==
  \A a \in Attempts : login[a].at = "create" => accounts[login[a].name] = login[a].guess

Doors == Named /\ Verified /\ Logins!SessionsAreCurrent

LEMMA DoorsInit ==
  ASSUME Init, part = "logins"
  PROVE  Doors
<1>1. /\ login = [a \in Attempts |-> Logins!Idle]
      /\ sessions = {}
  BY DEF Init, Logins!Opened
<1>2. accounts \in [Names -> Passwords \cup {Logins!NoPassword}]
  BY DEF Init, Logins!Seeded
<1>3. QED
  BY <1>1, <1>2 DEF Doors, Named, LoginType, Verified, Logins!SessionsAreCurrent, Logins!Idle

LEMMA DoorsStep ==
  ASSUME Doors, Logins!Next
  PROVE  Doors'
<1> USE DEF Doors, Named, Verified, LoginType, Logins!SessionsAreCurrent
<1>1. CASE Logins!TimePasses
  BY <1>1 DEF Logins!TimePasses
<1>2. CASE Logins!CleansUp
  BY <1>2 DEF Logins!CleansUp, Logins!Lapsed
<1>3. ASSUME NEW c \in Addresses, NEW n \in Names, NEW p \in Passwords,
             Logins!Arrives(c, n, p)
      PROVE  Doors'
  <2>1. UNCHANGED <<accounts, sessions>>
    BY <1>3 DEF Logins!Arrives
  <2>2. CASE UNCHANGED login
    BY <2>1, <2>2
  <2>3. ASSUME NEW a \in Attempts,
               login' = [login EXCEPT ![a] =
                 [at |-> "verify", from |-> c, name |-> n, guess |-> p]]
        PROVE  Doors'
    BY <2>1, <2>3
  <2>4. QED
    BY <1>3, <2>2, <2>3 DEF Logins!Arrives
<1>4. ASSUME NEW a \in Attempts, Logins!Verifies(a)
      PROVE  Doors'
  <2>1. UNCHANGED <<accounts, sessions>>
    BY <1>4 DEF Logins!Verifies
  <2>2. CASE accounts[login[a].name] = login[a].guess
    BY <1>4, <2>1, <2>2 DEF Logins!Verifies
  <2>3. CASE login' = [login EXCEPT ![a] = Logins!Idle]
    BY <2>1, <2>3 DEF Logins!Idle
  <2>4. QED
    BY <1>4, <2>2, <2>3 DEF Logins!Verifies, Logins!Rests
<1>5. ASSUME NEW a \in Attempts, Logins!Creates(a)
      PROVE  Doors'
  BY <1>5 DEF Logins!Creates
<1>6. ASSUME NEW a \in Attempts, Logins!Resets(a) \/ Logins!Breaks(a)
      PROVE  Doors'
  BY <1>6 DEF Logins!Resets, Logins!Breaks, Logins!Rests, Logins!Idle
<1>7. ASSUME NEW s \in sessions, Logins!LooksUp(s) \/ Logins!LogsOut(s)
      PROVE  Doors'
  BY <1>7 DEF Logins!LooksUp, Logins!LogsOut
<1>8. ASSUME NEW n \in Names, NEW p \in Passwords, Logins!Restarts(n, p)
      PROVE  Doors'
  <2>1. /\ accounts' = [accounts EXCEPT ![n] = p]
        /\ sessions' = Logins!Survivors(n, p)
        /\ login' = [a \in Attempts |-> Logins!Idle]
    BY <1>8 DEF Logins!Restarts
  <2>2. Named' /\ Verified'
    BY <2>1 DEF Logins!Survivors, Logins!Idle
  <2>3. Logins!SessionsAreCurrent'
    <3>1. CASE accounts[n] = p
      BY <2>1, <3>1 DEF Logins!Survivors
    <3>2. CASE accounts[n] # p
      BY <2>1, <3>2 DEF Logins!Survivors
    <3>3. QED
      BY <3>1, <3>2
  <2>4. QED
    BY <2>2, <2>3
<1>9. QED
  BY <1>1, <1>2, <1>3, <1>4, <1>5, <1>6, <1>7, <1>8 DEF Logins!Next, Logins!LoginStep

\* No session outlives the password it was opened with, over restarts with any
\* environments, of which requests are the old process's and sessions are not.
THEOREM SessionsAlwaysCurrent == Spec => []SessionsAreCurrent
<1> DEFINE Inv == part = "logins" => Doors
<1>1. Init => Inv
  BY DoorsInit
<1>2. Inv /\ [Next]_vars => Inv'
  <2> SUFFICES ASSUME Inv, [Next]_vars, part' = "logins" PROVE Doors'
    OBVIOUS
  <2>1. CASE LoginsMove
    BY <2>1, DoorsStep DEF LoginsMove
  <2>2. CASE UNCHANGED <<part, loginVars>>
    BY <2>2 DEF loginVars, Doors, Named, Verified, Logins!SessionsAreCurrent
  <2>3. QED
    BY <2>1, <2>2 DEF Next, vars, ChatMoves, TilesMove, ListsMove, LoginsMove,
       HandsMove, BootMoves, PagesMove
<1>3. Inv => SessionsAreCurrent
  BY DEF SessionsAreCurrent, Doors
<1>4. QED
  BY <1>1, <1>2, <1>3, PTL DEF Spec
-----------------------------------------------------------------------------
(***************************************************************************)
(* The limit on attempts.                                                  *)
(***************************************************************************)

\* The attempts numbered in S began a window each, the last of them the one that
\* the bucket counts.
Windows(c, S) ==
  /\ S \subseteq 1..Len(let[c])
  /\ \A i, j \in S : i < j => let[c][i] + Window < let[c][j]
  /\ \A m \in 1..(Len(let[c]) - Limit + 1) : \E s \in S : m <= s /\ s < m + Limit
  /\ IF buckets[c] = Logins!NoBucket THEN let[c] = <<>>
     ELSE LET last == Len(let[c]) - buckets[c].count + 1
          IN /\ buckets[c].count \in 1..Limit
             /\ last \in S /\ \A s \in S : s <= last
             /\ buckets[c].until = let[c][last] + Window

Limited ==
  /\ hour \in Nat
  /\ buckets \in [Addresses -> [count : Nat, until : Int]]
  /\ DOMAIN let = Addresses
  /\ \A c \in Addresses :
       /\ let[c] \in Seq(Nat)
       /\ \A i \in 1..Len(let[c]) : let[c][i] <= hour
       /\ \A i, j \in 1..Len(let[c]) : i <= j => let[c][i] <= let[c][j]
       /\ \E S : Windows(c, S)

\* One more attempt, in the window there is or in a new one.
LEMMA LetThrough ==
  ASSUME Limited, NEW c \in Addresses, Logins!Lets(c),
         let'[c] = Append(let[c], hour), hour' = hour,
         buckets'[c] = IF Logins!Over(c) THEN [count |-> 1, until |-> hour + Window]
                       ELSE [buckets[c] EXCEPT !.count = @ + 1]
  PROVE  /\ buckets'[c] \in [count : Nat, until : Int]
         /\ let'[c] \in Seq(Nat)
         /\ \A i \in 1..Len(let'[c]) : let'[c][i] <= hour
         /\ \A i, j \in 1..Len(let'[c]) : i <= j => let'[c][i] <= let'[c][j]
         /\ \E S : Windows(c, S)'
<1> DEFINE past == let[c]
           new == let'[c]
           n == Len(past)
           m == Len(new)
           bucket == buckets[c]
           then == buckets'[c]
           count == bucket.count
           last == n - count + 1
<1>1. /\ hour \in Nat /\ past \in Seq(Nat)
      /\ \A i \in 1..n : past[i] <= hour
      /\ \A i, j \in 1..n : i <= j => past[i] <= past[j]
  BY DEF Limited
<1>2. Limit \in Nat /\ Limit > 0 /\ Window \in Nat /\ Window > 0
  BY ServicesAssumption
<1>3. n \in Nat /\ m = n + 1
  BY <1>1, AppendProperties, LenProperties
<1>4. /\ new \in Seq(Nat) /\ new[n + 1] = hour
      /\ \A i \in 1..n : new[i] = past[i] /\ past[i] \in Nat
  BY <1>1, AppendProperties, LenProperties, ElementOfSeq
<1>5. PICK S : Windows(c, S)
  BY DEF Limited
<1>6. S \subseteq 1..n /\ \A i, j \in S : i < j => past[i] + Window < past[j]
  BY <1>5 DEF Windows
<1>7. \A k \in 1..(n - Limit + 1) : \E s \in S : k <= s /\ s < k + Limit
  BY <1>5 DEF Windows
<1>8. IF bucket = Logins!NoBucket THEN past = <<>>
      ELSE /\ count \in 1..Limit /\ last \in S /\ \A s \in S : s <= last
           /\ bucket.until = past[last] + Window
  BY <1>5 DEF Windows
<1>9. past = <<>> => n = 0
  BY EmptySeq
<1>10. bucket \in [count : Nat, until : Int] /\ count \in Nat
  BY DEF Limited
<1>11. ASSUME NEW T, T \subseteq 1..m,
              \A i, j \in T : i < j => new[i] + Window < new[j],
              \A k \in 1..(m - Limit + 1) : \E s \in T : k <= s /\ s < k + Limit,
              then.count \in 1..Limit, NEW start \in T, start = m - then.count + 1,
              \A s \in T : s <= start, then.until = new[start] + Window
       PROVE  \E S2 : Windows(c, S2)'
  <2>1. then # Logins!NoBucket
    BY <1>2, <1>11 DEF Logins!NoBucket
  <2>2. Windows(c, T)'
    BY <1>11, <2>1 DEF Windows
  <2>3. QED
    BY <2>2
<1>12. \A k \in 1..(m - Limit + 1) : k \notin 1..(n - Limit + 1) => k = n + 1 - Limit + 1
  <2>1. ASSUME NEW a \in Nat, NEW b \in Nat, b = a + 1
        PROVE  \A k \in 1..(b - Limit + 1) :
                 k \notin 1..(a - Limit + 1) => k = a + 1 - Limit + 1
    BY <1>2, <2>1
  <2> HIDE DEF n, m
  <2>2. QED
    BY <1>3, <2>1
<1>13. /\ \A i \in 1..m : new[i] <= hour
       /\ \A i, j \in 1..m : i <= j => new[i] <= new[j]
  <2>1. \A i \in 1..m : i \in 1..n \/ i = n + 1
    <3> HIDE DEF n, m
    <3>1. QED
      BY <1>3
  <2>2. \A i, j \in 1..m : i <= j => j = n + 1 \/ (i \in 1..n /\ j \in 1..n)
    <3> HIDE DEF n, m
    <3>1. QED
      BY <1>3
  <2> HIDE DEF new, past, n, m
  <2>3. \A i \in 1..m : new[i] <= hour
    BY <1>1, <1>4, <2>1
  <2>4. QED
    BY <1>1, <1>4, <2>2, <2>3
<1>14. CASE Logins!Over(c)
  <2> DEFINE T == S \cup {n + 1}
  <2>1. then = [count |-> 1, until |-> hour + Window]
    BY <1>14
  <2>2. \A s \in S : s \in 1..n /\ past[s] + Window < hour
    <3>1. CASE bucket = Logins!NoBucket
      BY <1>6, <1>8, <1>9, <3>1
    <3>2. CASE bucket # Logins!NoBucket
      <4>1. last \in S /\ \A s \in S : s <= last
        BY <1>8, <3>2
      <4>2. past[last] + Window < hour
        BY <1>8, <1>14, <3>2 DEF Logins!Over
      <4>3. \A s \in S : s \in 1..n /\ past[s] <= past[last] /\ past[s] \in Nat /\ past[last] \in Nat
        BY <1>1, <1>4, <1>6, <4>1
      <4> HIDE DEF past, n, last
      <4>4. QED
        BY <1>1, <1>2, <4>2, <4>3
    <3>3. QED
      BY <3>1, <3>2
  <2> HIDE DEF past, n, m, new, bucket, then
  <2>3. T \subseteq 1..m /\ n + 1 \in T /\ \A s \in T : s <= n + 1
    BY <1>3, <1>6
  <2>4. ASSUME NEW i \in T, NEW j \in T, i < j
        PROVE  new[i] + Window < new[j]
    <3>1. i \in S /\ i \in 1..n
      BY <1>3, <1>6, <2>4
    <3>2. CASE j \in S
      BY <1>4, <1>6, <2>4, <3>1, <3>2
    <3>3. CASE j = n + 1
      BY <1>4, <2>2, <3>1, <3>3
    <3>4. QED
      BY <3>2, <3>3
  <2>5. ASSUME NEW k \in 1..(m - Limit + 1)
        PROVE  \E s \in T : k <= s /\ s < k + Limit
    <3>1. CASE k \in 1..(n - Limit + 1)
      BY <1>7, <3>1
    <3>2. CASE k \notin 1..(n - Limit + 1)
      <4>1. k <= n + 1 /\ n + 1 < k + Limit
        BY <1>2, <1>3, <1>12, <3>2
      <4>2. QED
        BY <4>1
    <3>3. QED
      BY <3>1, <3>2
  <2>6. then.count = 1 /\ then.until = hour + Window
    BY <2>1
  <2>7. n + 1 = m - then.count + 1 /\ then.count \in 1..Limit
    BY <1>2, <1>3, <2>6
  <2>8. then.until = new[n + 1] + Window
    BY <1>4, <2>6
  <2>9. then \in [count : Nat, until : Int]
    BY <1>1, <1>2, <2>1
  <2> HIDE DEF T
  <2>10. \E S2 : Windows(c, S2)'
    BY <1>11, <2>3, <2>4, <2>5, <2>7, <2>8
  <2>11. QED
    BY <1>4, <1>13, <2>9, <2>10 DEF new, m, then
<1>15. CASE ~Logins!Over(c)
  <2>1. bucket # Logins!NoBucket /\ count < Limit
    BY <1>15 DEF Logins!Over, Logins!Lets
  <2>2. then = [bucket EXCEPT !.count = @ + 1]
    BY <1>15
  <2>3. /\ count \in 1..Limit /\ last \in S /\ \A s \in S : s <= last
        /\ bucket.until = past[last] + Window
    BY <1>8, <2>1
  <2> HIDE DEF past, n, m, new, bucket, then
  <2>4. then.count = count + 1 /\ then.until = bucket.until /\ then \in [count : Nat, until : Int]
    BY <1>10, <2>2
  <2> HIDE DEF count
  <2>5. S \subseteq 1..m
    BY <1>3, <1>6
  <2>6. \A i, j \in S : i < j => new[i] + Window < new[j]
    BY <1>4, <1>6
  <2>7. ASSUME NEW k \in 1..(m - Limit + 1)
        PROVE  \E s \in S : k <= s /\ s < k + Limit
    <3>1. CASE k \in 1..(n - Limit + 1)
      BY <1>7, <3>1
    <3>2. CASE k \notin 1..(n - Limit + 1)
      <4>1. k <= last /\ last < k + Limit
        BY <1>2, <1>3, <1>12, <2>1, <2>3, <3>2
      <4>2. QED
        BY <2>3, <4>1
    <3>3. QED
      BY <3>1, <3>2
  <2>8. last = m - then.count + 1 /\ then.count \in 1..Limit
    BY <1>2, <1>3, <2>1, <2>3, <2>4
  <2>9. then.until = new[last] + Window
    BY <1>4, <1>6, <2>3, <2>4
  <2> HIDE DEF last
  <2>10. \E S2 : Windows(c, S2)'
    BY <1>11, <2>3, <2>5, <2>6, <2>7, <2>8, <2>9
  <2>11. QED
    BY <1>4, <1>13, <2>4, <2>10 DEF new, m, then
<1>16. QED
  BY <1>14, <1>15

LEMMA LimitedStep ==
  ASSUME Limited, Logins!Next
  PROVE  Limited'
<1>1. hour \in Nat
  BY DEF Limited
<1>2. ASSUME UNCHANGED <<buckets, let>>, hour' \in Nat, hour <= hour'
      PROVE  Limited'
  <2>1. ASSUME NEW c \in Addresses
        PROVE  /\ let[c] \in Seq(Nat)
               /\ \A i \in 1..Len(let[c]) : let[c][i] <= hour'
               /\ \A i, j \in 1..Len(let[c]) : i <= j => let[c][i] <= let[c][j]
    <3>1. let[c] \in Seq(Nat) /\ \A i \in 1..Len(let[c]) : let[c][i] <= hour
      BY DEF Limited
    <3>2. \A i \in 1..Len(let[c]) : let[c][i] \in Nat
      BY <3>1, ElementOfSeq
    <3>3. QED
      BY <1>1, <1>2, <3>1, <3>2 DEF Limited
  <2>2. \A c \in Addresses : \E S : Windows(c, S)'
    BY <1>2 DEF Limited, Windows
  <2>3. QED
    BY <1>2, <2>1, <2>2 DEF Limited
\* Of one address what changes is as it is after a Reset, or a new attempt.
<1>3. ASSUME hour' = hour,
             buckets' \in [Addresses -> [count : Nat, until : Int]], DOMAIN let' = Addresses,
             \A c \in Addresses :
               \/ buckets'[c] = buckets[c] /\ let'[c] = let[c]
               \/ buckets'[c] = Logins!NoBucket /\ let'[c] = <<>>
               \/ /\ let'[c] \in Seq(Nat)
                  /\ \A i \in 1..Len(let'[c]) : let'[c][i] <= hour
                  /\ \A i, j \in 1..Len(let'[c]) : i <= j => let'[c][i] <= let'[c][j]
                  /\ \E S : Windows(c, S)'
      PROVE  Limited'
  <2>1. ASSUME NEW c \in Addresses
        PROVE  /\ let'[c] \in Seq(Nat)
               /\ \A i \in 1..Len(let'[c]) : let'[c][i] <= hour
               /\ \A i, j \in 1..Len(let'[c]) : i <= j => let'[c][i] <= let'[c][j]
               /\ \E S : Windows(c, S)'
    <3>1. CASE buckets'[c] = buckets[c] /\ let'[c] = let[c]
      <4>1. \E S : Windows(c, S)
        BY DEF Limited
      <4>2. \E S : Windows(c, S)'
        BY <3>1, <4>1 DEF Windows
      <4>3. QED
        BY <3>1, <4>2 DEF Limited
    <3>2. CASE buckets'[c] = Logins!NoBucket /\ let'[c] = <<>>
      <4>1. Len(let'[c]) = 0 /\ let'[c] \in Seq(Nat)
        BY <3>2, EmptySeq
      <4>2. Windows(c, {})'
        <5>1. \A k \in 1..(Len(let'[c]) - Limit + 1) : FALSE
          BY <4>1, ServicesAssumption
        <5>2. QED
          BY <3>2, <5>1 DEF Windows, Logins!NoBucket
      <4>3. QED
        BY <4>1, <4>2
    <3>3. QED
      BY <1>3, <3>1, <3>2
  <2>2. QED
    BY <1>1, <1>3, <2>1 DEF Limited
<1>4. Logins!NoBucket \in [count : Nat, until : Int]
  BY DEF Logins!NoBucket
<1>5. ASSUME NEW c \in Addresses, NEW n \in Names, NEW p \in Passwords,
             Logins!Arrives(c, n, p)
      PROVE  Limited'
  <2>1. CASE UNCHANGED <<buckets, let, hour>>
    BY <1>1, <1>2, <2>1
  <2>2. CASE Logins!Lets(c)
    <3>1. /\ buckets' = [buckets EXCEPT ![c] = Logins!Counted(c)]
          /\ let' = [let EXCEPT ![c] = Append(@, hour)]
          /\ hour' = hour
      BY <1>5, <2>2 DEF Logins!Arrives
    <3>2. /\ buckets \in [Addresses -> [count : Nat, until : Int]] /\ DOMAIN let = Addresses
      BY DEF Limited
    <3>3. /\ buckets'[c] = IF Logins!Over(c) THEN [count |-> 1, until |-> hour + Window]
                           ELSE [buckets[c] EXCEPT !.count = @ + 1]
          /\ let'[c] = Append(let[c], hour)
          /\ DOMAIN let' = Addresses /\ DOMAIN buckets' = Addresses
          /\ \A d \in Addresses : d # c => buckets'[d] = buckets[d] /\ let'[d] = let[d]
          /\ buckets' = [d \in Addresses |-> buckets'[d]]
      <4>1. DOMAIN buckets' = Addresses /\ buckets'[c] = Logins!Counted(c)
        BY <3>1, <3>2
      <4>2. /\ \A d \in Addresses : d # c => buckets'[d] = buckets[d]
            /\ buckets' = [d \in Addresses |-> buckets'[d]]
        BY <3>1, <3>2
      <4>3. /\ let'[c] = Append(let[c], hour) /\ DOMAIN let' = Addresses
            /\ \A d \in Addresses : d # c => let'[d] = let[d]
        BY <3>1, <3>2
      <4>4. QED
        BY <4>1, <4>2, <4>3 DEF Logins!Counted
    <3>4. /\ buckets'[c] \in [count : Nat, until : Int]
          /\ let'[c] \in Seq(Nat)
          /\ \A i \in 1..Len(let'[c]) : let'[c][i] <= hour
          /\ \A i, j \in 1..Len(let'[c]) : i <= j => let'[c][i] <= let'[c][j]
          /\ \E S : Windows(c, S)'
      BY <2>2, <3>1, <3>3, LetThrough
    <3>5. buckets' \in [Addresses -> [count : Nat, until : Int]]
      <4>1. \A d \in Addresses : buckets'[d] \in [count : Nat, until : Int]
        BY <3>2, <3>3, <3>4
      <4>2. QED
        BY <3>3, <4>1
    <3>6. QED
      BY <1>3, <3>1, <3>3, <3>4, <3>5
  <2>3. QED
    BY <1>5, <2>1, <2>2 DEF Logins!Arrives
<1>6. ASSUME NEW a \in Attempts, Logins!Resets(a)
      PROVE  Limited'
  <2>1. /\ buckets' = [buckets EXCEPT ![login[a].from] = Logins!NoBucket]
        /\ let' = [let EXCEPT ![login[a].from] = <<>>] /\ hour' = hour
    BY <1>6 DEF Logins!Resets
  <2>2. /\ buckets \in [Addresses -> [count : Nat, until : Int]] /\ DOMAIN let = Addresses
    BY DEF Limited
  <2>3. /\ buckets' \in [Addresses -> [count : Nat, until : Int]] /\ DOMAIN let' = Addresses
        /\ \A c \in Addresses :
             \/ buckets'[c] = buckets[c] /\ let'[c] = let[c]
             \/ buckets'[c] = Logins!NoBucket /\ let'[c] = <<>>
    BY <1>4, <2>1, <2>2
  <2>4. QED
    BY <1>3, <2>1, <2>3
<1>7. ASSUME NEW n \in Names, NEW p \in Passwords, Logins!Restarts(n, p)
      PROVE  Limited'
  <2>1. /\ buckets' = [c \in Addresses |-> Logins!NoBucket]
        /\ let' = [c \in Addresses |-> <<>>] /\ hour' = hour
    BY <1>7 DEF Logins!Restarts
  <2>2. /\ buckets' \in [Addresses -> [count : Nat, until : Int]] /\ DOMAIN let' = Addresses
        /\ \A c \in Addresses : buckets'[c] = Logins!NoBucket /\ let'[c] = <<>>
    BY <1>4, <2>1
  <2>3. QED
    BY <1>3, <2>1, <2>2
<1>8. ASSUME NEW a \in Attempts, Logins!Verifies(a) \/ Logins!Creates(a) \/ Logins!Breaks(a)
      PROVE  Limited'
  BY <1>1, <1>2, <1>8 DEF Logins!Verifies, Logins!Creates, Logins!Breaks
<1>9. ASSUME NEW s \in sessions, Logins!LooksUp(s) \/ Logins!LogsOut(s)
      PROVE  Limited'
  BY <1>1, <1>2, <1>9 DEF Logins!LooksUp, Logins!LogsOut
<1>10. CASE Logins!TimePasses \/ Logins!CleansUp
  BY <1>1, <1>2, <1>10 DEF Logins!TimePasses, Logins!CleansUp
<1>11. QED
  BY <1>5, <1>6, <1>7, <1>8, <1>9, <1>10 DEF Logins!Next, Logins!LoginStep

LEMMA LimitedInit ==
  ASSUME Init, part = "logins"
  PROVE  Limited
<1>1. /\ hour = 0 /\ buckets = [c \in Addresses |-> Logins!NoBucket]
      /\ let = [c \in Addresses |-> <<>>]
  BY DEF Init, Logins!Opened
<1>2. Logins!NoBucket \in [count : Nat, until : Int]
  BY DEF Logins!NoBucket
<1>3. ASSUME NEW c \in Addresses
      PROVE  /\ let[c] \in Seq(Nat) /\ Len(let[c]) = 0
             /\ Windows(c, {})
  <2>1. let[c] \in Seq(Nat) /\ Len(let[c]) = 0
    BY <1>1, EmptySeq
  <2>2. \A k \in 1..(Len(let[c]) - Limit + 1) : FALSE
    BY <2>1, ServicesAssumption
  <2>3. QED
    BY <1>1, <2>1, <2>2 DEF Windows
<1>4. /\ hour \in Nat /\ DOMAIN let = Addresses
      /\ buckets \in [Addresses -> [count : Nat, until : Int]]
  BY <1>1, <1>2
<1>5. ASSUME NEW c \in Addresses
      PROVE  /\ let[c] \in Seq(Nat)
             /\ \A i \in 1..Len(let[c]) : let[c][i] <= hour
             /\ \A i, j \in 1..Len(let[c]) : i <= j => let[c][i] <= let[c][j]
             /\ \E S : Windows(c, S)
  BY <1>3
<1>6. QED
  BY <1>4, <1>5 DEF Limited

\* Twice the limit later, two windows have begun in between.
LEMMA TwoWindows ==
  ASSUME Limited, NEW c \in Addresses, NEW i \in 1..Len(let[c]), NEW j \in 1..Len(let[c]),
         i + 2 * Limit <= j
  PROVE  let[c][i] + Window < let[c][j]
<1> DEFINE past == let[c]
           n == Len(past)
<1>1. Limit \in Nat /\ Limit > 0 /\ Window \in Nat
  BY ServicesAssumption
<1>2. /\ past \in Seq(Nat) /\ n \in Nat
      /\ \A a, b \in 1..n : a <= b => past[a] <= past[b]
      /\ \A a \in 1..n : past[a] \in Nat
  BY LenProperties, ElementOfSeq DEF Limited
<1>3. PICK S : Windows(c, S)
  BY DEF Limited
<1>4. /\ S \subseteq 1..n /\ \A a, b \in S : a < b => past[a] + Window < past[b]
      /\ \A k \in 1..(n - Limit + 1) : \E s \in S : k <= s /\ s < k + Limit
  BY <1>3 DEF Windows
<1>5. i + 1 \in 1..(n - Limit + 1) /\ i + Limit + 1 \in 1..(n - Limit + 1)
  BY <1>1, <1>2
<1>6. PICK s \in S : i + 1 <= s /\ s < i + 1 + Limit
  BY <1>4, <1>5
<1>7. PICK t \in S : i + Limit + 1 <= t /\ t < i + Limit + 1 + Limit
  BY <1>4, <1>5
<1>8. s \in 1..n /\ t \in 1..n
  BY <1>4
<1>9. i <= s /\ s < t /\ t <= j
  BY <1>1, <1>2, <1>6, <1>7, <1>8
<1>10. past[i] <= past[s] /\ past[s] + Window < past[t] /\ past[t] <= past[j]
  BY <1>2, <1>4, <1>8, <1>9
<1>11. past[i] \in Nat /\ past[s] \in Nat /\ past[t] \in Nat /\ past[j] \in Nat
  BY <1>2, <1>8
<1> HIDE DEF past
<1>12. past[i] + Window < past[j]
  BY <1>1, <1>10, <1>11
<1>13. QED
  BY <1>12 DEF past

\* A set of natural numbers has a smallest one.
LEMMA Smallest ==
  ASSUME NEW S \in SUBSET Nat, S # {}
  PROVE  \E x \in S : \A y \in S : x <= y
<1> DEFINE Below == OpToRel(<, Nat)
<1>1. IsWellFoundedOn(Below, Nat)
  BY NatLessThanWellFounded
<1>2. \E x \in S : \A y \in S : <<y, x>> \notin Below
  <2> HIDE DEF Below
  <2>1. QED
    BY <1>1, WFMin
<1>3. ASSUME NEW x \in S, NEW y \in S, y < x
      PROVE  <<y, x>> \in Below
  BY <1>3 DEF OpToRel
<1> HIDE DEF Below
<1>4. PICK x \in S : \A y \in S : <<y, x>> \notin Below
  BY <1>2
<1>5. \A y \in S : ~(y < x)
  BY <1>3, <1>4
<1>6. QED
  BY <1>5

LEMMA FewNearby ==
  ASSUME Limited, NEW c \in Addresses, NEW t \in 0..hour
  PROVE  Cardinality({i \in DOMAIN let[c] : let[c][i] \in t..(t + Window)}) <= 2 * Limit
<1> DEFINE near == {i \in DOMAIN let[c] : let[c][i] \in t..(t + Window)}
<1>1. Limit \in Nat /\ Limit > 0 /\ Window \in Nat /\ t \in Nat
  BY ServicesAssumption
<1>2. /\ Len(let[c]) \in Nat /\ DOMAIN let[c] = 1..Len(let[c])
      /\ \A i \in 1..Len(let[c]) : let[c][i] \in Nat
  BY LenProperties, ElementOfSeq DEF Limited
<1>3. CASE near = {}
  <2>1. Cardinality(near) = 0
    BY <1>3, FS_EmptySet
  <2>2. QED
    BY <1>1, <2>1
<1>4. CASE near # {}
  <2>1. near \in SUBSET Nat
    BY <1>2
  <2>2. PICK x \in near : \A y \in near : x <= y
    BY <1>4, <2>1, Smallest
  <2>3. ASSUME NEW y \in near, x + 2 * Limit <= y
        PROVE  FALSE
    <3>1. /\ x \in 1..Len(let[c]) /\ y \in 1..Len(let[c])
          /\ t <= let[c][x] /\ let[c][y] <= t + Window
      BY <1>1, <1>2
    <3>2. let[c][x] + Window < let[c][y]
      BY <2>3, <3>1, TwoWindows
    <3>3. let[c][x] \in Nat /\ let[c][y] \in Nat
      BY <1>2, <3>1
    <3>4. QED
      BY <1>1, <3>1, <3>2, <3>3
  <2>4. x \in Nat
    BY <2>1
  <2> HIDE DEF near
  <2>5. \A y \in near : y \in x..(x + 2 * Limit - 1)
    <3> TAKE y \in near
    <3>1. y \in Nat /\ x <= y /\ ~(x + 2 * Limit <= y)
      BY <2>1, <2>2, <2>3
    <3>2. QED
      BY <1>1, <2>4, <3>1
  <2>6. /\ IsFiniteSet(x..(x + 2 * Limit - 1))
        /\ Cardinality(x..(x + 2 * Limit - 1)) = 2 * Limit
    <3>1. x \in Int /\ x + 2 * Limit - 1 \in Int /\ ~(x > x + 2 * Limit - 1)
          /\ (x + 2 * Limit - 1) - x + 1 = 2 * Limit
      BY <1>1, <2>4
    <3>2. QED
      BY <3>1, FS_Interval
  <2>7. near \in SUBSET (x..(x + 2 * Limit - 1))
    BY <2>5
  <2>8. Cardinality(near) <= Cardinality(x..(x + 2 * Limit - 1))
    BY <2>6, <2>7, FS_Subset
  <2>9. QED
    BY <2>6, <2>8 DEF near
<1>5. QED
  BY <1>3, <1>4

LEMMA TwiceTheLimit ==
  ASSUME Limited
  PROVE  Logins!GuessesBounded
<1>1. \A S : Logins!Cardinality(S) = Cardinality(S)
  BY DEF Cardinality, Logins!Cardinality
<1>2. QED
  BY <1>1, FewNearby, Zenon DEF Logins!GuessesBounded

\* "A fixed window allows a burst at a boundary" (ratelimit.go), and no more: for
\* any limit, window and number of addresses, in any stretch as long as a window an
\* address has at most twice the limit of attempts, unless one of them succeeded or
\* the panel was started again.
THEOREM GuessesAlwaysBounded == Spec => []GuessesBounded
<1> DEFINE Inv == part = "logins" => Limited
<1>1. Init => Inv
  BY LimitedInit
<1>2. Inv /\ [Next]_vars => Inv'
  <2> SUFFICES ASSUME Inv, [Next]_vars, part' = "logins" PROVE Limited'
    OBVIOUS
  <2>1. CASE LoginsMove
    BY <2>1, LimitedStep DEF LoginsMove
  <2>2. CASE UNCHANGED <<part, loginVars>>
    BY <2>2 DEF loginVars, Limited, Windows
  <2>3. QED
    BY <2>1, <2>2 DEF Next, vars, ChatMoves, TilesMove, ListsMove, LoginsMove,
       HandsMove, BootMoves, PagesMove
<1>3. Inv => GuessesBounded
  BY TwiceTheLimit DEF GuessesBounded
<1>4. QED
  BY <1>1, <1>2, <1>3, PTL DEF Spec
-----------------------------------------------------------------------------
(***************************************************************************)
(* The bot: for whom a line is sent, and which lines.                      *)
(***************************************************************************)

\* What a worker of the bot is doing, whatever is in the fields.
JobFields == {"at", "player", "word", "since", "row", "ids", "claimed", "plan", "sent"}
IsJob(r) == r = [f \in JobFields |-> r[f]]

Lines == {"plain", "args", "harsh", "broken"}

\* Who was let through as an admin was one not long before he typed it.
Trusted(r) ==
  r.row.admins /\ (r.at \in {"cooldown", "plan", "run"} \/ r.claimed # Chat!Never)
    => r.since < demoted[r.player] + AdminTTL + ReplyTimeout

\* Whom the game named, when the list is about to be stored, was an admin since.
Fresh(r) ==
  r.at = "storing" =>
    time <= r.since + ReplyTimeout /\ \A p \in r.ids : r.since <= demoted[p]

\* What a worker has in hand.
Sound(r) ==
  /\ IsJob(r)
  /\ r.at \in Chat!Stages
  /\ r.at \notin {"idle", "reply"} => r.player \in Players /\ r.since \in Nat /\ r.since <= time
  /\ r.ids \subseteq Players
  /\ r.row.lines \in Seq(Lines)
  /\ r.plan \in Seq(Lines) /\ r.sent \in 0..Len(r.plan)
  /\ r.at # "run" => r.sent = 0
  /\ r.at \in {"idle", "config", "reply"} => r.claimed = Chat!Never
  /\ \A line \in Chat!Range(r.plan) : Chat!Fits(line, r.word)
  /\ Trusted(r) /\ Fresh(r)

\* Whoever is on the list that is held was an admin not long before it was stored.
Listed ==
  /\ list.ids \subseteq Players /\ list.at \in -1..MaxTime /\ list.at <= time
  /\ \A p \in list.ids : list.at <= demoted[p] + ReplyTimeout

Asked ==
  /\ time \in 1..MaxTime
  /\ row = Chat!NoRow \/ (row \in Chat!Written(name) /\ ~Chat!Refused(name, row))
  /\ name \in Typings
  /\ kit \in Kits \cup {Chat!NoKit}
  /\ usedAt \in [Players -> 0..MaxTime]
  /\ admins \subseteq Players
  /\ demoted \in [Players -> Nat] /\ \A p \in admins : demoted[p] = MaxTime + 1

Trust ==
  /\ Asked /\ Listed
  /\ bot = [w \in Workers |-> bot[w]]
  /\ \A w \in Workers : Sound(bot[w])

\* A worker's step: what the others have in hand stays as it was.
LEMMA TrustGoesOn ==
  ASSUME Trust, NEW w \in Workers, NEW r, Sound(r), bot' = [bot EXCEPT ![w] = r],
         UNCHANGED <<time, name, row, kit, admins, demoted>>,
         usedAt' \in [Players -> 0..MaxTime], Listed'
  PROVE  Trust'
<1>1. /\ bot' = [v \in Workers |-> bot'[v]] /\ bot'[w] = r
      /\ \A v \in Workers : v # w => bot'[v] = bot[v]
  BY DEF Trust
<1>2. Asked'
  BY DEF Trust, Asked
<1>3. \A q : Sound(q) => Sound(q)'
  BY DEF Sound, Trusted, Fresh, Chat!Fits, Chat!Blocked
<1>4. ASSUME NEW v \in Workers
      PROVE  Sound(bot[v])'
  <2>1. PICK q : q = bot'[v] /\ Sound(q)
    BY <1>1 DEF Trust
  <2>2. Sound(q)'
    BY <1>3, <2>1
  <2>3. QED
    <3>1. q = bot'[v]
      BY <2>1
    <3>2. IsJob(bot'[v])
      BY <2>1 DEF Sound
    <3>3. Trusted(bot[v])' /\ Fresh(bot[v])'
      BY <2>2, <3>1 DEF Sound, Trusted, Fresh
    <3>4. \A line \in Chat!Range(bot'[v].plan) : Chat!Fits(line, bot'[v].word)
      BY <2>2, <3>1 DEF Sound
    <3>5. (bot[v].row.lines \in Seq(Lines) /\ bot[v].plan \in Seq(Lines))'
      BY <2>2, <3>1 DEF Sound
    <3>6. QED
      BY <2>2, <3>1, <3>2, <3>3, <3>4, <3>5 DEF Sound, IsJob
<1>5. QED
  BY <1>1, <1>2, <1>4 DEF Trust

LEMMA TrustStays ==
  ASSUME Trust, NEW w \in Workers, NEW r, Sound(r), bot' = [bot EXCEPT ![w] = r],
         UNCHANGED <<time, name, row, kit, admins, demoted, usedAt, list>>
  PROVE  Trust'
<1>1. Listed' /\ usedAt' \in [Players -> 0..MaxTime]
  BY DEF Trust, Listed, Asked
<1>2. QED
  BY <1>1, TrustGoesOn

\* The ways a request ends.
LEMMA SoundAtRest ==
  ASSUME Trust, NEW w \in Workers
  PROVE  /\ Sound(Chat!Idle) /\ Sound(Chat!Replying)
         /\ bot[w].at \notin {"idle", "reply"} =>
              Sound([Chat!Idle EXCEPT !.at = "refund", !.player = bot[w].player,
                       !.since = bot[w].since, !.claimed = bot[w].claimed,
                       !.row = bot[w].row])
<1> DEFINE r == [Chat!Idle EXCEPT !.at = "refund", !.player = bot[w].player,
                   !.since = bot[w].since, !.claimed = bot[w].claimed, !.row = bot[w].row]
<1>1. <<>> \in Seq(Lines) /\ Len(<<>>) = 0 /\ Chat!Range(<<>>) = {}
  BY DEF Chat!Range
<1>2. Sound(Chat!Idle)
  <2>1. /\ Chat!Idle.at = "idle" /\ Chat!Idle.ids = {} /\ Chat!Idle.row = Chat!NoRow
        /\ Chat!Idle.plan = <<>> /\ Chat!Idle.sent = 0 /\ Chat!Idle.claimed = Chat!Never
        /\ IsJob(Chat!Idle)
    BY DEF IsJob, JobFields, Chat!Idle
  <2>2. QED
    BY <1>1, <2>1 DEF Sound, Chat!Stages, Trusted, Fresh, Chat!NoRow
<1>3. Sound(Chat!Replying)
  <2>1. /\ Chat!Replying.at = "reply" /\ Chat!Replying.ids = {}
        /\ Chat!Replying.row = Chat!NoRow
        /\ Chat!Replying.plan = <<>> /\ Chat!Replying.sent = 0
        /\ Chat!Replying.claimed = Chat!Never /\ IsJob(Chat!Replying)
    BY DEF IsJob, JobFields, Chat!Idle, Chat!Replying
  <2>2. QED
    BY <1>1, <2>1 DEF Sound, Chat!Stages, Trusted, Fresh, Chat!NoRow
<1>4. ASSUME bot[w].at \notin {"idle", "reply"}
      PROVE  Sound(r)
  <2>1. /\ bot[w].player \in Players /\ bot[w].since \in Nat /\ bot[w].since <= time
        /\ bot[w].row.lines \in Seq(Lines) /\ Trusted(bot[w])
    BY <1>4 DEF Trust, Sound
  <2>2. /\ r.at = "refund" /\ r.player = bot[w].player /\ r.since = bot[w].since
        /\ r.claimed = bot[w].claimed /\ r.row = bot[w].row
        /\ r.ids = {} /\ r.plan = <<>> /\ r.sent = 0 /\ IsJob(r)
    BY DEF IsJob, JobFields, Chat!Idle
  <2> HIDE DEF r
  <2>3. Trusted(r)
    BY <2>1, <2>2 DEF Trusted
  <2>4. QED
    BY <1>1, <2>1, <2>2, <2>3 DEF Sound, Chat!Stages, Fresh
<1>5. QED
  BY <1>2, <1>3, <1>4

LEMMA TrustAtRest ==
  ASSUME Trust, NEW w \in Workers,
         Chat!Rests(w) \/ Chat!Answers(w)
           \/ (Chat!Failed(w) /\ bot[w].at \notin {"idle", "reply"}),
         UNCHANGED <<time, name, row, kit, admins, demoted, list>>,
         usedAt' \in [Players -> 0..MaxTime]
  PROVE  Trust'
<1>1. Listed'
  BY DEF Trust, Listed
<1>2. CASE Chat!Rests(w)
  BY <1>1, <1>2, SoundAtRest, TrustGoesOn DEF Chat!Rests
<1>3. CASE Chat!Answers(w)
  BY <1>1, <1>3, SoundAtRest, TrustGoesOn DEF Chat!Answers
<1>4. CASE Chat!Failed(w) /\ bot[w].at \notin {"idle", "reply"}
  BY <1>1, <1>4, SoundAtRest, TrustGoesOn DEF Chat!Failed
<1>5. QED
  BY <1>2, <1>3, <1>4

\* What a list of admins that may be trusted makes of a request.
LEMMA SoundVerdict ==
  ASSUME Trust, NEW w \in Workers, bot[w].at \in {"admin", "storing"}, NEW ids,
         \A p \in ids : p \in Players /\ bot[w].since < demoted[p] + AdminTTL + ReplyTimeout
  PROVE  Sound(Chat!Verdict(w, ids))
<1> DEFINE run == [bot[w] EXCEPT !.at = "run", !.ids = {}]
           cooldown == [bot[w] EXCEPT !.at = "cooldown", !.ids = {}]
<1>1. Sound(bot[w])
  BY DEF Trust
<1>2. Sound(Chat!Replying)
  BY SoundAtRest
<1>3. /\ run.at = "run" /\ run.ids = {} /\ IsJob(run)
      /\ \A f \in JobFields \ {"at", "ids"} : run[f] = bot[w][f]
  BY <1>1 DEF Sound, IsJob, JobFields
<1>4. /\ cooldown.at = "cooldown" /\ cooldown.ids = {} /\ IsJob(cooldown)
      /\ \A f \in JobFields \ {"at", "ids"} : cooldown[f] = bot[w][f]
  BY <1>1 DEF Sound, IsJob, JobFields
<1> HIDE DEF run, cooldown
<1>5. /\ run.player = bot[w].player /\ run.word = bot[w].word /\ run.since = bot[w].since
      /\ run.row = bot[w].row /\ run.claimed = bot[w].claimed /\ run.plan = bot[w].plan
      /\ run.sent = bot[w].sent
  BY <1>3 DEF JobFields
<1>6. /\ cooldown.player = bot[w].player /\ cooldown.word = bot[w].word
      /\ cooldown.since = bot[w].since
      /\ cooldown.row = bot[w].row /\ cooldown.claimed = bot[w].claimed
      /\ cooldown.plan = bot[w].plan /\ cooldown.sent = bot[w].sent
  BY <1>4 DEF JobFields
<1>7. CASE bot[w].claimed # Chat!Never
  <2>1. Trusted(run)
    BY <1>1, <1>3, <1>5, <1>7 DEF Sound, Trusted
  <2>2. Sound(run)
    BY <1>1, <1>3, <1>5, <2>1 DEF Sound, Chat!Stages, Fresh
  <2>3. QED
    BY <1>7, <2>2 DEF Chat!Verdict, run
<1>8. CASE bot[w].claimed = Chat!Never /\ bot[w].player \in ids
  <2>1. Trusted(cooldown)
    BY <1>4, <1>6, <1>8 DEF Trusted
  <2>2. Sound(cooldown)
    BY <1>1, <1>4, <1>6, <2>1 DEF Sound, Chat!Stages, Fresh
  <2>3. QED
    BY <1>8, <2>2 DEF Chat!Verdict, cooldown
<1>9. CASE bot[w].claimed = Chat!Never /\ bot[w].player \notin ids
  BY <1>2, <1>9 DEF Chat!Verdict
<1>10. QED
  BY <1>7, <1>8, <1>9

\* Whoever has his place in a request may take another one.
LEMMA TrustMoves ==
  ASSUME Trust, NEW w \in Workers, NEW at, bot' = [bot EXCEPT ![w].at = at],
         bot[w].at \in {"admin", "plan"}, at \in {"listing", "admin"},
         UNCHANGED <<time, name, row, kit, admins, demoted, usedAt, list>>
  PROVE  Trust'
<1> DEFINE r == [bot[w] EXCEPT !.at = at]
<1>1. Sound(bot[w])
  BY DEF Trust
<1>2. IsJob(r) /\ r.at = at /\ \A f \in JobFields \ {"at"} : r[f] = bot[w][f]
  BY <1>1 DEF Sound, IsJob, JobFields
<1>3. bot' = [bot EXCEPT ![w] = r]
  BY DEF Trust
<1> HIDE DEF r
<1>4. /\ r.player = bot[w].player /\ r.word = bot[w].word /\ r.since = bot[w].since
      /\ r.row = bot[w].row /\ r.claimed = bot[w].claimed /\ r.plan = bot[w].plan
      /\ r.sent = bot[w].sent /\ r.ids = bot[w].ids
  BY <1>2 DEF JobFields
<1>5. Trusted(r) /\ Fresh(r)
  BY <1>1, <1>2, <1>4 DEF Sound, Trusted, Fresh
<1>6. Sound(r)
  BY <1>1, <1>2, <1>4, <1>5 DEF Sound, Chat!Stages
<1>7. QED
  BY <1>3, <1>6, TrustStays

\* The step before the lines are sent.
LEMMA TrustRuns ==
  ASSUME Trust, NEW w \in Workers, NEW plan, Chat!Runs(w, plan), bot[w].at = "plan",
         plan \in Seq(Lines), \A line \in Chat!Range(plan) : Chat!Fits(line, bot[w].word),
         UNCHANGED <<time, name, row, kit, admins, demoted, usedAt, list>>
  PROVE  Trust'
<1> DEFINE r == [bot[w] EXCEPT !.at = "run", !.plan = plan]
<1>1. Sound(bot[w])
  BY DEF Trust
<1>2. /\ IsJob(r) /\ r.at = "run" /\ r.plan = plan
      /\ \A f \in JobFields \ {"at", "plan"} : r[f] = bot[w][f]
  BY <1>1 DEF Sound, IsJob, JobFields
<1>3. bot' = [bot EXCEPT ![w] = r]
  BY <1>1 DEF Chat!Runs, Trust, Sound, IsJob, JobFields
<1> HIDE DEF r
<1>4. /\ r.player = bot[w].player /\ r.word = bot[w].word /\ r.since = bot[w].since
      /\ r.row = bot[w].row /\ r.claimed = bot[w].claimed /\ r.ids = bot[w].ids
      /\ r.sent = bot[w].sent
  BY <1>2 DEF JobFields
<1>5. Trusted(r) /\ Fresh(r)
  BY <1>1, <1>2, <1>4 DEF Sound, Trusted, Fresh
<1>6. r.sent = 0 /\ Len(plan) \in Nat
  BY <1>1, <1>4, LenProperties DEF Sound
<1>7. Sound(r)
  BY <1>1, <1>2, <1>4, <1>5, <1>6 DEF Sound, Chat!Stages
<1>8. QED
  BY <1>3, <1>7, TrustStays

\* Rows and kits as they may be saved are of lines that may be planned.
LEMMA RowsHaveLines ==
  ASSUME Asked
  PROVE  row.lines \in Seq(Lines)
<1>1. CASE row = Chat!NoRow
  BY <1>1 DEF Chat!NoRow
<1>2. CASE row \in Chat!Written(name)
  <2>1. PICK r \in Rows[name] :
          row = IF name \in Chat!BuiltIn THEN [r EXCEPT !.lines = <<>>, !.says = FALSE] ELSE r
    BY <1>2 DEF Chat!Written
  <2>2. r \in [enabled : BOOLEAN, admins : BOOLEAN, says : BOOLEAN, lines : Seq(Lines),
               cooldown : Nat]
    BY <2>1, BotAssumption DEF Asked, Lines
  <2>3. CASE name \in Chat!BuiltIn
    <3>1. row.lines = <<>>
      BY <2>1, <2>2, <2>3
    <3>2. QED
      BY <3>1
  <2>4. QED
    BY <2>1, <2>2, <2>3
<1>3. QED
  BY <1>1, <1>2 DEF Asked

\* Past the cooldown, or without one.
LEMMA TrustLetsThrough ==
  ASSUME Trust, NEW w \in Workers, bot[w].at = "cooldown", Chat!LetThrough(w),
         UNCHANGED <<time, name, row, kit, admins, demoted, list>>,
         usedAt' \in [Players -> 0..MaxTime]
  PROVE  Trust'
<1> DEFINE r == [bot[w] EXCEPT !.at = "plan", !.claimed = time]
<1>1. Sound(bot[w])
  BY DEF Trust
<1>2. bot' = [bot EXCEPT ![w] = r]
  BY <1>1 DEF Chat!LetThrough, Trust, Sound, IsJob, JobFields
<1>3. /\ IsJob(r) /\ r.at = "plan" /\ r.claimed = time
      /\ \A f \in JobFields \ {"at", "claimed"} : r[f] = bot[w][f]
  BY <1>1 DEF Sound, IsJob, JobFields
<1> HIDE DEF r
<1>4. /\ r.player = bot[w].player /\ r.word = bot[w].word /\ r.since = bot[w].since
      /\ r.row = bot[w].row /\ r.plan = bot[w].plan
      /\ r.ids = bot[w].ids /\ r.sent = bot[w].sent
  BY <1>3 DEF JobFields
<1>5. Trusted(r) /\ Fresh(r)
  BY <1>1, <1>3, <1>4 DEF Sound, Trusted, Fresh
<1>6. Sound(r)
  BY <1>1, <1>3, <1>4, <1>5 DEF Sound, Chat!Stages
<1>7. Listed'
  BY DEF Trust, Listed
<1>8. QED
  BY <1>2, <1>6, <1>7, TrustGoesOn

LEMMA WorkerKeepsTrust ==
  ASSUME Trust, NEW w \in Workers, Chat!WorkerStep(w) \/ Chat!Fails(w)
  PROVE  Trust'
<1>1. Sound(bot[w]) /\ bot = [v \in Workers |-> bot[v]] /\ Asked /\ Listed
  BY DEF Trust
<1>2. ReplyTimeout \in Nat /\ AdminTTL \in Nat \ {0} /\ MaxTime \in Nat /\ time \in Nat
  BY <1>1, ServicesAssumption, BotAssumption DEF Asked
<1>3. usedAt \in [Players -> 0..MaxTime] /\ demoted \in [Players -> Nat]
  BY <1>1 DEF Asked
<1>4. <<>> \in Seq(Lines) /\ Chat!Range(<<>>) = {}
  BY DEF Chat!Range
<1>5. CASE Chat!ReadsConfig(w)
  <2> DEFINE at == IF row.admins THEN "admin" ELSE "cooldown"
             r == [bot[w] EXCEPT !.row = row, !.at = at]
  <2>1. CASE row.enabled
    <3>1. /\ bot' = [bot EXCEPT ![w].row = row, ![w].at = at]
          /\ bot[w].at = "config"
          /\ UNCHANGED <<time, name, row, kit, admins, demoted, usedAt, list>>
      BY <1>5, <2>1 DEF Chat!ReadsConfig, Chat!stored
    <3>2. at \in {"admin", "cooldown"} /\ (at = "cooldown" => ~row.admins)
      OBVIOUS
    <3> HIDE DEF at
    <3>3. bot' = [bot EXCEPT ![w] = r]
      BY <1>1, <3>1 DEF Sound, IsJob, JobFields
    <3>4. /\ IsJob(r) /\ r.at = at /\ r.row = row
          /\ \A f \in JobFields \ {"at", "row"} : r[f] = bot[w][f]
      BY <1>1 DEF Sound, IsJob, JobFields
    <3> HIDE DEF r
    <3>5. /\ r.player = bot[w].player /\ r.word = bot[w].word /\ r.since = bot[w].since
          /\ r.claimed = bot[w].claimed /\ r.plan = bot[w].plan
          /\ r.ids = bot[w].ids /\ r.sent = bot[w].sent
      BY <3>4 DEF JobFields
    <3>6. bot[w].claimed = Chat!Never
      BY <1>1, <3>1 DEF Sound
    <3>7. Trusted(r) /\ Fresh(r)
      BY <3>2, <3>4, <3>5, <3>6 DEF Trusted, Fresh
    <3>8. row.lines \in Seq(Lines)
      BY <1>1, RowsHaveLines
    <3>9. Sound(r)
      BY <1>1, <3>1, <3>2, <3>4, <3>5, <3>7, <3>8 DEF Sound, Chat!Stages
    <3>10. QED
      BY <3>1, <3>3, <3>9, TrustStays
  <2>2. CASE ~row.enabled
    BY <1>3, <1>5, <2>2, TrustAtRest DEF Chat!ReadsConfig, Chat!stored
  <2>3. QED
    BY <2>1, <2>2
<1>6. CASE Chat!ConsultsList(w)
  <2>1. /\ bot[w].at = "admin"
        /\ UNCHANGED <<time, name, row, kit, admins, demoted, usedAt, list>>
    BY <1>6 DEF Chat!ConsultsList, Chat!stored
  <2>2. CASE list # Chat!NoList /\ time - list.at < AdminTTL
    <3>1. bot' = [bot EXCEPT ![w] = Chat!Verdict(w, list.ids)]
      BY <1>6, <2>2 DEF Chat!ConsultsList
    <3>2. ASSUME NEW p \in list.ids
          PROVE  p \in Players /\ bot[w].since < demoted[p] + AdminTTL + ReplyTimeout
      <4>1. p \in Players /\ list.at \in -1..MaxTime /\ list.at <= demoted[p] + ReplyTimeout
        BY <1>1 DEF Listed
      <4>2. bot[w].since \in Nat /\ bot[w].since <= time /\ demoted[p] \in Nat
        BY <1>1, <1>3, <2>1, <4>1 DEF Sound
      <4>3. QED
        BY <1>2, <2>2, <4>1, <4>2
    <3>3. Sound(Chat!Verdict(w, list.ids))
      BY <2>1, <3>2, SoundVerdict
    <3>4. QED
      BY <2>1, <3>1, <3>3, TrustStays
  <2>3. CASE ~(list # Chat!NoList /\ time - list.at < AdminTTL)
    <3>1. bot' = [bot EXCEPT ![w].at = "listing"]
      BY <1>6, <2>3 DEF Chat!ConsultsList, Chat!Goes
    <3>2. QED
      BY <2>1, <3>1, TrustMoves
  <2>4. QED
    BY <2>2, <2>3
<1>7. CASE Chat!GetsList(w)
  <2> DEFINE r == [bot[w] EXCEPT !.at = "storing", !.ids = admins]
  <2>1. /\ bot[w].at = "listing" /\ time <= bot[w].since + ReplyTimeout
        /\ UNCHANGED <<time, name, row, kit, admins, demoted, usedAt, list>>
    BY <1>7 DEF Chat!GetsList, Chat!stored, Chat!InTime
  <2>2. bot' = [bot EXCEPT ![w] = r]
    BY <1>1, <1>7 DEF Sound, IsJob, JobFields, Chat!GetsList
  <2>3. /\ IsJob(r) /\ r.at = "storing" /\ r.ids = admins
        /\ \A f \in JobFields \ {"at", "ids"} : r[f] = bot[w][f]
    BY <1>1 DEF Sound, IsJob, JobFields
  <2> HIDE DEF r
  <2>4. /\ r.player = bot[w].player /\ r.word = bot[w].word /\ r.since = bot[w].since
        /\ r.row = bot[w].row /\ r.claimed = bot[w].claimed /\ r.plan = bot[w].plan
        /\ r.sent = bot[w].sent
    BY <2>3 DEF JobFields
  <2>5. /\ bot[w].since \in Nat /\ bot[w].since <= time /\ time <= MaxTime
        /\ admins \subseteq Players /\ \A p \in admins : demoted[p] = MaxTime + 1
    BY <1>1, <2>1 DEF Sound, Asked
  <2>6. Fresh(r)
    BY <1>2, <2>1, <2>3, <2>4, <2>5 DEF Fresh
  <2>7. Trusted(r)
    BY <1>1, <2>3, <2>4 DEF Sound, Trusted
  <2>8. Sound(r)
    BY <1>1, <2>1, <2>3, <2>4, <2>5, <2>6, <2>7 DEF Sound, Chat!Stages
  <2>9. QED
    BY <2>1, <2>2, <2>8, TrustStays
<1>8. CASE Chat!StoresList(w)
  <2>1. /\ bot[w].at = "storing" /\ list' = [ids |-> bot[w].ids, at |-> time]
        /\ bot' = [bot EXCEPT ![w] = Chat!Verdict(w, bot[w].ids)]
        /\ UNCHANGED <<time, name, row, kit, admins, demoted, usedAt>>
    BY <1>8 DEF Chat!StoresList, Chat!stored
  <2>2. /\ bot[w].since \in Nat /\ bot[w].since <= time /\ time <= bot[w].since + ReplyTimeout
        /\ bot[w].ids \subseteq Players
        /\ \A p \in bot[w].ids : bot[w].since <= demoted[p] /\ demoted[p] \in Nat
    BY <1>1, <1>3, <2>1 DEF Sound, Fresh
  <2>3. Sound(Chat!Verdict(w, bot[w].ids))
    <3>1. \A p \in bot[w].ids :
            p \in Players /\ bot[w].since < demoted[p] + AdminTTL + ReplyTimeout
      BY <1>2, <2>2
    <3>2. QED
      BY <2>1, <3>1, SoundVerdict
  <2>4. Listed'
    <3>1. list'.ids = bot[w].ids /\ list'.at = time /\ time \in -1..MaxTime
      BY <1>1, <1>2, <2>1 DEF Asked
    <3>2. \A p \in bot[w].ids : time <= demoted[p] + ReplyTimeout
      BY <1>2, <2>2
    <3>3. QED
      BY <2>1, <2>2, <3>1, <3>2 DEF Listed
  <2>5. usedAt' \in [Players -> 0..MaxTime]
    BY <1>3, <2>1
  <2>6. QED
    BY <2>1, <2>3, <2>4, <2>5, TrustGoesOn
<1>9. CASE Chat!TakesNoCooldown(w) \/ Chat!TakesCooldown(w)
  <2> DEFINE p == bot[w].player
  <2>1. /\ bot[w].at = "cooldown"
        /\ UNCHANGED <<time, name, row, kit, admins, demoted, list>>
    BY <1>9 DEF Chat!TakesNoCooldown, Chat!TakesCooldown, Chat!stored
  <2>2. usedAt' = usedAt \/ usedAt' = [usedAt EXCEPT ![p] = time]
    BY <1>9 DEF Chat!TakesNoCooldown, Chat!TakesCooldown, Chat!Recorded
  <2>3. time \in 0..MaxTime
    BY <1>1, <1>2 DEF Asked
  <2>4. usedAt' \in [Players -> 0..MaxTime]
    BY <1>3, <2>2, <2>3
  <2>5. Chat!LetThrough(w) \/ Chat!Answers(w)
    BY <1>9 DEF Chat!TakesNoCooldown, Chat!TakesCooldown
  <2>6. QED
    BY <2>1, <2>4, <2>5, TrustLetsThrough, TrustAtRest
<1>10. CASE Chat!Reports(w)
  BY <1>4, <1>10, TrustRuns DEF Chat!Reports, Chat!stored
<1>11. CASE Chat!Helps(w)
  <2>1. /\ bot[w].at = "plan"
        /\ UNCHANGED <<time, name, row, kit, admins, demoted, usedAt, list>>
    BY <1>11 DEF Chat!Helps, Chat!stored
  <2>2. CASE Chat!Goes(w, "admin")
    BY <2>1, <2>2, TrustMoves DEF Chat!Goes
  <2>3. CASE Chat!Runs(w, <<>>)
    BY <1>4, <2>1, <2>3, TrustRuns
  <2>4. QED
    BY <1>11, <2>2, <2>3 DEF Chat!Helps
<1>12. CASE Chat!LooksUpKit(w)
  <2> DEFINE gives == [i \in 1..kit.items |-> "plain"]
  <2>1. /\ bot[w].at = "plan"
        /\ UNCHANGED <<time, name, row, kit, admins, demoted, usedAt, list>>
    BY <1>12 DEF Chat!LooksUpKit, Chat!stored
  <2>2. CASE Chat!Runs(w, <<>>)
    BY <1>4, <2>1, <2>2, TrustRuns
  <2>3. CASE Chat!Runs(w, gives)
    <3>1. kit.items \in Nat
      BY <1>1, BotAssumption DEF Asked, Chat!NoKit
    <3>2. gives \in Seq(Lines) /\ Chat!Range(gives) \subseteq {"plain"}
      BY <3>1 DEF Lines, Chat!Range
    <3>3. \A line \in Chat!Range(gives) : Chat!Fits(line, bot[w].word)
      BY <3>2 DEF Chat!Fits, Chat!Blocked
    <3> HIDE DEF gives
    <3>4. QED
      BY <2>1, <2>3, <3>2, <3>3, TrustRuns
  <2>4. CASE Chat!Failed(w)
    BY <1>3, <2>1, <2>4, TrustAtRest
  <2>5. QED
    BY <1>12, <2>2, <2>3, <2>4 DEF Chat!LooksUpKit
<1>13. CASE Chat!Composes(w)
  <2>1. /\ bot[w].at = "plan"
        /\ UNCHANGED <<time, name, row, kit, admins, demoted, usedAt, list>>
    BY <1>13 DEF Chat!Composes, Chat!stored
  <2>2. CASE Chat!WillDo(w)
    <3>1. Chat!Runs(w, bot[w].row.lines)
      BY <1>13, <2>2 DEF Chat!Composes
    <3>2. bot[w].row.lines \in Seq(Lines)
      BY <1>1 DEF Sound
    <3>3. QED
      BY <2>1, <2>2, <3>1, <3>2, TrustRuns DEF Chat!WillDo
  <2>3. CASE ~Chat!WillDo(w)
    BY <1>3, <1>13, <2>1, <2>3, TrustAtRest DEF Chat!Composes
  <2>4. QED
    BY <2>2, <2>3
<1>14. CASE Chat!Executes(w)
  <2> DEFINE r == [bot[w] EXCEPT !.sent = bot[w].sent + 1]
  <2>1. /\ bot[w].at = "run" /\ bot[w].sent < Len(bot[w].plan)
        /\ bot' = [bot EXCEPT ![w] = r]
        /\ UNCHANGED <<time, name, row, kit, admins, demoted, usedAt, list>>
    BY <1>1, <1>14 DEF Chat!Executes, Chat!stored
  <2>2. /\ IsJob(r) /\ r.sent = bot[w].sent + 1
        /\ \A f \in JobFields \ {"sent"} : r[f] = bot[w][f]
    BY <1>1 DEF Sound, IsJob, JobFields
  <2> HIDE DEF r
  <2>3. /\ r.player = bot[w].player /\ r.word = bot[w].word /\ r.since = bot[w].since
        /\ r.row = bot[w].row /\ r.plan = bot[w].plan /\ r.claimed = bot[w].claimed
        /\ r.ids = bot[w].ids /\ r.at = bot[w].at
    BY <2>2 DEF JobFields
  <2>4. Trusted(r) /\ Fresh(r)
    BY <1>1, <2>1, <2>3 DEF Sound, Trusted, Fresh
  <2>5. r.sent \in 0..Len(r.plan)
    <3>1. bot[w].sent \in 0..Len(bot[w].plan) /\ Len(bot[w].plan) \in Nat
      BY <1>1, LenProperties DEF Sound
    <3>2. QED
      BY <2>1, <2>2, <2>3, <3>1
  <2>6. Sound(r)
    BY <1>1, <2>1, <2>2, <2>3, <2>4, <2>5 DEF Sound
  <2>7. QED
    BY <2>1, <2>6, TrustStays
<1>15. CASE Chat!GivesUp(w)
  BY <1>3, <1>15, TrustAtRest DEF Chat!GivesUp, Chat!stored
<1>16. CASE Chat!Serves(w)
  BY <1>3, <1>16, TrustAtRest DEF Chat!Serves, Chat!stored
<1>17. CASE Chat!Refunds(w)
  <2>1. Chat!Never \in 0..MaxTime
    BY <1>2 DEF Chat!Never
  <2>2. usedAt' \in [Players -> 0..MaxTime]
    BY <1>3, <1>17, <2>1 DEF Chat!Refunds
  <2>3. QED
    BY <1>17, <2>2, TrustAtRest DEF Chat!Refunds, Chat!stored
<1>18. CASE Chat!Replies(w) \/ Chat!Expires(w)
  BY <1>3, <1>18, TrustAtRest DEF Chat!Replies, Chat!Expires, Chat!stored
<1>19. CASE Chat!Fails(w)
  <2>1. /\ UNCHANGED <<time, name, row, kit, admins, demoted, usedAt, list>>
        /\ bot[w].at \notin {"idle", "reply"}
        /\ (Chat!Answers(w) \/ Chat!Rests(w) \/ Chat!Failed(w))
    BY <1>19 DEF Chat!Fails, Chat!stored
  <2>2. QED
    BY <1>3, <2>1, TrustAtRest
<1>20. QED
  BY <1>5, <1>6, <1>7, <1>8, <1>9, <1>10, <1>11, <1>12, <1>13, <1>14, <1>15, <1>16,
     <1>17, <1>18, <1>19 DEF Chat!WorkerStep

LEMMA TrustIsKept ==
  ASSUME Trust, Chat!Next
  PROVE  Trust'
<1>1. Asked /\ Listed /\ bot = [w \in Workers |-> bot[w]] /\ \A w \in Workers : Sound(bot[w])
  BY DEF Trust
<1>2. ReplyTimeout \in Nat /\ AdminTTL \in Nat \ {0} /\ MaxTime \in Nat /\ time \in Nat
  BY <1>1, ServicesAssumption, BotAssumption DEF Asked
\* Nobody's request is touched: what it is about may only be more lenient.
<1>3. ASSUME Asked', Listed', UNCHANGED bot,
             \A q : Sound(q) /\ (\E w \in Workers : q = bot[w]) => Sound(q)'
      PROVE  Trust'
  <2>1. ASSUME NEW w \in Workers
        PROVE  Sound(bot[w])'
    <3>1. PICK q : q = bot[w] /\ q = bot'[w]
      BY <1>3
    <3>2. IsJob(bot'[w])
      BY <1>1, <1>3 DEF Sound
    <3>3. Sound(q)'
      BY <1>1, <1>3, <3>1
    <3>4. (Trusted(bot[w]) /\ Fresh(bot[w]))'
      BY <3>1, <3>3 DEF Sound, Trusted, Fresh
    <3>5. /\ \A line \in Chat!Range(bot'[w].plan) : Chat!Fits(line, bot'[w].word)
          /\ (bot[w].row.lines \in Seq(Lines) /\ bot[w].plan \in Seq(Lines))'
      BY <3>1, <3>3 DEF Sound
    <3>6. QED
      BY <3>1, <3>2, <3>3, <3>4, <3>5 DEF Sound, IsJob
  <2>2. QED
    BY <1>1, <1>3, <2>1 DEF Trust
<1>4. ASSUME UNCHANGED <<time, admins, demoted, list, bot>>, Asked'
      PROVE  Trust'
  <2>1. Listed'
    BY <1>1, <1>4 DEF Listed
  <2>2. \A q : Sound(q) => Sound(q)'
    BY <1>4 DEF Sound, Trusted, Fresh, Chat!Fits, Chat!Blocked
  <2>3. QED
    BY <1>3, <1>4, <2>1, <2>2
<1>5. CASE Chat!TimePasses
  <2>1. /\ time' = time + 1 /\ time < MaxTime
        /\ UNCHANGED <<name, row, kit, usedAt, admins, demoted, list, bot>>
        /\ \A w \in Workers : bot[w].at = "storing" => time < bot[w].since + ReplyTimeout
    BY <1>5 DEF Chat!TimePasses, Chat!stored
  <2>2. Asked'
    BY <1>1, <1>2, <2>1 DEF Asked
  <2>3. Listed'
    BY <1>1, <1>2, <2>1 DEF Listed
  <2>4. ASSUME NEW q, Sound(q), NEW w \in Workers, q = bot[w]
        PROVE  Sound(q)'
    <3>1. q.at = "storing" => time < q.since + ReplyTimeout
      BY <2>1, <2>4
    <3>2. q.at \notin {"idle", "reply"} =>
            q.since \in Nat /\ q.since <= time'
      BY <1>2, <2>1, <2>4 DEF Sound
    <3>3. Fresh(q)'
      BY <1>2, <2>1, <2>4, <3>1, <3>2 DEF Sound, Fresh
    <3>4. Trusted(q)'
      BY <2>1, <2>4 DEF Sound, Trusted
    <3>5. QED
      BY <2>4, <3>2, <3>3, <3>4 DEF Sound, Chat!Fits, Chat!Blocked
  <2>5. QED
    BY <1>3, <2>1, <2>2, <2>3, <2>4
<1>6. ASSUME NEW p \in Players, Chat!ListChanges(p)
      PROVE  Trust'
  <2>1. UNCHANGED <<time, name, row, kit, usedAt, list, bot>>
    BY <1>6 DEF Chat!ListChanges, Chat!stored
  <2>2. /\ admins' = IF p \in admins THEN admins \ {p} ELSE admins \cup {p}
        /\ demoted' = [demoted EXCEPT ![p] = IF p \in admins THEN time ELSE MaxTime + 1]
    BY <1>6 DEF Chat!ListChanges
  <2>3. demoted \in [Players -> Nat] /\ time <= MaxTime
    BY <1>1, <1>2 DEF Asked
  <2>4. /\ demoted' \in [Players -> Nat] /\ demoted'[p] >= time
        /\ \A q \in Players : q # p => demoted'[q] = demoted[q]
    BY <1>2, <2>2, <2>3
  <2>5. Asked'
    BY <1>1, <1>2, <2>1, <2>2, <2>4 DEF Asked
  <2>6. Listed'
    <3>1. list.at <= time
      BY <1>1 DEF Listed
    <3>2. QED
      BY <1>1, <1>2, <2>1, <2>4, <3>1 DEF Listed
  <2>7. ASSUME NEW q, Sound(q)
        PROVE  Sound(q)'
    <3>1. q.at \notin {"idle", "reply"} =>
            q.player \in Players /\ q.since \in Nat /\ q.since <= time
      BY <2>7 DEF Sound
    <3>2. ASSUME NEW s \in Players
          PROVE  demoted[s] \in Nat /\ demoted'[s] \in Nat
                   /\ (demoted'[s] = demoted[s] \/ demoted'[s] >= time)
      BY <2>3, <2>4
    <3>3. Fresh(q)'
      <4>1. ASSUME q.at = "storing", NEW s \in q.ids
            PROVE  q.since <= demoted'[s]
        <5>1. s \in Players /\ q.since <= demoted[s]
          BY <2>7, <4>1 DEF Sound, Fresh
        <5>2. QED
          BY <1>2, <3>1, <3>2, <4>1, <5>1
      <4>2. q.at = "storing" => time <= q.since + ReplyTimeout
        BY <2>7 DEF Sound, Fresh
      <4>3. QED
        BY <2>1, <4>1, <4>2 DEF Fresh
    <3>4. Trusted(q)'
      <4>1. ASSUME q.row.admins, q.at \in {"cooldown", "plan", "run"} \/ q.claimed # Chat!Never
            PROVE  q.since < demoted'[q.player] + AdminTTL + ReplyTimeout
        <5>1. q.at \notin {"idle", "reply"}
          BY <2>7, <4>1 DEF Sound
        <5>2. q.since < demoted[q.player] + AdminTTL + ReplyTimeout
          BY <2>7, <4>1 DEF Sound, Trusted
        <5>3. q.player \in Players /\ q.since \in Nat /\ q.since <= time
          BY <3>1, <5>1
        <5>4. QED
          BY <1>2, <3>2, <5>2, <5>3
      <4>2. QED
        BY <4>1 DEF Trusted
    <3>5. QED
      BY <2>1, <2>7, <3>3, <3>4 DEF Sound, Chat!Fits, Chat!Blocked
  <2>8. QED
    BY <1>3, <2>1, <2>5, <2>6, <2>7
<1>7. CASE Chat!DeletesCommand
  BY <1>1, <1>4, <1>7 DEF Chat!DeletesCommand, Asked
<1>8. CASE Chat!DeletesCooldowns
  <2>1. UNCHANGED <<time, name, row, kit, admins, demoted, list, bot>>
    BY <1>8 DEF Chat!DeletesCooldowns, Chat!stored
  <2>2. usedAt' = usedAt \/ usedAt' = [p \in Players |-> Chat!Never]
    BY <1>8 DEF Chat!DeletesCooldowns
  <2>3. Chat!Never \in 0..MaxTime
    BY <1>2 DEF Chat!Never
  <2>4. Asked'
    BY <1>1, <2>1, <2>2, <2>3 DEF Asked
  <2>5. QED
    BY <1>4, <2>1, <2>4
<1>9. CASE Chat!BotStops
  <2>1. /\ bot' = [w \in Workers |-> Chat!Idle] /\ list' = Chat!NoList
        /\ UNCHANGED <<time, name, row, kit, usedAt, admins, demoted>>
    BY <1>9 DEF Chat!BotStops, Chat!stored
  <2>2. Asked' /\ Listed'
    BY <1>1, <1>2, <2>1 DEF Asked, Listed, Chat!NoList
  <2>3. ASSUME NEW w \in Workers
        PROVE  Sound(bot[w])'
    <3>1. PICK q : q = Chat!Idle /\ q = bot'[w]
      BY <2>1
    <3>2. Sound(q)'
      <4>1. Sound(q)
        BY <3>1, SoundAtRest
      <4>2. QED
        BY <2>1, <4>1 DEF Sound, Trusted, Fresh, Chat!Fits, Chat!Blocked
    <3>3. IsJob(bot'[w])
      BY <3>1, <3>2 DEF Sound
    <3>4. (Trusted(bot[w]) /\ Fresh(bot[w]))'
      BY <3>1, <3>2 DEF Sound, Trusted, Fresh
    <3>5. /\ \A line \in Chat!Range(bot'[w].plan) : Chat!Fits(line, bot'[w].word)
          /\ (bot[w].row.lines \in Seq(Lines) /\ bot[w].plan \in Seq(Lines))'
      BY <3>1, <3>2 DEF Sound
    <3>6. QED
      BY <3>1, <3>2, <3>3, <3>4, <3>5 DEF Sound, IsJob
  <2>4. QED
    BY <2>1, <2>2, <2>3 DEF Trust
<1>10. ASSUME NEW p \in Players \cup {Chat!Server}, NEW word, Chat!Types(p, word)
       PROVE  Trust'
  <2>1. UNCHANGED <<time, name, row, kit, usedAt, admins, demoted, list>>
    BY <1>10 DEF Chat!Types, Chat!stored
  <2>2. CASE UNCHANGED bot
    BY <1>1, <1>4, <2>1, <2>2 DEF Asked
  <2>3. CASE p \in Players /\ bot' # bot
    <3> DEFINE r == [Chat!Idle EXCEPT !.at = "config", !.player = p, !.word = word,
                       !.since = time]
    <3>1. PICK w \in Workers : bot' = [bot EXCEPT ![w] = r]
      BY <1>10, <2>3 DEF Chat!Types
    <3>2. /\ r.at = "config" /\ r.player = p /\ r.since = time /\ r.ids = {}
          /\ r.row = Chat!NoRow /\ r.plan = <<>> /\ r.sent = 0 /\ r.claimed = Chat!Never
          /\ IsJob(r)
      BY DEF IsJob, JobFields, Chat!Idle
    <3> HIDE DEF r
    <3>3. <<>> \in Seq(Lines) /\ Len(<<>>) = 0 /\ Chat!Range(<<>>) = {}
      BY DEF Chat!Range
    <3>4. Sound(r)
      BY <1>2, <2>3, <3>2, <3>3 DEF Sound, Chat!Stages, Trusted, Fresh, Chat!NoRow
    <3>5. QED
      BY <2>1, <3>1, <3>4, TrustStays
  <2>4. QED
    BY <1>10, <2>2, <2>3 DEF Chat!Types, Chat!Parsed
<1>11. ASSUME NEW r \in Chat!Written(name), Chat!SavesCommand(r)
       PROVE  Trust'
  <2>1. /\ row' = r /\ ~Chat!Refused(name, r)
        /\ UNCHANGED <<time, name, kit, usedAt, admins, demoted, list, bot>>
    BY <1>11 DEF Chat!SavesCommand
  <2>2. (row \in Chat!Written(name) /\ ~Chat!Refused(name, row))'
    BY <1>11, <2>1 DEF Chat!Written, Chat!Refused, Chat!Range
  <2>3. Asked'
    BY <1>1, <2>1, <2>2 DEF Asked
  <2>4. QED
    BY <1>4, <2>1, <2>3
<1>12. ASSUME NEW k \in Kits, Chat!SavesKit(k) \/ Chat!DeletesKit
       PROVE  Trust'
  BY <1>1, <1>4, <1>12 DEF Chat!SavesKit, Chat!DeletesKit, Asked
<1>13. CASE Chat!DeletesKit
  BY <1>1, <1>4, <1>13 DEF Chat!DeletesKit, Asked
<1>14. ASSUME NEW w \in Workers, Chat!WorkerStep(w) \/ Chat!Fails(w)
       PROVE  Trust'
  BY <1>14, WorkerKeepsTrust
<1>15. QED
  BY <1>5, <1>6, <1>7, <1>8, <1>9, <1>10, <1>11, <1>12, <1>13, <1>14 DEF Chat!Next

LEMMA TrustInit ==
  ASSUME Init, part = "chat"
  PROVE  Trust
<1>1. Chat!Init /\ MaxTime \in Nat /\ MaxTime >= 1
  BY BotAssumption DEF Init
<1>2. Asked
  <2>1. 1 \in 1..MaxTime /\ Chat!Never \in 0..MaxTime /\ Chat!Never \in Nat
        /\ MaxTime + 1 \in Nat
    BY <1>1 DEF Chat!Never
  <2>2. demoted \in [Players -> Nat] /\ \A p \in admins : p \in Players => demoted[p] = MaxTime + 1
    BY <1>1, <2>1 DEF Chat!Init
  <2>3. QED
    BY <1>1, <2>1, <2>2 DEF Chat!Init, Asked
<1>3. Listed
  BY <1>1 DEF Chat!Init, Listed, Chat!NoList
<1>4. \A w \in Workers : bot[w] = Chat!Idle
  BY <1>1 DEF Chat!Init
<1>5. Sound(Chat!Idle)
  <2>1. /\ Chat!Idle.at = "idle" /\ Chat!Idle.ids = {} /\ Chat!Idle.row = Chat!NoRow
        /\ Chat!Idle.plan = <<>> /\ Chat!Idle.sent = 0 /\ Chat!Idle.claimed = Chat!Never
        /\ IsJob(Chat!Idle)
    BY DEF IsJob, JobFields, Chat!Idle
  <2>2. <<>> \in Seq(Lines) /\ Len(<<>>) = 0 /\ Chat!Range(<<>>) = {}
    BY DEF Chat!Range
  <2>3. QED
    BY <2>1, <2>2 DEF Sound, Chat!Stages, Trusted, Fresh, Chat!NoRow
<1>6. QED
  BY <1>1, <1>2, <1>3, <1>4, <1>5 DEF Trust, Chat!Init

\* A line is sent by Executes alone: every other step leaves alone what a worker
\* has sent, or begins again.
LEMMA OnlyExecutesSends ==
  ASSUME Trust, NEW v \in Workers, Chat!WorkerStep(v) \/ Chat!Fails(v),
         NEW w \in Workers, bot'[w].sent > bot[w].sent
  PROVE  w = v /\ Chat!Executes(v)
<1>1. bot = [u \in Workers |-> bot[u]] /\ \A u \in Workers : IsJob(bot[u]) /\ bot[u].sent \in Nat
  <2>1. \A u \in Workers : Len(bot[u].plan) \in Nat
    BY LenProperties DEF Trust, Sound
  <2>2. QED
    BY <2>1 DEF Trust, Sound
<1> DEFINE Begins(r) == bot' = [bot EXCEPT ![v] = r] /\ r.sent \in {0, bot[v].sent}
<1>2. ASSUME NEW r, Begins(r)
      PROVE  FALSE
  BY <1>1, <1>2
<1>3. Chat!Idle.sent = 0 /\ Chat!Replying.sent = 0 /\ "sent" \in DOMAIN Chat!Idle
  BY DEF Chat!Idle, Chat!Replying
<1>4. ASSUME Chat!Rests(v) \/ Chat!Answers(v) \/ Chat!Failed(v)
      PROVE  FALSE
  <2>1. [Chat!Idle EXCEPT !.at = "refund", !.player = bot[v].player,
           !.since = bot[v].since, !.claimed = bot[v].claimed,
           !.row = bot[v].row].sent = 0
    BY DEF Chat!Idle
  <2>2. QED
    BY <1>2, <1>3, <1>4, <2>1 DEF Chat!Rests, Chat!Answers, Chat!Failed
<1>5. "sent" \in DOMAIN bot[v]
  BY <1>1 DEF IsJob, JobFields
<1>6. ASSUME NEW at, Chat!Goes(v, at)
      PROVE  FALSE
  <2>1. [bot[v] EXCEPT !.at = at].sent = bot[v].sent
    BY <1>5
  <2>2. QED
    BY <1>2, <1>6, <2>1 DEF Chat!Goes
<1>7. ASSUME NEW plan, Chat!Runs(v, plan)
      PROVE  FALSE
  <2>1. [bot[v] EXCEPT !.at = "run", !.plan = plan].sent = bot[v].sent
    BY <1>5
  <2>2. QED
    BY <1>2, <1>7, <2>1 DEF Chat!Runs
<1>8. ASSUME NEW ids PROVE Chat!Verdict(v, ids).sent \in {0, bot[v].sent}
  BY <1>3, <1>5 DEF Chat!Verdict
<1>9. CASE Chat!ReadsConfig(v)
  <2>1. ASSUME NEW at PROVE [bot[v] EXCEPT !.row = row, !.at = at].sent = bot[v].sent
    BY <1>5
  <2>2. QED
    BY <1>2, <1>4, <1>9, <2>1 DEF Chat!ReadsConfig
<1>10. CASE Chat!ConsultsList(v)
  BY <1>2, <1>6, <1>8, <1>10 DEF Chat!ConsultsList
<1>11. CASE Chat!GetsList(v)
  <2>1. [bot[v] EXCEPT !.at = "storing", !.ids = admins].sent = bot[v].sent
    BY <1>5
  <2>2. QED
    BY <1>2, <1>11, <2>1 DEF Chat!GetsList
<1>12. CASE Chat!StoresList(v)
  BY <1>2, <1>8, <1>12 DEF Chat!StoresList
<1>13. CASE Chat!TakesNoCooldown(v) \/ Chat!TakesCooldown(v)
  <2>1. [bot[v] EXCEPT !.at = "plan", !.claimed = time].sent = bot[v].sent
    BY <1>5
  <2>2. ~Chat!LetThrough(v)
    BY <1>2, <2>1 DEF Chat!LetThrough
  <2>3. QED
    BY <1>4, <1>13, <2>2 DEF Chat!TakesNoCooldown, Chat!TakesCooldown
<1>14. CASE Chat!Reports(v) \/ Chat!Helps(v) \/ Chat!LooksUpKit(v) \/ Chat!Composes(v)
  BY <1>4, <1>6, <1>7, <1>14 DEF Chat!Reports, Chat!Helps, Chat!LooksUpKit, Chat!Composes
<1>15. CASE Chat!Executes(v)
  BY <1>1, <1>15 DEF Chat!Executes
<1>16. CASE Chat!GivesUp(v) \/ Chat!Serves(v) \/ Chat!Refunds(v) \/ Chat!Replies(v)
              \/ Chat!Expires(v) \/ Chat!Fails(v)
  BY <1>4, <1>16 DEF Chat!GivesUp, Chat!Serves, Chat!Refunds, Chat!Replies, Chat!Expires,
     Chat!Fails
<1>17. QED
  BY <1>9, <1>10, <1>11, <1>12, <1>13, <1>14, <1>15, <1>16 DEF Chat!WorkerStep

LEMMA OnlyWorkersSend ==
  ASSUME Trust, Chat!Next, NEW w \in Workers, bot'[w].sent > bot[w].sent
  PROVE  Chat!Executes(w)
<1>1. bot = [u \in Workers |-> bot[u]] /\ \A u \in Workers : bot[u].sent \in Nat
  <2>1. \A u \in Workers : Len(bot[u].plan) \in Nat
    BY LenProperties DEF Trust, Sound
  <2>2. QED
    BY <2>1 DEF Trust, Sound
<1>2. ~UNCHANGED bot
  BY <1>1
<1>3. ~Chat!BotStops
  BY <1>1 DEF Chat!BotStops, Chat!Idle
<1>4. ASSUME NEW p, NEW word, Chat!Types(p, word)
      PROVE  FALSE
  <2> DEFINE r == [Chat!Idle EXCEPT !.at = "config", !.player = p, !.word = word,
                     !.since = time]
  <2>1. r.sent = 0
    BY DEF Chat!Idle
  <2>2. PICK u \in Workers : bot' = [bot EXCEPT ![u] = r]
    BY <1>2, <1>4 DEF Chat!Types
  <2> HIDE DEF r
  <2>3. QED
    BY <1>1, <2>1, <2>2
<1>5. PICK v \in Workers : Chat!WorkerStep(v) \/ Chat!Fails(v)
  BY <1>2, <1>3, <1>4 DEF Chat!Next, Chat!TimePasses, Chat!DeletesCommand,
     Chat!DeletesCooldowns, Chat!ListChanges, Chat!SavesCommand, Chat!DeletesKit,
     Chat!SavesKit
<1>6. QED
  BY <1>5, OnlyExecutesSends

LEMMA TrustPermits ==
  ASSUME Trust, Chat!Next
  PROVE  Chat!SendsWhatItMay
<1> SUFFICES ASSUME NEW w \in Workers, bot'[w].sent > bot[w].sent
             PROVE  /\ bot[w].row.admins =>
                         time < demoted[bot[w].player] + AdminTTL + 2 * ReplyTimeout
                    /\ \A line \in Chat!Range(bot[w].plan) : Chat!Fits(line, bot[w].word)
  BY DEF Chat!SendsWhatItMay
<1>1. Chat!Executes(w)
  BY OnlyWorkersSend
<1>2. Sound(bot[w]) /\ bot[w].at = "run" /\ time <= bot[w].since + ReplyTimeout
  BY <1>1 DEF Trust, Chat!Executes, Chat!InTime
<1>3. ASSUME bot[w].row.admins
      PROVE  time < demoted[bot[w].player] + AdminTTL + 2 * ReplyTimeout
  <2>1. bot[w].since < demoted[bot[w].player] + AdminTTL + ReplyTimeout
    BY <1>2, <1>3 DEF Sound, Trusted
  <2>2. bot[w].since \in Nat /\ bot[w].player \in Players
    BY <1>2 DEF Sound
  <2>3. time \in Nat /\ demoted[bot[w].player] \in Nat /\ AdminTTL \in Nat /\ ReplyTimeout \in Nat
    BY <2>2, ServicesAssumption, BotAssumption DEF Trust, Asked
  <2>4. QED
    BY <1>2, <2>1, <2>2, <2>3
<1>4. QED
  BY <1>2, <1>3 DEF Sound

LEMMA TrustStutters ==
  ASSUME Trust, UNCHANGED chatVars
  PROVE  Trust'
<1>1. \A q : Sound(q) => Sound(q)'
  BY DEF Sound, Trusted, Fresh, Chat!Fits, Chat!Blocked, chatVars
<1>2. ASSUME NEW w \in Workers
      PROVE  Sound(bot[w])'
  BY <1>1 DEF Trust, chatVars, Sound, Trusted, Fresh, Chat!Fits, Chat!Blocked, IsJob
<1>3. QED
  BY <1>2 DEF Trust, Asked, Listed, chatVars, Chat!Written, Chat!Refused, Chat!Range

\* isAdmin, runKit, runCustom: nobody has a line of an admins' command sent who has
\* not been an admin for longer than the list is trusted and the worker has time,
\* and nothing is sent of a command one of whose lines will not do: for every number
\* of players and workers, and every command.
THEOREM OnlyWhatItMayIsSent == Spec => SendsWhatItMay
<1> DEFINE ChatTrust == part = "chat" => Trust
<1>1. Init => ChatTrust
  BY TrustInit
<1>2. ChatTrust /\ [Next]_vars => ChatTrust'
  <2> SUFFICES ASSUME ChatTrust, [Next]_vars, part' = "chat"
               PROVE  Trust'
    OBVIOUS
  <2>1. CASE ChatMoves
    BY <2>1, TrustIsKept DEF ChatMoves
  <2>2. CASE UNCHANGED chatVars /\ UNCHANGED part
    BY <2>2, TrustStutters
  <2>3. QED
    BY <2>1, <2>2 DEF Next, vars, TilesMove, ListsMove, LoginsMove, HandsMove, BootMoves,
       PagesMove
<1>3. ChatTrust /\ [Next]_vars => [part = "chat" => Chat!SendsWhatItMay]_chatVars
  <2> SUFFICES ASSUME ChatTrust, [Next]_vars, part = "chat", ~UNCHANGED chatVars
               PROVE  Chat!SendsWhatItMay
    OBVIOUS
  <2>1. Trust /\ Chat!Next
    BY DEF Next, vars, ChatMoves, TilesMove, ListsMove, LoginsMove, HandsMove, BootMoves,
       PagesMove
  <2>2. QED
    BY <2>1, TrustPermits
<1>4. QED
  BY <1>1, <1>2, <1>3, PTL DEF Spec, SendsWhatItMay
-----------------------------------------------------------------------------
(***************************************************************************)
(* The bot: how often a player is let through.                             *)
(***************************************************************************)

ChargeType == [at : Nat, wait : Nat, back : BOOLEAN]

\* The uses of a player were charged one after the other, until now.
OneByOne(q, t) ==
  /\ \A i \in 1..Len(q) : 0 < q[i].at /\ q[i].at <= t
  /\ \A i, j \in 1..Len(q) : i < j => q[i].at <= q[j].at

\* A use that need not be remembered: one that was let through after it, as far from
\* it as was asked, has been given back.
Forgotten(q, i) ==
  \E k \in (i + 1)..Len(q) : q[k].back /\ q[i].at + q[k].wait <= q[k].at

\* Whatever else was charged is not younger than what the store has, u.
Remembered(q, u) ==
  \A i \in 1..Len(q) : q[i].back \/ q[i].at <= u \/ Forgotten(q, i)

\* A worker has let a player through, and is at it.
Timely(r) ==
  /\ r.at = "config" => r.claimed = Chat!Never
  /\ r.at \in {"plan", "run", "refund"} => r.claimed # Chat!Never
  /\ r.at \notin {"idle", "reply"} => r.player \in Players
  /\ r.claimed # Chat!Never => r.at \notin {"idle", "reply"}
  /\ r.claimed \in Nat /\ r.row.cooldown \in Nat

\* With what it charged him, which is on his account.
Booked(q, c) == \E k \in 1..Len(q) : q[k].at = c
Charged(r, books) ==
  r.claimed # Chat!Never /\ r.row.cooldown > 0 => Booked(books[r.player], r.claimed)

Jobs ==
  /\ time \in Nat /\ time > 0 /\ usedAt \in [Players -> Nat] /\ row.cooldown \in Nat
  /\ bot = [w \in Workers |-> bot[w]]
  /\ \A w \in Workers : IsJob(bot[w]) /\ Timely(bot[w]) /\ Charged(bot[w], charges)

Accounted(p) ==
  /\ OneByOne(charges[p], time)
  /\ p \notin stale => Chat!Apart(charges[p]) /\ Remembered(charges[p], usedAt[p])

Ledger ==
  /\ charges \in [Players -> Seq(ChargeType)]
  /\ \A p \in Players : Accounted(p)

\* What keeps the cooldown.
Paced == Jobs /\ Ledger

\* What becomes of a player's charges.

\* One that is a cooldown after what the store has is apart from all that is not
\* forgotten, and the store has it from then on.
LEMMA OneMoreCharge ==
  ASSUME NEW t \in Nat, t > 0, NEW u \in Nat, NEW wait \in Nat,
         NEW q \in Seq(ChargeType), OneByOne(q, t), Chat!Apart(q), Remembered(q, u),
         u = 0 \/ u <= t - wait
  PROVE  /\ Chat!Apart(Append(q, [at |-> t, wait |-> wait, back |-> FALSE]))
         /\ Remembered(Append(q, [at |-> t, wait |-> wait, back |-> FALSE]), t)
<1> DEFINE e == [at |-> t, wait |-> wait, back |-> FALSE]
           more == Append(q, e)
           n == Len(q)
<1>1. /\ e \in ChargeType /\ e.at = t /\ e.wait = wait /\ ~e.back
  BY DEF ChargeType
<1> HIDE DEF e
<1>2. /\ n \in Nat /\ Len(more) = n + 1 /\ more[n + 1] = e
      /\ \A i \in 1..n : more[i] = q[i]
      /\ DOMAIN q = 1..n /\ DOMAIN more = 1..(n + 1)
  BY <1>1, AppendProperties, LenProperties
<1>3. \A i \in 1..n : q[i].at \in Nat /\ q[i].wait \in Nat
  <2>1. \A i \in 1..n : q[i] \in ChargeType
    BY ElementOfSeq
  <2>2. QED
    BY <2>1 DEF ChargeType
<1> HIDE DEF more, n
<1>4. ASSUME NEW i \in 1..n, ~q[i].back
      PROVE  q[i].at + wait <= t \/ \E k \in (i + 1)..n : q[k].back /\ q[i].at + q[k].wait <= q[k].at
  <2>1. q[i].at <= u \/ Forgotten(q, i)
    BY <1>4 DEF Remembered, n
  <2>2. CASE q[i].at <= u
    <3>1. 0 < q[i].at
      BY <1>4 DEF OneByOne, n
    <3>2. QED
      BY <1>3, <1>4, <2>2, <3>1
  <2>3. QED
    BY <2>1, <2>2 DEF Forgotten, n
<1>5. Chat!Apart(more)
  <2> SUFFICES ASSUME NEW j \in 1..(n + 1), NEW i \in 1..(j - 1)
               PROVE  \/ more[i].back
                      \/ more[i].at + more[j].wait <= more[j].at
                      \/ \E k \in (i + 1)..(j - 1) :
                           more[k].back /\ more[i].at + more[k].wait <= more[k].at
    BY <1>2 DEF Chat!Apart
  <2>1. i \in 1..n /\ more[i] = q[i] /\ \A k \in (i + 1)..(j - 1) : more[k] = q[k]
    BY <1>2
  <2>2. CASE j = n + 1
    <3>1. more[j] = e /\ j - 1 = n
      BY <1>2, <2>2
    <3>2. QED
      BY <1>1, <1>4, <2>1, <3>1
  <2>3. CASE j # n + 1
    <3>1. j \in 1..n
      BY <1>2, <2>3
    <3>2. more[j] = q[j] /\ j \in DOMAIN q
      BY <1>2, <3>1
    <3>3. \/ q[i].back \/ q[i].at + q[j].wait <= q[j].at
          \/ \E k \in (i + 1)..(j - 1) : q[k].back /\ q[i].at + q[k].wait <= q[k].at
      BY <3>2 DEF Chat!Apart
    <3>4. QED
      BY <2>1, <3>2, <3>3
  <2>4. QED
    BY <2>2, <2>3
<1>6. Remembered(more, t)
  <2> SUFFICES ASSUME NEW i \in 1..(n + 1) PROVE more[i].at <= t
    BY <1>2 DEF Remembered
  <2>1. CASE i = n + 1
    BY <1>1, <1>2, <2>1
  <2>2. CASE i # n + 1
    <3>1. i \in 1..n
      BY <1>2, <2>2
    <3>2. more[i] = q[i] /\ q[i].at <= t
      BY <1>2, <3>1 DEF OneByOne, n
    <3>3. QED
      BY <3>2
  <2>3. QED
    BY <2>1, <2>2
<1>7. QED
  BY <1>5, <1>6 DEF more, e

LEMMA ChargedInOrder ==
  ASSUME NEW t \in Nat, t > 0, NEW wait \in Nat, NEW q \in Seq(ChargeType), OneByOne(q, t)
  PROVE  OneByOne(Append(q, [at |-> t, wait |-> wait, back |-> FALSE]), t)
<1> DEFINE e == [at |-> t, wait |-> wait, back |-> FALSE]
           more == Append(q, e)
           n == Len(q)
<1>1. e \in ChargeType /\ e.at = t
  BY DEF ChargeType
<1> HIDE DEF e
<1>2. /\ n \in Nat /\ Len(more) = n + 1 /\ more[n + 1] = e
      /\ \A i \in 1..n : more[i] = q[i]
  BY <1>1, AppendProperties, LenProperties
<1> HIDE DEF more, n
<1>3. \A i \in 1..n : more[i] = q[i] /\ 0 < q[i].at /\ q[i].at <= t
  BY <1>2 DEF OneByOne, n
<1>4. \A i \in 1..(n + 1) : i \in 1..n \/ (i = n + 1 /\ more[i].at = t)
  BY <1>1, <1>2
<1>5. \A i \in 1..(n + 1) : 0 < more[i].at /\ more[i].at <= t
  BY <1>3, <1>4
<1>6. ASSUME NEW i \in 1..(n + 1), NEW j \in 1..(n + 1), i < j
      PROVE  more[i].at <= more[j].at
  <2>1. CASE j = n + 1
    BY <1>4, <1>5, <1>6, <2>1, <1>2, <1>1
  <2>2. CASE j # n + 1
    <3>1. i \in 1..n /\ j \in 1..n
      BY <1>2, <1>6, <2>2
    <3>2. q[i].at <= q[j].at
      BY <1>6, <3>1 DEF OneByOne, n
    <3>3. QED
      BY <1>2, <3>1, <3>2
  <2>3. QED
    BY <2>1, <2>2
<1>7. OneByOne(more, t)
  BY <1>2, <1>5, <1>6 DEF OneByOne
<1>8. QED
  BY <1>7 DEF more, e

\* A charge that is given back stays where it was.
LEMMA GivingBack ==
  ASSUME NEW q \in Seq(ChargeType), NEW c
  PROVE  /\ Chat!GivenBack(q, c) \in Seq(ChargeType)
         /\ Len(Chat!GivenBack(q, c)) = Len(q)
         /\ \A i \in 1..Len(q) :
              /\ Chat!GivenBack(q, c)[i].at = q[i].at
              /\ Chat!GivenBack(q, c)[i].wait = q[i].wait
              /\ Chat!GivenBack(q, c)[i].back <=> q[i].back \/ q[i].at = c
<1> DEFINE n == Len(q)
           One(i) == IF q[i].at = c THEN [q[i] EXCEPT !.back = TRUE] ELSE q[i]
<1>1. n \in Nat /\ DOMAIN q = 1..n
  BY LenProperties
<1>2. \A i \in 1..n : q[i] \in ChargeType
  BY ElementOfSeq
<1>3. ASSUME NEW i \in 1..n
      PROVE  /\ One(i) \in ChargeType
             /\ One(i).at = q[i].at /\ One(i).wait = q[i].wait
             /\ One(i).back <=> q[i].back \/ q[i].at = c
  BY <1>2 DEF ChargeType
<1>4. Chat!GivenBack(q, c) = [i \in 1..n |-> One(i)]
  BY <1>1 DEF Chat!GivenBack
<1> HIDE DEF One, n
<1>5. Chat!GivenBack(q, c) \in Seq(ChargeType) /\ Len(Chat!GivenBack(q, c)) = n
  <2> DEFINE f == [i \in 1..n |-> One(i)]
  <2>1. f \in [1..n -> ChargeType]
    BY <1>3
  <2> HIDE DEF f
  <2>2. f \in Seq(ChargeType) /\ DOMAIN f = 1..n
    BY <1>1, <2>1
  <2>3. Len(f) = n
    BY <1>1, <2>2, LenProperties
  <2>4. QED
    BY <1>4, <2>2, <2>3 DEF f
<1>6. \A i \in 1..n : Chat!GivenBack(q, c)[i] = One(i)
  BY <1>4
<1>7. QED
  BY <1>3, <1>5, <1>6 DEF n

LEMMA GivenBackInOrder ==
  ASSUME NEW q \in Seq(ChargeType), NEW c, NEW t, OneByOne(q, t)
  PROVE  OneByOne(Chat!GivenBack(q, c), t)
<1> DEFINE g == Chat!GivenBack(q, c)
<1>1. Len(g) = Len(q) /\ \A i \in 1..Len(q) : g[i].at = q[i].at
  BY GivingBack
<1> HIDE DEF g
<1>2. OneByOne(g, t)
  BY <1>1 DEF OneByOne
<1>3. QED
  BY <1>2 DEF g

LEMMA GivenBackApart ==
  ASSUME NEW q \in Seq(ChargeType), NEW c, Chat!Apart(q)
  PROVE  Chat!Apart(Chat!GivenBack(q, c))
<1> DEFINE g == Chat!GivenBack(q, c)
<1>1. /\ g \in Seq(ChargeType) /\ Len(g) = Len(q)
      /\ \A i \in 1..Len(q) : g[i].at = q[i].at /\ g[i].wait = q[i].wait
                              /\ (q[i].back => g[i].back)
  BY GivingBack
<1> HIDE DEF g
<1>2. Len(q) \in Nat /\ DOMAIN q = 1..Len(q) /\ DOMAIN g = 1..Len(q)
  BY <1>1, LenProperties
<1>3. ASSUME NEW j \in 1..Len(q), NEW i \in 1..(j - 1)
      PROVE  \/ g[i].back \/ g[i].at + g[j].wait <= g[j].at
             \/ \E k \in (i + 1)..(j - 1) : g[k].back /\ g[i].at + g[k].wait <= g[k].at
  <2>1. i \in 1..Len(q) /\ \A k \in (i + 1)..(j - 1) : k \in 1..Len(q)
    BY <1>2
  <2>2. \/ q[i].back \/ q[i].at + q[j].wait <= q[j].at
        \/ \E k \in (i + 1)..(j - 1) : q[k].back /\ q[i].at + q[k].wait <= q[k].at
    BY <1>2 DEF Chat!Apart
  <2>3. QED
    BY <1>1, <2>1, <2>2
<1>4. Chat!Apart(g)
  BY <1>2, <1>3 DEF Chat!Apart
<1>5. QED
  BY <1>4 DEF g

\* Where the store has nothing of a player, all that is not given back is forgotten;
\* and where what it has is the request's own, it tells apart what was before.
LEMMA GivenBackRemembered ==
  ASSUME NEW t \in Nat, NEW u \in Nat, NEW c \in Nat, NEW q \in Seq(ChargeType),
         OneByOne(q, t), Chat!Apart(q), Remembered(q, u),
         u = 0 \/ (u = c /\ \E k \in 1..Len(q) : q[k].at = c)
  PROVE  Remembered(Chat!GivenBack(q, c), 0)
<1> DEFINE g == Chat!GivenBack(q, c)
           n == Len(q)
<1>1. /\ Len(g) = n
      /\ \A i \in 1..n : g[i].at = q[i].at /\ g[i].wait = q[i].wait
                         /\ (g[i].back <=> q[i].back \/ q[i].at = c)
  BY GivingBack
<1> HIDE DEF g
<1>2. n \in Nat /\ DOMAIN q = 1..n
  BY LenProperties
<1>3. \A i \in 1..n : q[i].at \in Nat /\ q[i].wait \in Nat
  <2>1. \A i \in 1..n : q[i] \in ChargeType
    BY ElementOfSeq
  <2>2. QED
    BY <2>1 DEF ChargeType
<1> HIDE DEF n
<1>4. ASSUME NEW i \in 1..n, ~g[i].back
      PROVE  \E k \in (i + 1)..n : g[k].back /\ q[i].at + q[k].wait <= q[k].at
  <2>1. ~q[i].back /\ q[i].at # c
    BY <1>1, <1>4
  <2>2. 0 < q[i].at
    BY DEF OneByOne, n
  <2>3. q[i].at <= u \/ Forgotten(q, i)
    BY <2>1 DEF Remembered, n
  <2>4. CASE Forgotten(q, i)
    <3>1. PICK k \in (i + 1)..n : q[k].back /\ q[i].at + q[k].wait <= q[k].at
      BY <2>4 DEF Forgotten, n
    <3>2. k \in 1..n
      BY <1>2, <3>1
    <3>3. QED
      BY <1>1, <3>1, <3>2
  <2>5. CASE q[i].at <= u
    <3>1. u = c
      BY <1>3, <2>2, <2>5
    <3>2. PICK k \in 1..n : q[k].at = c
      BY <1>3, <2>2, <2>5 DEF n
    <3>3. q[i].at < c
      BY <1>3, <2>1, <2>5, <3>1
    <3>4. i < k
      <4>1. CASE k < i
        <5>1. q[k].at <= q[i].at
          BY <4>1 DEF OneByOne, n
        <5>2. QED
          BY <1>3, <3>2, <3>3, <5>1
      <4>2. k # i
        BY <2>1, <3>2
      <4>3. QED
        BY <4>1, <4>2
    <3>5. i \in 1..(k - 1) /\ k \in DOMAIN q
      BY <1>2, <3>2, <3>4
    <3>6. \/ q[i].at + q[k].wait <= q[k].at
          \/ \E m \in (i + 1)..(k - 1) : q[m].back /\ q[i].at + q[m].wait <= q[m].at
      BY <2>1, <3>5 DEF Chat!Apart
    <3>7. CASE q[i].at + q[k].wait <= q[k].at
      BY <1>1, <1>2, <3>2, <3>4, <3>7
    <3>8. CASE \E m \in (i + 1)..(k - 1) : q[m].back /\ q[i].at + q[m].wait <= q[m].at
      <4>1. PICK m \in (i + 1)..(k - 1) : q[m].back /\ q[i].at + q[m].wait <= q[m].at
        BY <3>8
      <4>2. m \in (i + 1)..n /\ m \in 1..n
        BY <1>2, <4>1
      <4>3. QED
        BY <1>1, <4>1, <4>2
    <3>9. QED
      BY <3>6, <3>7, <3>8
  <2>6. QED
    BY <2>3, <2>4, <2>5
<1>5. Remembered(g, 0)
  <2> SUFFICES ASSUME NEW i \in 1..n, ~g[i].back PROVE Forgotten(g, i)
    BY <1>1 DEF Remembered
  <2>1. PICK k \in (i + 1)..n : g[k].back /\ q[i].at + q[k].wait <= q[k].at
    BY <1>4
  <2>2. k \in 1..n
    BY <1>2, <2>1
  <2>3. QED
    BY <1>1, <2>1, <2>2 DEF Forgotten
<1>6. QED
  BY <1>5 DEF g
\* What becomes of the workers.

\* A worker goes on with what he has charged, if anything ...
GoesOn(w, r) ==
  /\ {r.at, bot[w].at} \cap {"idle", "reply"} = {}
  /\ r.player = bot[w].player /\ r.claimed = bot[w].claimed
  /\ r.row = bot[w].row \/ (r.claimed = Chat!Never /\ r.row = row)
  /\ r.at # "config" /\ (r.at \in {"plan", "run", "refund"} => r.claimed # Chat!Never)

\* ... or has no claim (any more).
Unclaimed(r) ==
  /\ r.claimed = Chat!Never /\ r.at \notin {"plan", "run", "refund"}
  /\ r.at \notin {"idle", "reply"} => r.player \in Players
  /\ r.row.cooldown \in Nat

LEMMA JobsGoOn ==
  ASSUME Jobs, NEW w \in Workers, NEW r, IsJob(r), Timely(r), Charged(r, charges'),
         bot' = [bot EXCEPT ![w] = r], UNCHANGED <<time, row>>,
         usedAt' \in [Players -> Nat],
         \A p \in Players : \A c : Booked(charges[p], c) => Booked(charges'[p], c)
  PROVE  Jobs'
<1>1. /\ bot' = [v \in Workers |-> bot'[v]] /\ bot'[w] = r
      /\ \A v \in Workers : v # w => bot'[v] = bot[v]
  BY DEF Jobs
<1>2. ASSUME NEW v \in Workers
      PROVE  IsJob(bot'[v]) /\ Timely(bot'[v]) /\ Charged(bot'[v], charges')
  <2>1. CASE v = w
    BY <1>1, <2>1 DEF Charged
  <2>2. CASE v # w
    <3>1. bot'[v] = bot[v] /\ IsJob(bot[v]) /\ Timely(bot[v]) /\ Charged(bot[v], charges)
      BY <1>1, <2>2 DEF Jobs
    <3>2. Charged(bot'[v], charges')
      BY <3>1 DEF Charged, Timely
    <3>3. QED
      BY <3>1, <3>2
  <2>3. QED
    BY <2>1, <2>2
<1>3. QED
  BY <1>1, <1>2 DEF Jobs, IsJob, Timely, Charged, Booked

LEMMA JobGoesOn ==
  ASSUME Paced, NEW w \in Workers, NEW r, IsJob(r), GoesOn(w, r) \/ Unclaimed(r),
         bot' = [bot EXCEPT ![w] = r], UNCHANGED <<time, row, usedAt, charges, stale>>
  PROVE  Paced'
<1>1. Timely(bot[w]) /\ Charged(bot[w], charges) /\ row.cooldown \in Nat
  BY DEF Paced, Jobs
<1>2. Timely(r)
  <2>1. CASE GoesOn(w, r)
    <3>1. r.at \notin {"idle", "reply"} /\ bot[w].at \notin {"idle", "reply"}
      BY <2>1 DEF GoesOn
    <3>2. r.player \in Players /\ r.claimed \in Nat
      BY <1>1, <2>1, <3>1 DEF Timely, GoesOn
    <3>3. r.row.cooldown \in Nat
      BY <1>1, <2>1 DEF Timely, GoesOn
    <3>4. QED
      BY <2>1, <3>1, <3>2, <3>3 DEF Timely, GoesOn
  <2>2. CASE Unclaimed(r)
    BY <2>2 DEF Timely, Unclaimed, Chat!Never
  <2>3. QED
    BY <2>1, <2>2
<1>3. Charged(r, charges')
  <2>1. CASE GoesOn(w, r)
    <3>1. r.claimed = Chat!Never \/ r.row = bot[w].row
      BY <2>1 DEF GoesOn
    <3>2. r.player = bot[w].player /\ r.claimed = bot[w].claimed
      BY <2>1 DEF GoesOn
    <3>3. QED
      BY <1>1, <3>1, <3>2 DEF Charged
  <2>2. CASE Unclaimed(r)
    BY <2>2 DEF Unclaimed, Charged
  <2>3. QED
    BY <2>1, <2>2
<1>4. usedAt' \in [Players -> Nat] /\ Jobs
  BY DEF Paced, Jobs
<1>5. Jobs'
  BY <1>2, <1>3, <1>4, JobsGoOn
<1>6. Ledger'
  BY DEF Paced, Ledger, Accounted
<1>7. QED
  BY <1>5, <1>6 DEF Paced

\* A cooldown after the use before, a player is let through, and charged.
LEMMA SomebodyClaims ==
  ASSUME Paced, NEW w \in Workers, Chat!TakesCooldown(w), Chat!LetThrough(w),
         Chat!OldEnough(bot[w].player, bot[w].row.cooldown)
  PROVE  Paced'
<1> DEFINE p == bot[w].player
           wait == bot[w].row.cooldown
           r == [bot[w] EXCEPT !.at = "plan", !.claimed = time]
           e == [at |-> time, wait |-> wait, back |-> FALSE]
           q == charges[p]
<1>1. /\ time \in Nat /\ time > 0 /\ usedAt \in [Players -> Nat]
      /\ IsJob(bot[w]) /\ Timely(bot[w]) /\ charges \in [Players -> Seq(ChargeType)]
  BY DEF Paced, Jobs, Ledger
<1>2. /\ bot[w].at = "cooldown" /\ p \in Players /\ wait \in Nat
      /\ usedAt' = [usedAt EXCEPT ![p] = time]
      /\ charges' = [charges EXCEPT ![p] = Append(q, e)]
      /\ bot' = [bot EXCEPT ![w].at = "plan", ![w].claimed = time]
      /\ UNCHANGED <<time, row, stale>>
      /\ usedAt[p] = 0 \/ usedAt[p] <= time - wait
  BY <1>1 DEF Chat!TakesCooldown, Chat!Recorded, Chat!OldEnough, Timely, Chat!Never,
     Chat!Charge, Chat!LetThrough, Chat!stored
<1>3. bot' = [bot EXCEPT ![w] = r]
  BY <1>2 DEF Paced, Jobs, IsJob, JobFields
<1>4. /\ IsJob(r) /\ r.at = "plan" /\ r.claimed = time /\ r.player = p
      /\ r.row.cooldown = wait
  BY <1>1 DEF IsJob, JobFields
<1>5. e \in ChargeType /\ e.at = time
  BY <1>1, <1>2 DEF ChargeType
<1> HIDE DEF p, wait, r
<1>6. /\ q \in Seq(ChargeType) /\ Len(q) \in Nat /\ Append(q, e) \in Seq(ChargeType)
      /\ Len(Append(q, e)) = Len(q) + 1 /\ Append(q, e)[Len(q) + 1] = e
      /\ \A i \in 1..Len(q) : Append(q, e)[i] = q[i]
  <2>1. q \in Seq(ChargeType)
    BY <1>1, <1>2
  <2> HIDE DEF q, e
  <2>2. QED
    BY <1>5, <2>1, AppendProperties, LenProperties
<1>7. usedAt' \in [Players -> Nat] /\ usedAt'[p] = time
      /\ \A o \in Players : o # p => usedAt'[o] = usedAt[o]
  BY <1>1, <1>2
<1>8. charges' \in [Players -> Seq(ChargeType)] /\ charges'[p] = Append(q, e)
      /\ \A o \in Players : o # p => charges'[o] = charges[o]
  BY <1>1, <1>2, <1>6
<1>9. Accounted(p)
  BY <1>2 DEF Paced, Ledger
<1>10. OneByOne(Append(q, e), time)
  BY <1>1, <1>2, <1>6, <1>9, ChargedInOrder DEF Accounted
<1>11. p \notin stale => Chat!Apart(Append(q, e)) /\ Remembered(Append(q, e), time)
  <2>1. ASSUME p \notin stale
        PROVE  Chat!Apart(q) /\ Remembered(q, usedAt[p]) /\ OneByOne(q, time)
    BY <1>9, <2>1 DEF Accounted
  <2>2. usedAt[p] \in Nat
    BY <1>1, <1>2
  <2> HIDE DEF q
  <2>3. QED
    BY <1>1, <1>2, <1>6, <2>1, <2>2, OneMoreCharge
<1> HIDE DEF q, e
<1>12. Ledger'
  <2>1. ASSUME NEW o \in Players PROVE Accounted(o)'
    <3>1. CASE o = p
      <4>1. charges'[o] = Append(q, e) /\ usedAt'[o] = time /\ time' = time /\ stale' = stale
        BY <1>2, <1>7, <1>8, <3>1
      <4>2. QED
        BY <1>10, <1>11, <3>1, <4>1 DEF Accounted
    <3>2. CASE o # p
      BY <1>2, <1>7, <1>8, <3>2 DEF Accounted, Paced, Ledger
    <3>3. QED
      BY <3>1, <3>2
  <2>2. QED
    BY <1>8, <2>1 DEF Ledger
<1>13. Charged(r, charges')
  <2>1. Len(q) + 1 \in 1..Len(charges'[p]) /\ charges'[p][Len(q) + 1].at = time
    BY <1>5, <1>6, <1>8
  <2>2. Booked(charges'[p], time)
    BY <2>1 DEF Booked
  <2>3. QED
    BY <1>4, <2>2 DEF Charged
<1>14. \A o \in Players : \A c : Booked(charges[o], c) => Booked(charges'[o], c)
  <2> SUFFICES ASSUME NEW o \in Players, NEW c, NEW k \in 1..Len(charges[o]),
                      charges[o][k].at = c
               PROVE  \E m \in 1..Len(charges'[o]) : charges'[o][m].at = c
    BY DEF Booked
  <2>1. CASE o = p
    <3>1. k \in 1..Len(Append(q, e)) /\ Append(q, e)[k] = q[k]
      BY <1>6, <2>1 DEF q
    <3>2. QED
      BY <1>8, <2>1, <3>1 DEF q
  <2>2. CASE o # p
    BY <1>8, <2>2
  <2>3. QED
    BY <2>1, <2>2
<1>15. Timely(r)
  BY <1>1, <1>2, <1>4 DEF Timely, Chat!Never
<1>16. Jobs /\ UNCHANGED <<time, row>>
  BY <1>2 DEF Paced
<1>17. Jobs'
  BY <1>3, <1>4, <1>7, <1>13, <1>14, <1>15, <1>16, JobsGoOn
<1>18. QED
  BY <1>12, <1>17 DEF Paced

\* Who gives back what he was charged himself, or nothing, leaves nobody's use
\* forgotten; whoever gives back another's marks the player.
LEMMA SomebodyIsRefunded ==
  ASSUME Paced, NEW w \in Workers, Chat!Refunds(w)
  PROVE  Paced'
<1> DEFINE p == bot[w].player
           c == bot[w].claimed
           charged == bot[w].row.cooldown > 0
           q == charges[p]
           g == Chat!GivenBack(q, c)
<1>1. /\ time \in Nat /\ usedAt \in [Players -> Nat]
      /\ Timely(bot[w]) /\ Charged(bot[w], charges) /\ charges \in [Players -> Seq(ChargeType)]
  BY DEF Paced, Jobs, Ledger
<1>2. /\ bot[w].at = "refund" /\ bot' = [bot EXCEPT ![w] = Chat!Replying]
      /\ usedAt' = [usedAt EXCEPT ![p] = 0]
      /\ charges' = IF charged THEN [charges EXCEPT ![p] = g] ELSE charges
      /\ stale' = IF usedAt[p] = 0 \/ (charged /\ usedAt[p] = c)
                  THEN stale ELSE stale \cup {p}
      /\ UNCHANGED <<time, row>>
  BY DEF Chat!Refunds, Chat!Answers, Chat!Never, Chat!stored
<1>3. p \in Players /\ c \in Nat /\ c # Chat!Never
  BY <1>1, <1>2 DEF Timely
<1>4. charged => \E k \in 1..Len(q) : q[k].at = c
  BY <1>1, <1>3 DEF Charged, Booked
<1> HIDE DEF c, charged
<1>5. /\ q \in Seq(ChargeType) /\ g \in Seq(ChargeType) /\ Len(g) = Len(q)
      /\ \A i \in 1..Len(q) : g[i].at = q[i].at
  <2>1. q \in Seq(ChargeType)
    BY <1>1, <1>3
  <2> HIDE DEF q
  <2>2. QED
    BY <2>1, GivingBack
<1> HIDE DEF p
<1>6. /\ usedAt' \in [Players -> Nat] /\ usedAt'[p] = 0
      /\ \A o \in Players : o # p => usedAt'[o] = usedAt[o]
  BY <1>1, <1>2, <1>3
<1>7. /\ charges' \in [Players -> Seq(ChargeType)]
      /\ charges'[p] = IF charged THEN g ELSE q
      /\ \A o \in Players : o # p => charges'[o] = charges[o]
  BY <1>1, <1>2, <1>3, <1>5
<1>8. Accounted(p)
  BY <1>3 DEF Paced, Ledger
<1>9. OneByOne(charges'[p], time)
  <2>1. OneByOne(q, time)
    BY <1>8 DEF Accounted
  <2> HIDE DEF q
  <2>2. OneByOne(g, time)
    BY <1>5, <2>1, GivenBackInOrder
  <2>3. QED
    BY <1>7, <2>1, <2>2
<1>10. ASSUME p \notin stale'
       PROVE  Chat!Apart(charges'[p]) /\ Remembered(charges'[p], 0)
  <2>1. p \notin stale /\ (usedAt[p] = 0 \/ (charged /\ usedAt[p] = c))
    BY <1>2, <1>10
  <2>2. Chat!Apart(q) /\ Remembered(q, usedAt[p]) /\ OneByOne(q, time)
    BY <1>8, <2>1 DEF Accounted
  <2>3. usedAt[p] \in Nat
    BY <1>1, <1>3
  <2> HIDE DEF q
  <2>4. CASE charged
    <3>1. Chat!Apart(g)
      BY <1>5, <2>2, GivenBackApart
    <3>2. Remembered(g, 0)
      BY <1>1, <1>3, <1>4, <1>5, <2>1, <2>2, <2>3, <2>4, GivenBackRemembered
    <3>3. QED
      BY <1>7, <2>4, <3>1, <3>2
  <2>5. CASE ~charged
    BY <1>7, <2>1, <2>2, <2>5
  <2>6. QED
    BY <2>4, <2>5
<1>11. Ledger'
  <2>1. ASSUME NEW o \in Players PROVE Accounted(o)'
    <3>1. CASE o = p
      BY <1>2, <1>6, <1>9, <1>10, <3>1 DEF Accounted
    <3>2. CASE o # p
      <4>1. Accounted(o) /\ charges'[o] = charges[o] /\ usedAt'[o] = usedAt[o]
        BY <1>6, <1>7, <3>2 DEF Paced, Ledger
      <4>2. time' = time /\ (o \notin stale' => o \notin stale)
        BY <1>2
      <4>3. QED
        BY <4>1, <4>2 DEF Accounted
    <3>3. QED
      BY <3>1, <3>2
  <2>2. QED
    BY <1>7, <2>1 DEF Ledger
<1>12. ASSUME NEW o \in Players, NEW d, NEW k \in 1..Len(charges[o]), charges[o][k].at = d
       PROVE  \E m \in 1..Len(charges'[o]) : charges'[o][m].at = d
  <2>1. CASE o = p /\ charged
    <3>1. charges'[o] = g /\ charges[o] = q
      BY <1>7, <2>1
    <3> HIDE DEF g, q
    <3>2. QED
      BY <1>5, <1>12, <3>1
  <2>2. CASE o # p \/ ~charged
    BY <1>7, <1>12, <2>2
  <2>3. QED
    BY <2>1, <2>2
<1>13. /\ IsJob(Chat!Replying) /\ Timely(Chat!Replying) /\ Chat!Replying.claimed = Chat!Never
  BY DEF IsJob, JobFields, Chat!Replying, Chat!Idle, Timely, Chat!NoRow, Chat!Never
<1>14. Charged(Chat!Replying, charges')
  BY <1>13 DEF Charged, Chat!Replying, Chat!Idle
<1>15. \A o \in Players : \A d : Booked(charges[o], d) => Booked(charges'[o], d)
  BY <1>12 DEF Booked
<1>16. Jobs /\ bot' = [bot EXCEPT ![w] = Chat!Replying] /\ UNCHANGED <<time, row>>
  BY <1>2 DEF Paced
<1>17. Jobs'
  BY <1>6, <1>13, <1>14, <1>15, <1>16, JobsGoOn
<1>18. QED
  BY <1>11, <1>17 DEF Paced
LEMMA JobStays ==
  ASSUME NEW r, IsJob(r), NEW at
  PROVE  /\ IsJob([r EXCEPT !.at = at]) /\ [r EXCEPT !.at = at].at = at
         /\ [r EXCEPT !.at = at].player = r.player /\ [r EXCEPT !.at = at].row = r.row
         /\ [r EXCEPT !.at = at].claimed = r.claimed
BY DEF IsJob, JobFields

\* Whoever has his place in a request may take another one.
LEMMA Moving ==
  ASSUME Paced, NEW w \in Workers, NEW at, bot' = [bot EXCEPT ![w].at = at],
         {at, bot[w].at} \cap {"idle", "reply"} = {},
         at # "config", at \in {"plan", "run", "refund"} => bot[w].claimed # Chat!Never,
         UNCHANGED <<time, row, usedAt, charges, stale>>
  PROVE  Paced'
<1> DEFINE r == [bot[w] EXCEPT !.at = at]
<1>1. IsJob(bot[w])
  BY DEF Paced, Jobs
<1>2. IsJob(r) /\ GoesOn(w, r)
  BY <1>1, JobStays DEF GoesOn
<1>3. bot' = [bot EXCEPT ![w] = r]
  BY DEF Paced, Jobs
<1>4. QED
  BY <1>2, <1>3, JobGoesOn

\* Whoever has nothing left to do but answer, or give back what he claimed.
LEMMA Resting ==
  ASSUME Paced, NEW w \in Workers,
         Chat!Rests(w) \/ Chat!Answers(w) \/ (Chat!Failed(w) /\ bot[w].claimed # Chat!Never),
         UNCHANGED <<time, row, usedAt, charges, stale>>
  PROVE  Paced'
<1>1. CASE Chat!Rests(w)
  <2>1. IsJob(Chat!Idle) /\ Unclaimed(Chat!Idle)
    BY DEF IsJob, JobFields, Unclaimed, Chat!Idle, Chat!NoRow
  <2>2. QED
    BY <1>1, <2>1, JobGoesOn DEF Chat!Rests
<1>2. CASE Chat!Answers(w)
  <2>1. IsJob(Chat!Replying) /\ Unclaimed(Chat!Replying)
    BY DEF IsJob, JobFields, Unclaimed, Chat!Idle, Chat!Replying, Chat!NoRow
  <2>2. QED
    BY <1>2, <2>1, JobGoesOn DEF Chat!Answers
<1>3. CASE Chat!Failed(w) /\ bot[w].claimed # Chat!Never
  <2> DEFINE r == [Chat!Idle EXCEPT !.at = "refund", !.player = bot[w].player,
                     !.since = bot[w].since, !.claimed = bot[w].claimed,
                     !.row = bot[w].row]
  <2>1. IsJob(r) /\ GoesOn(w, r)
    BY <1>3 DEF IsJob, JobFields, GoesOn, Chat!Idle, Paced, Jobs, Timely
  <2>2. bot' = [bot EXCEPT ![w] = r]
    BY <1>3 DEF Chat!Failed
  <2>3. QED
    BY <2>1, <2>2, JobGoesOn
<1>4. QED
  BY <1>1, <1>2, <1>3

\* The list of admins lets a request pass, or it is answered.
Passed(w, r) ==
  \/ bot[w].claimed # Chat!Never /\ r = [bot[w] EXCEPT !.at = "run", !.ids = {}]
  \/ bot[w].claimed = Chat!Never /\ r = [bot[w] EXCEPT !.at = "cooldown", !.ids = {}]
  \/ r = Chat!Replying

LEMMA Judged ==
  ASSUME Paced, NEW w \in Workers, NEW r, bot[w].at \notin {"idle", "reply"},
         bot' = [bot EXCEPT ![w] = r], Passed(w, r), UNCHANGED <<time, row, usedAt, charges, stale>>
  PROVE  Paced'
<1>1. IsJob(bot[w])
  BY DEF Paced, Jobs
<1>2. CASE bot[w].claimed # Chat!Never /\ r = [bot[w] EXCEPT !.at = "run", !.ids = {}]
  <2>1. IsJob(r) /\ GoesOn(w, r)
    BY <1>1, <1>2 DEF IsJob, JobFields, GoesOn
  <2>2. QED
    BY <2>1, JobGoesOn
<1>3. CASE bot[w].claimed = Chat!Never /\ r = [bot[w] EXCEPT !.at = "cooldown", !.ids = {}]
  <2>1. IsJob(r) /\ GoesOn(w, r)
    BY <1>1, <1>3 DEF IsJob, JobFields, GoesOn
  <2>2. QED
    BY <2>1, JobGoesOn
<1>4. CASE r = Chat!Replying
  <2>1. IsJob(r) /\ Unclaimed(r)
    BY <1>4 DEF IsJob, JobFields, Unclaimed, Chat!Idle, Chat!Replying, Chat!NoRow
  <2>2. QED
    BY <2>1, JobGoesOn
<1>5. QED
  BY <1>2, <1>3, <1>4 DEF Passed

\* What the step before the lines are sent makes of a request.
LEMMA Planned ==
  ASSUME Paced, NEW w \in Workers, NEW plan, Chat!Runs(w, plan), bot[w].at = "plan",
         UNCHANGED <<time, row, usedAt, charges, stale>>
  PROVE  Paced'
<1> DEFINE r == [bot[w] EXCEPT !.at = "run", !.plan = plan]
<1>1. IsJob(bot[w]) /\ bot[w].claimed # Chat!Never
  BY DEF Paced, Jobs, Timely
<1>2. IsJob(r) /\ GoesOn(w, r)
  BY <1>1 DEF IsJob, JobFields, GoesOn
<1>3. bot' = [bot EXCEPT ![w] = r]
  BY <1>1 DEF Chat!Runs, Paced, Jobs, IsJob, JobFields
<1>4. QED
  BY <1>2, <1>3, JobGoesOn

\* Without a cooldown nothing is charged.
LEMMA FreeOfCharge ==
  ASSUME Paced, NEW w \in Workers, Chat!LetThrough(w), bot[w].at = "cooldown",
         bot[w].row.cooldown = 0, UNCHANGED <<time, row, usedAt, charges, stale>>
  PROVE  Paced'
<1> DEFINE r == [bot[w] EXCEPT !.at = "plan", !.claimed = time]
<1>1. /\ IsJob(bot[w]) /\ Timely(bot[w]) /\ Jobs
      /\ time \in Nat /\ time > 0 /\ usedAt' \in [Players -> Nat]
  BY DEF Paced, Jobs
<1>2. bot' = [bot EXCEPT ![w] = r]
  BY <1>1 DEF Chat!LetThrough, Jobs, IsJob, JobFields
<1>3. /\ IsJob(r) /\ r.at = "plan" /\ r.claimed = time /\ r.player = bot[w].player
      /\ r.row.cooldown = 0
  BY <1>1 DEF IsJob, JobFields
<1> HIDE DEF r
<1>4. Timely(r) /\ Charged(r, charges')
  BY <1>1, <1>3 DEF Timely, Charged, Chat!Never
<1>5. Jobs'
  BY <1>1, <1>2, <1>3, <1>4, JobsGoOn
<1>6. Ledger'
  BY DEF Paced, Ledger, Accounted
<1>7. QED
  BY <1>5, <1>6 DEF Paced

LEMMA WorkerKeepsPace ==
  ASSUME Paced, NEW w \in Workers,
         Chat!WorkerStep(w) \/ Chat!Fails(w)
  PROVE  Paced'
<1>1. IsJob(bot[w]) /\ Timely(bot[w]) /\ bot = [v \in Workers |-> bot[v]]
  BY DEF Paced, Jobs
<1>2. CASE Chat!ReadsConfig(w)
  <2> DEFINE at == IF row.admins THEN "admin" ELSE "cooldown"
             r == [bot[w] EXCEPT !.row = row, !.at = at]
  <2>1. CASE row.enabled
    <3>1. bot' = [bot EXCEPT ![w].row = row, ![w].at = at]
      BY <1>2, <2>1 DEF Chat!ReadsConfig, Chat!stored
    <3>2. at \in {"admin", "cooldown"}
      OBVIOUS
    <3> HIDE DEF at
    <3>3. bot' = [bot EXCEPT ![w] = r]
      BY <1>1, <3>1 DEF IsJob, JobFields
    <3>4. IsJob(r) /\ GoesOn(w, r)
      BY <1>1, <1>2, <3>2 DEF IsJob, JobFields, GoesOn, Timely, Chat!ReadsConfig
    <3>5. QED
      BY <1>2, <3>3, <3>4, JobGoesOn DEF Chat!ReadsConfig, Chat!stored
  <2>2. CASE ~row.enabled
    BY <1>2, <2>2, Resting DEF Chat!ReadsConfig, Chat!stored
  <2>3. QED
    BY <2>1, <2>2
<1>3. CASE Chat!ConsultsList(w)
  <2>1. CASE bot' = [bot EXCEPT ![w] = Chat!Verdict(w, list.ids)]
    <3>1. bot[w].at = "admin" /\ UNCHANGED <<time, row, usedAt, charges, stale>>
      BY <1>3 DEF Chat!ConsultsList, Chat!stored
    <3>2. PICK r : Passed(w, r) /\ bot' = [bot EXCEPT ![w] = r]
      BY <2>1 DEF Passed, Chat!Verdict
    <3>3. QED
      BY <3>1, <3>2, Judged
  <2>2. CASE Chat!Goes(w, "listing")
    BY <1>3, <2>2, Moving DEF Chat!ConsultsList, Chat!Goes, Chat!stored
  <2>3. QED
    BY <1>3, <2>1, <2>2 DEF Chat!ConsultsList, Chat!stored
<1>4. CASE Chat!GetsList(w)
  <2> DEFINE r == [bot[w] EXCEPT !.at = "storing", !.ids = admins]
  <2>1. bot' = [bot EXCEPT ![w] = r]
    BY <1>1, <1>4 DEF IsJob, JobFields, Chat!GetsList, Chat!stored
  <2>2. IsJob(r) /\ GoesOn(w, r)
    BY <1>1, <1>4 DEF IsJob, JobFields, GoesOn, Chat!GetsList, Chat!stored
  <2>3. QED
    BY <1>4, <2>1, <2>2, JobGoesOn DEF Chat!GetsList, Chat!stored
<1>5. CASE Chat!StoresList(w)
  <2>1. bot[w].at = "storing" /\ UNCHANGED <<time, row, usedAt, charges, stale>>
    BY <1>5 DEF Chat!StoresList, Chat!stored
  <2>2. PICK r : Passed(w, r) /\ bot' = [bot EXCEPT ![w] = r]
    BY <1>5 DEF Chat!StoresList, Passed, Chat!Verdict, Chat!stored
  <2>3. QED
    BY <2>1, <2>2, Judged
<1>6. CASE Chat!TakesCooldown(w)
  <2>1. CASE Chat!OldEnough(bot[w].player, bot[w].row.cooldown)
    BY <1>6, <2>1, SomebodyClaims DEF Chat!TakesCooldown
  <2>2. CASE ~Chat!OldEnough(bot[w].player, bot[w].row.cooldown)
    BY <1>6, <2>2, Resting DEF Chat!TakesCooldown, Chat!stored
  <2>3. QED
    BY <2>1, <2>2
<1>7. CASE Chat!Reports(w)
  BY <1>7, Planned DEF Chat!Reports, Chat!stored
<1>8. CASE Chat!Helps(w)
  <2>1. CASE Chat!Goes(w, "admin")
    BY <1>8, <2>1, Moving DEF Chat!Helps, Chat!Goes, Chat!stored
  <2>2. CASE Chat!Runs(w, <<>>)
    BY <1>8, <2>2, Planned DEF Chat!Helps, Chat!stored
  <2>3. QED
    BY <1>8, <2>1, <2>2 DEF Chat!Helps, Chat!stored
<1>9. CASE Chat!LooksUpKit(w)
  <2>1. \/ Chat!Runs(w, <<>>) \/ Chat!Runs(w, [i \in 1..kit.items |-> "plain"])
        \/ Chat!Failed(w)
    BY <1>9 DEF Chat!LooksUpKit, Chat!stored
  <2>2. bot[w].at = "plan" /\ bot[w].claimed # Chat!Never /\ UNCHANGED <<time, row, usedAt, charges, stale>>
    BY <1>1, <1>9 DEF Chat!LooksUpKit, Timely, Chat!stored
  <2>3. QED
    BY <2>1, <2>2, Planned, Resting
<1>10. CASE Chat!Composes(w)
  <2>1. bot[w].at = "plan" /\ bot[w].claimed # Chat!Never /\ UNCHANGED <<time, row, usedAt, charges, stale>>
    BY <1>1, <1>10 DEF Chat!Composes, Timely, Chat!stored
  <2>2. Chat!Runs(w, bot[w].row.lines) \/ Chat!Failed(w)
    BY <1>10 DEF Chat!Composes, Chat!stored
  <2>3. QED
    BY <2>1, <2>2, Planned, Resting
<1>11. CASE Chat!Executes(w)
  <2> DEFINE r == [bot[w] EXCEPT !.sent = @ + 1]
  <2>1. bot' = [bot EXCEPT ![w] = r]
    BY <1>1, <1>11 DEF Chat!Executes, Chat!stored
  <2>2. IsJob(r) /\ GoesOn(w, r)
    BY <1>1, <1>11 DEF IsJob, JobFields, GoesOn, Chat!Executes, Timely, Chat!stored
  <2>3. QED
    BY <1>11, <2>1, <2>2, JobGoesOn DEF Chat!Executes, Chat!stored
<1>12. CASE Chat!GivesUp(w)
  BY <1>1, <1>12, Resting DEF Chat!GivesUp, Timely, Chat!stored
<1>13. CASE Chat!Serves(w) \/ Chat!TakesNoCooldown(w)
  BY <1>13, Resting, FreeOfCharge DEF Chat!Serves, Chat!TakesNoCooldown, Chat!stored
<1>14. CASE Chat!Refunds(w)
  BY <1>14, SomebodyIsRefunded
<1>15. CASE Chat!Replies(w) \/ Chat!Expires(w)
  BY <1>15, Resting DEF Chat!Replies, Chat!Expires, Chat!stored
<1>16. CASE Chat!Fails(w)
  <2>1. UNCHANGED <<time, row, usedAt, charges, stale>>
    BY <1>16 DEF Chat!Fails, Chat!stored
  <2>2. \/ Chat!Answers(w) \/ Chat!Rests(w)
        \/ Chat!Failed(w) /\ bot[w].claimed # Chat!Never
    BY <1>16 DEF Chat!Fails, Chat!stored
  <2>3. QED
    BY <2>1, <2>2, Resting
<1>17. QED
  BY <1>2, <1>3, <1>4, <1>5, <1>6, <1>7, <1>8, <1>9, <1>10, <1>11, <1>12, <1>13,
     <1>14, <1>15, <1>16 DEF Chat!WorkerStep

LEMMA NothingCharged ==
  ASSUME NEW t, NEW u
  PROVE  OneByOne(<<>>, t) /\ Chat!Apart(<<>>) /\ Remembered(<<>>, u)
<1>1. Len(<<>>) = 0 /\ DOMAIN <<>> = {}
  OBVIOUS
<1>2. QED
  BY <1>1 DEF OneByOne, Chat!Apart, Remembered

LEMMA RowsHaveCooldowns ==
  ASSUME NEW n \in Typings, NEW saved, saved = Chat!NoRow \/ saved \in Chat!Written(n)
  PROVE  saved.cooldown \in Nat
<1>1. CASE saved = Chat!NoRow
  BY <1>1 DEF Chat!NoRow
<1>2. CASE saved \in Chat!Written(n)
  <2>1. PICK r \in Rows[n] :
          saved = IF n \in Chat!BuiltIn THEN [r EXCEPT !.lines = <<>>, !.says = FALSE] ELSE r
    BY <1>2 DEF Chat!Written
  <2>2. r \in [enabled : BOOLEAN, admins : BOOLEAN, says : BOOLEAN, lines : Seq(Lines),
               cooldown : Nat]
    BY <2>1, BotAssumption DEF Lines
  <2>3. QED
    BY <2>1, <2>2
<1>3. QED
  BY <1>1, <1>2

\* While the command is not deleted under anybody.
LEMMA PaceIsKept ==
  ASSUME Paced, Asked', Chat!Next, ~crossed'
  PROVE  Paced'
<1> row'.cooldown \in Nat
  BY RowsHaveCooldowns DEF Asked, Chat!Written
<1>1. ASSUME UNCHANGED <<time, bot, usedAt, charges, stale>>
      PROVE  Paced'
  <2>1. Jobs'
    BY <1>1 DEF Paced, Jobs, Timely, Charged, Booked, IsJob
  <2>2. Ledger'
    BY <1>1 DEF Paced, Ledger, Accounted
  <2>3. QED
    BY <2>1, <2>2 DEF Paced
<1>2. ASSUME \A w \in Workers : bot'[w].claimed = Chat!Never /\ Timely(bot'[w]) /\ IsJob(bot'[w]),
             bot' = [w \in Workers |-> bot'[w]], UNCHANGED time,
             usedAt' \in [Players -> Nat], Ledger'
      PROVE  Paced'
  <2>1. \A w \in Workers : Charged(bot'[w], charges')
    BY <1>2 DEF Charged
  <2>2. Jobs'
    BY <1>2, <2>1 DEF Paced, Jobs, Charged, Booked, Timely, IsJob
  <2>3. QED
    BY <1>2, <2>2 DEF Paced
<1>3. CASE Chat!TimePasses
  <2>1. time' = time + 1 /\ UNCHANGED <<row, bot, usedAt, charges, stale>>
    BY <1>3 DEF Chat!TimePasses, Chat!stored
  <2>2. Jobs'
    BY <2>1 DEF Paced, Jobs, Timely, Charged, Booked, IsJob
  <2>3. ASSUME NEW p \in Players PROVE Accounted(p)'
    <3>1. time \in Nat /\ charges[p] \in Seq(ChargeType) /\ Accounted(p)
      BY DEF Paced, Jobs, Ledger
    <3>2. \A i \in 1..Len(charges[p]) : charges[p][i].at \in Nat
      <4>1. \A i \in 1..Len(charges[p]) : charges[p][i] \in ChargeType
        BY <3>1, ElementOfSeq
      <4>2. QED
        BY <4>1 DEF ChargeType
    <3>3. OneByOne(charges[p], time + 1)
      BY <3>1, <3>2 DEF Accounted, OneByOne
    <3>4. QED
      BY <2>1, <3>1, <3>3 DEF Accounted
  <2>4. QED
    BY <2>1, <2>2, <2>3 DEF Paced, Ledger
<1>4. CASE Chat!DeletesCommand
  BY <1>1, <1>4 DEF Chat!DeletesCommand
<1>5. CASE Chat!DeletesCooldowns
  <2>1. \A w \in Workers : bot[w].at = "idle"
    BY <1>5 DEF Chat!DeletesCooldowns, Chat!Busy
  <2>2. UNCHANGED <<time, bot, stale>>
    BY <1>5 DEF Chat!DeletesCooldowns
  <2>3. CASE UNCHANGED <<usedAt, charges>>
    BY <1>1, <2>2, <2>3
  <2>4. CASE usedAt' = [p \in Players |-> Chat!Never] /\ charges' = [p \in Players |-> <<>>]
    <3>1. usedAt' \in [Players -> Nat]
      BY <2>4 DEF Chat!Never
    <3>2. charges' \in [Players -> Seq(ChargeType)]
      BY <2>4, EmptySeq
    <3>3. \A p \in Players : charges'[p] = <<>>
      BY <2>4
    <3>4. \A p \in Players : Accounted(p)'
      BY <3>3, NothingCharged DEF Accounted
    <3>5. Ledger'
      BY <3>2, <3>4 DEF Ledger
    <3>6. \A w \in Workers : bot[w].claimed = Chat!Never /\ Timely(bot[w]) /\ IsJob(bot[w])
      BY <2>1 DEF Paced, Jobs, Timely
    <3>7. bot = [w \in Workers |-> bot[w]]
      BY DEF Paced, Jobs
    <3>8. QED
      BY <1>2, <2>2, <3>1, <3>5, <3>6, <3>7
  <2>5. QED
    BY <1>5, <2>3, <2>4 DEF Chat!DeletesCooldowns
<1>6. CASE Chat!BotStops
  <2>1. /\ bot' = [w \in Workers |-> Chat!Idle] /\ UNCHANGED <<time, usedAt, charges, stale>>
    BY <1>6 DEF Chat!BotStops
  <2>2. usedAt' \in [Players -> Nat] /\ Ledger'
    BY <2>1 DEF Paced, Jobs, Ledger, Accounted
  <2>3. Chat!Idle.claimed = Chat!Never /\ Timely(Chat!Idle) /\ IsJob(Chat!Idle)
    BY DEF IsJob, JobFields, Timely, Chat!Idle, Chat!NoRow, Chat!Never
  <2>4. QED
    BY <1>2, <2>1, <2>2, <2>3
<1>7. ASSUME NEW p \in Players, Chat!ListChanges(p)
      PROVE  Paced'
  BY <1>1, <1>7 DEF Chat!ListChanges
<1>8. ASSUME NEW p \in Players \cup {Chat!Server}, NEW word, Chat!Types(p, word)
      PROVE  Paced'
  <2>1. CASE UNCHANGED bot
    BY <1>1, <1>8, <2>1 DEF Chat!Types
  <2>2. CASE p \in Players /\ bot' # bot
    <3> DEFINE r == [Chat!Idle EXCEPT !.at = "config", !.player = p, !.word = word,
                       !.since = time]
    <3>1. PICK w \in Workers : bot' = [bot EXCEPT ![w] = r]
      BY <1>8, <2>2 DEF Chat!Types
    <3>2. IsJob(r) /\ Unclaimed(r)
      BY <2>2 DEF IsJob, JobFields, Unclaimed, Chat!Idle, Chat!NoRow
    <3>3. UNCHANGED <<time, row, usedAt, charges, stale>>
      BY <1>8 DEF Chat!Types, Chat!stored
    <3>4. QED
      BY <3>1, <3>2, <3>3, JobGoesOn
  <2>3. QED
    BY <1>8, <2>1, <2>2 DEF Chat!Types, Chat!Parsed
<1>9. ASSUME NEW r, Chat!SavesCommand(r)
      PROVE  Paced'
  BY <1>1, <1>9 DEF Chat!SavesCommand
<1>10. ASSUME NEW k, Chat!SavesKit(k) \/ Chat!DeletesKit
       PROVE  Paced'
  BY <1>1, <1>10 DEF Chat!SavesKit, Chat!DeletesKit
<1>11. ASSUME NEW w \in Workers, Chat!WorkerStep(w) \/ Chat!Fails(w)
       PROVE  Paced'
  BY <1>11, WorkerKeepsPace
<1>12. QED
  BY <1>3, <1>4, <1>5, <1>6, <1>7, <1>8, <1>9, <1>10, <1>11 DEF Chat!Next

\* The history variable that excuses a deleted command is never reset.
LEMMA DeletedIsDeleted ==
  ASSUME Chat!Next, crossed
  PROVE  crossed'
<1>1. ASSUME NEW w \in Workers, Chat!WorkerStep(w) \/ Chat!Fails(w)
      PROVE  crossed'
  BY <1>1 DEF Chat!WorkerStep, Chat!Fails, Chat!ReadsConfig, Chat!ConsultsList,
     Chat!GetsList, Chat!StoresList, Chat!TakesNoCooldown, Chat!TakesCooldown,
     Chat!Reports, Chat!Helps, Chat!LooksUpKit, Chat!Composes, Chat!Executes,
     Chat!GivesUp, Chat!Serves, Chat!Refunds, Chat!Replies, Chat!Expires
<1>2. CASE Chat!TimePasses \/ Chat!DeletesCommand \/ Chat!DeletesCooldowns \/ Chat!BotStops
  BY <1>2 DEF Chat!TimePasses, Chat!DeletesCommand, Chat!DeletesCooldowns, Chat!BotStops
<1>3. ASSUME NEW p, NEW word, Chat!ListChanges(p) \/ Chat!Types(p, word)
      PROVE  crossed'
  BY <1>3 DEF Chat!ListChanges, Chat!Types
<1>4. ASSUME NEW r, NEW k, Chat!SavesCommand(r) \/ Chat!SavesKit(k) \/ Chat!DeletesKit
      PROVE  crossed'
  BY <1>4 DEF Chat!SavesCommand, Chat!SavesKit, Chat!DeletesKit
<1>5. QED
  BY <1>1, <1>2, <1>3, <1>4 DEF Chat!Next

LEMMA PaceInit ==
  ASSUME Init, part = "chat"
  PROVE  Paced
<1>1. /\ time = 1 /\ bot = [w \in Workers |-> Chat!Idle]
      /\ usedAt = [p \in Players |-> 0] /\ charges = [p \in Players |-> <<>>]
  BY DEF Init, Chat!Init, Chat!Never
<1>2. Chat!Idle.claimed = Chat!Never /\ Timely(Chat!Idle) /\ IsJob(Chat!Idle)
  BY DEF IsJob, JobFields, Timely, Chat!Idle, Chat!NoRow, Chat!Never
<1>3. row.cooldown \in Nat
  BY TrustInit, RowsHaveCooldowns DEF Trust, Asked
<1>4. \A w \in Workers : bot[w] = Chat!Idle
  BY <1>1
<1>5. Jobs
  BY <1>1, <1>2, <1>3, <1>4 DEF Jobs, Charged
<1>6. charges \in [Players -> Seq(ChargeType)]
  BY <1>1, EmptySeq
<1>7. \A p \in Players : Accounted(p)
  BY <1>1, NothingCharged DEF Accounted
<1>8. QED
  BY <1>5, <1>6, <1>7 DEF Paced, Ledger

\* store/chat.go, chat.go: for any number of players, workers and requests, and any
\* cooldowns, none included, whatever is edited, given back, cut off or stopped in
\* between: the uses a player was charged for and not given back were as far apart
\* as the row asked when the later one was let through (or when one in between was,
\* that has been given back), unless the command was deleted while it was in use or
\* he was given back what another of his requests was charged.
THEOREM CooldownAlwaysHolds == Spec => []CooldownHolds
<1> DEFINE Inv == part = "chat" => Trust /\ (crossed \/ Paced)
<1>1. Init => Inv
  BY PaceInit, TrustInit
<1>2. Inv /\ [Next]_vars => Inv'
  <2> SUFFICES ASSUME Inv, [Next]_vars, part' = "chat" PROVE Trust' /\ (crossed' \/ Paced')
    OBVIOUS
  <2>1. CASE ChatMoves
    <3>1. part = "chat" /\ Chat!Next /\ Trust
      BY <2>1 DEF ChatMoves
    <3>2. Trust' /\ Asked'
      BY <3>1, TrustIsKept DEF Trust
    <3>3. ASSUME ~crossed' PROVE Paced'
      BY <3>1, <3>2, <3>3, DeletedIsDeleted, PaceIsKept
    <3>4. QED
      BY <3>2, <3>3
  <2>2. CASE UNCHANGED <<part, chatVars>>
    <3>1. Trust'
      BY <2>2, TrustStutters
    <3>2. Paced => Paced'
      BY <2>2 DEF chatVars, Paced, Jobs, Ledger, Accounted, Timely, Charged, Booked, IsJob
    <3>3. QED
      BY <2>2, <3>1, <3>2 DEF chatVars
  <2>3. QED
    BY <2>1, <2>2 DEF Next, vars, TilesMove, ListsMove, LoginsMove, HandsMove,
       BootMoves, PagesMove
<1>3. Inv => CooldownHolds
  BY DEF CooldownHolds, Chat!CooldownHolds, Paced, Ledger, Accounted
<1>4. QED
  BY <1>1, <1>2, <1>3, PTL DEF Spec
-----------------------------------------------------------------------------
(***************************************************************************)
(* The tile cache: who took a square, and who joined him.                  *)
(***************************************************************************)

\* Where a request is while its square is its own.
Working == {"fetch", "blank", "probe", "store", "unlist"}

Fields == {"at", "key", "on", "version", "floor"}
IsRequest(r) == r = [f \in Fields |-> r[f]]

\* What a request is like, whatever pictures it has seen.
Gets ==
  /\ get = [g \in Getters |-> get[g]]
  /\ \A g \in Getters : IsRequest(get[g]) /\ (get[g].at # "idle" => get[g].key \in Keys)
  /\ inflight \in [Keys -> Getters \cup {Tiles!Nobody}]

\* A square that is taken is taken by somebody who works on it.
Taken ==
  \A k \in Keys : inflight[k] # Tiles!Nobody =>
    get[inflight[k]].at \in Working /\ get[inflight[k]].key = k

\* Who waits has joined somebody who works on the same square, or is about to
\* tell.
Joined ==
  \A g \in Getters : get[g].at = "wait" =>
    /\ get[g].on \in Getters
    /\ get[get[g].on].at \in Working \cup {"tell"}
    /\ get[get[g].on].key = get[g].key

Probed == blank = "asking" => \E g \in Getters : get[g].at = "probe"

Queue == Gets /\ Taken /\ Joined /\ Probed

\* A request that goes on is otherwise what it was.
Onward(g, at) ==
  /\ get' = [h \in Getters |-> get'[h]]
  /\ \A h \in Getters :
       /\ IsRequest(get'[h])
       /\ get'[h].at = IF h = g THEN at ELSE get[h].at
       /\ get'[h].key = get[h].key
       /\ get'[h].on = get[h].on
       /\ get'[h].floor = get[h].floor
       /\ h # g => get'[h].version = get[h].version

LEMMA GoingOn ==
  ASSUME Gets, NEW g \in Getters, NEW at, Tiles!Goes(g, at)
  PROVE  Onward(g, at) /\ get'[g].version = get[g].version
BY DEF Gets, Onward, IsRequest, Fields, Tiles!Goes

LEMMA GoingOnWith ==
  ASSUME Gets, NEW g \in Getters, NEW at, NEW version,
         \/ get' = [get EXCEPT ![g].at = at, ![g].version = version]
         \/ get' = [get EXCEPT ![g].version = version, ![g].at = at]
  PROVE  Onward(g, at) /\ get'[g].version = version
<1>1. /\ get' = [h \in Getters |-> get'[h]]
      /\ \A h \in Getters \ {g} : get'[h] = get[h]
  BY DEF Gets
<1>2. \/ get'[g] = [[get[g] EXCEPT !.at = at] EXCEPT !.version = version]
      \/ get'[g] = [[get[g] EXCEPT !.version = version] EXCEPT !.at = at]
  BY DEF Gets
<1>3. /\ IsRequest(get'[g])
      /\ get'[g].at = at /\ get'[g].version = version
      /\ get'[g].key = get[g].key /\ get'[g].on = get[g].on
      /\ get'[g].floor = get[g].floor
  BY <1>2 DEF Gets, IsRequest, Fields
<1>4. QED
  BY <1>1, <1>3 DEF Gets, Onward

LEMMA QueueInit ==
  ASSUME Init
  PROVE  Queue
<1>1. /\ get = [g \in Getters |-> Tiles!Idle]
      /\ inflight = [k \in Keys |-> Tiles!Nobody]
      /\ blank = "unasked"
  BY DEF Init, Tiles!Init
<1>2. QED
  BY <1>1 DEF Queue, Gets, Taken, Joined, Probed, IsRequest, Fields, Tiles!Idle

\* Who was not waited for in vain is not when he goes on to work, or to tell.
LEMMA StillJoined ==
  ASSUME Gets, Joined, NEW g \in Getters, NEW at \in Working \cup {"tell"}, Onward(g, at)
  PROVE  Joined'
<1> SUFFICES ASSUME NEW h \in Getters, get'[h].at = "wait"
             PROVE  /\ get'[h].on \in Getters
                    /\ get'[get'[h].on].at \in Working \cup {"tell"}
                    /\ get'[get'[h].on].key = get'[h].key
  BY DEF Joined
<1>1. get[h].at = "wait" /\ get'[h].on = get[h].on /\ get'[h].key = get[h].key
  BY DEF Onward, Working
<1>2. /\ get[h].on \in Getters
      /\ get[get[h].on].at \in Working \cup {"tell"}
      /\ get[get[h].on].key = get[h].key
  BY <1>1 DEF Joined
<1>3. QED
  BY <1>1, <1>2 DEF Onward

\* A request that works on its square goes on doing so.
LEMMA WorkGoesOn ==
  ASSUME Queue, NEW g \in Getters, NEW at \in Working, get[g].at \in Working,
         Onward(g, at), UNCHANGED inflight,
         blank' = "asking" => at = "probe" \/ (blank = "asking" /\ get[g].at # "probe")
  PROVE  Queue'
<1> USE DEF Working
<1>1. /\ get = [h \in Getters |-> get[h]] /\ get' = [h \in Getters |-> get'[h]]
      /\ \A k \in Keys : inflight[k] \in Getters \cup {Tiles!Nobody}
      /\ inflight' = inflight /\ Gets /\ Taken
  BY DEF Queue, Gets, Onward
<1>2. /\ \A h \in Getters : IsRequest(get'[h]) /\ get'[h].key = get[h].key
      /\ \A h \in Getters \ {g} : get'[h].at = get[h].at
      /\ get'[g].at = at
  BY DEF Onward
<1>3. Gets'
  <2>1. ASSUME NEW h \in Getters, get'[h].at # "idle"
        PROVE  get'[h].key \in Keys
    <3>1. get[h].at # "idle"
      BY <1>2, <2>1
    <3>2. QED
      BY <1>1, <1>2, <3>1 DEF Gets
  <2>2. inflight' \in [Keys -> Getters \cup {Tiles!Nobody}]
    BY <1>1 DEF Gets
  <2>3. QED
    BY <1>1, <1>2, <2>1, <2>2 DEF Gets
<1>4. Taken'
  <2>1. ASSUME NEW k \in Keys, inflight'[k] # Tiles!Nobody
        PROVE  get'[inflight'[k]].at \in Working /\ get'[inflight'[k]].key = k
    <3>1. /\ inflight[k] \in Getters /\ inflight'[k] = inflight[k]
          /\ get[inflight[k]].at \in Working /\ get[inflight[k]].key = k
      BY <1>1, <2>1 DEF Taken
    <3>2. QED
      BY <1>2, <3>1
  <2>2. QED
    BY <2>1 DEF Taken
<1>5. Joined'
  BY StillJoined DEF Queue
<1>6. Probed'
  BY DEF Queue, Probed, Onward
<1>7. QED
  BY <1>3, <1>4, <1>5, <1>6 DEF Queue

LEMMA QueueStep ==
  ASSUME Queue, Tiles!Next
  PROVE  Queue'
<1>1. CASE Tiles!TimePasses \/ Tiles!WorldChanges
  <2>1. UNCHANGED <<get, inflight, blank>>
    BY <1>1 DEF Tiles!TimePasses, Tiles!WorldChanges
  <2>2. QED
    BY <2>1 DEF Queue, Gets, Taken, Joined, Probed
<1>2. ASSUME NEW k \in Keys, Tiles!Asks(k)
      PROVE  Queue'
  <2>1. UNCHANGED <<inflight, blank>>
    BY <1>2 DEF Tiles!Asks
  <2>2. CASE UNCHANGED get
    BY <2>1, <2>2 DEF Queue, Gets, Taken, Joined, Probed
  <2>3. CASE ~UNCHANGED get
    <3> DEFINE g == CHOOSE h \in Getters : get[h].at = "idle"
    <3>1. g \in Getters /\ get[g].at = "idle"
      BY <1>2 DEF Tiles!Asks
    <3>2. get' = [get EXCEPT ![g] =
            [Tiles!Idle EXCEPT !.at = "join", !.key = k, !.floor = told[k]]]
      BY <1>2, <2>3 DEF Tiles!Asks
    <3> HIDE DEF g
    <3>3. /\ get' = [h \in Getters |-> get'[h]]
          /\ IsRequest(get'[g]) /\ get'[g].at = "join" /\ get'[g].key = k
          /\ \A h \in Getters \ {g} : get'[h] = get[h]
      BY <3>1, <3>2 DEF Queue, Gets, IsRequest, Fields, Tiles!Idle
    <3>4. Gets'
      BY <2>1, <3>3 DEF Queue, Gets
    <3>5. Taken'
      <4>1. \A j \in Keys : inflight[j] # Tiles!Nobody => inflight[j] \in Getters \ {g}
        BY <3>1 DEF Queue, Gets, Taken, Working
      <4>2. QED
        BY <2>1, <3>3, <4>1 DEF Queue, Taken
    <3>6. Joined'
      BY <3>1, <3>3 DEF Queue, Gets, Joined, Working
    <3>7. Probed'
      BY <2>1, <3>1, <3>3 DEF Queue, Probed
    <3>8. QED
      BY <3>4, <3>5, <3>6, <3>7 DEF Queue
  <2>4. QED
    BY <2>2, <2>3
<1>3. ASSUME NEW g \in Getters, Tiles!Joins(g)
      PROVE  Queue'
  <2> DEFINE k == get[g].key
  <2>1. k \in Keys /\ get[g].at = "join" /\ UNCHANGED blank
    BY <1>3 DEF Tiles!Joins, Queue, Gets
  <2>2. CASE inflight[k] # Tiles!Nobody
    <3>1. /\ get' = [get EXCEPT ![g].at = "wait", ![g].on = inflight[k]]
          /\ UNCHANGED inflight
      BY <1>3, <2>2 DEF Tiles!Joins
    <3>2. /\ get' = [h \in Getters |-> get'[h]]
          /\ IsRequest(get'[g]) /\ get'[g].at = "wait" /\ get'[g].key = k
          /\ get'[g].on = inflight[k]
          /\ \A h \in Getters \ {g} : get'[h] = get[h]
      BY <3>1 DEF Queue, Gets, IsRequest, Fields
    <3>3. /\ inflight[k] \in Getters \ {g}
          /\ get[inflight[k]].at \in Working
          /\ get[inflight[k]].key = k
      BY <2>1, <2>2 DEF Queue, Gets, Taken, Working
    <3> HIDE DEF k
    <3>4. Gets'
      BY <2>1, <3>1, <3>2 DEF Queue, Gets
    <3>5. Taken'
      <4>1. \A j \in Keys : inflight[j] # Tiles!Nobody => inflight[j] \in Getters \ {g}
        BY <2>1 DEF Queue, Gets, Taken, Working
      <4>2. QED
        BY <3>1, <3>2, <4>1 DEF Queue, Taken
    <3>6. Joined'
      BY <2>1, <3>2, <3>3 DEF Queue, Gets, Joined, Working
    <3>7. Probed'
      BY <2>1, <3>2 DEF Queue, Probed
    <3>8. QED
      BY <3>4, <3>5, <3>6, <3>7 DEF Queue
  <2>3. CASE inflight[k] = Tiles!Nobody
    <3>1. Tiles!Goes(g, "fetch") /\ inflight' = [inflight EXCEPT ![k] = g]
      BY <1>3, <2>3 DEF Tiles!Joins
    <3>2. Onward(g, "fetch")
      BY <3>1, GoingOn DEF Queue
    <3> HIDE DEF k
    <3>3. Gets'
      BY <2>1, <3>1, <3>2 DEF Queue, Gets, Onward
    <3>4. Taken'
      <4>1. \A j \in Keys : inflight[j] # Tiles!Nobody => inflight[j] \in Getters \ {g}
        BY <2>1 DEF Queue, Gets, Taken, Working
      <4>2. ASSUME NEW j \in Keys \ {k}, inflight'[j] # Tiles!Nobody
            PROVE  get'[inflight'[j]].at \in Working /\ get'[inflight'[j]].key = j
        <5>1. inflight'[j] = inflight[j]
          BY <2>1, <3>1, <4>2 DEF Queue, Gets
        <5>2. QED
          BY <3>2, <4>1, <4>2, <5>1 DEF Queue, Taken, Onward
      <4>3. inflight'[k] = g /\ get'[g].at \in Working /\ get'[g].key = k
        BY <2>1, <3>1, <3>2 DEF Queue, Gets, Onward, Working, k
      <4>4. QED
        BY <4>2, <4>3 DEF Taken
    <3>5. Joined'
      BY <3>2, StillJoined DEF Queue, Working
    <3>6. Probed'
      BY <2>1, <3>2 DEF Queue, Probed, Onward
    <3>7. QED
      BY <3>3, <3>4, <3>5, <3>6 DEF Queue
  <2>4. QED
    BY <2>2, <2>3
<1>4. ASSUME NEW g \in Getters, Tiles!Fetches(g)
      PROVE  Queue'
  <2>1. PICK version : get' = [get EXCEPT ![g].version = version,
                       ![g].at = IF version = Tiles!Missing THEN "store" ELSE "blank"]
    BY <1>4 DEF Tiles!Fetches
  <2>2. Onward(g, IF version = Tiles!Missing THEN "store" ELSE "blank")
    BY <2>1, GoingOnWith DEF Queue
  <2>3. get[g].at = "fetch" /\ UNCHANGED <<inflight, blank>>
    BY <1>4 DEF Tiles!Fetches
  <2>4. QED
    BY <2>2, <2>3, WorkGoesOn DEF Working
<1>5. ASSUME NEW g \in Getters, Tiles!FetchFails(g)
      PROVE  Queue'
  <2>1. /\ Onward(g, "unlist")
        /\ get[g].at = "fetch" /\ UNCHANGED <<inflight, blank>>
    BY <1>5, GoingOnWith DEF Queue, Tiles!FetchFails
  <2>2. QED
    BY <2>1, WorkGoesOn DEF Working
<1>6. ASSUME NEW g \in Getters, Tiles!Probes(g)
      PROVE  Queue'
  <2>1. Onward(g, "probe") /\ get[g].at = "blank" /\ UNCHANGED inflight
    BY <1>6, GoingOn DEF Queue, Tiles!Probes
  <2>2. QED
    BY <2>1, WorkGoesOn DEF Working
<1>7. ASSUME NEW g \in Getters, Tiles!Learns(g)
      PROVE  Queue'
  <2>1. /\ Onward(g, "blank") /\ get[g].at = "probe" /\ UNCHANGED inflight
        /\ blank' # "asking"
    BY <1>7, GoingOn DEF Queue, Tiles!Learns
  <2>2. QED
    BY <2>1, WorkGoesOn DEF Working
<1>8. ASSUME NEW g \in Getters, Tiles!Stores(g)
      PROVE  Queue'
  <2>1. /\ get[g].at \in {"store", "blank"}
        /\ UNCHANGED <<inflight, blank>>
        /\ \E version : get' = [get EXCEPT ![g].at = "unlist", ![g].version = version]
    BY <1>8, Zenon DEF Tiles!Stores
  <2>2. Onward(g, "unlist")
    BY <2>1, GoingOnWith DEF Queue
  <2>3. QED
    BY <2>1, <2>2, WorkGoesOn DEF Working
<1>9. ASSUME NEW g \in Getters, Tiles!Unlists(g)
      PROVE  Queue'
  <2> DEFINE k == get[g].key
  <2>1. /\ Onward(g, "tell") /\ get[g].at = "unlist" /\ UNCHANGED blank
        /\ inflight' = [inflight EXCEPT ![k] = Tiles!Nobody]
        /\ k \in Keys
    BY <1>9, GoingOn DEF Queue, Gets, Tiles!Unlists
  <2> HIDE DEF k
  <2>2. Gets'
    BY <2>1 DEF Queue, Gets, Onward
  <2>3. Taken'
    <3> SUFFICES ASSUME NEW j \in Keys, inflight'[j] # Tiles!Nobody
                 PROVE  get'[inflight'[j]].at \in Working /\ get'[inflight'[j]].key = j
      BY DEF Taken
    <3>1. j # k /\ inflight'[j] = inflight[j]
      BY <2>1 DEF Queue, Gets
    <3>2. /\ inflight[j] \in Getters /\ get[inflight[j]].at \in Working
          /\ get[inflight[j]].key = j
      BY <3>1 DEF Queue, Gets, Taken
    <3>3. inflight[j] # g
      BY <3>1, <3>2 DEF k
    <3>4. QED
      BY <2>1, <3>1, <3>2, <3>3 DEF Onward
  <2>4. Joined'
    BY <2>1, StillJoined DEF Queue
  <2>5. Probed'
    BY <2>1 DEF Queue, Probed, Onward
  <2>6. QED
    BY <2>2, <2>3, <2>4, <2>5 DEF Queue
<1>10. ASSUME NEW g \in Getters, Tiles!Tells(g)
       PROVE  Queue'
  <2> DEFINE done == {g} \cup Tiles!Waiting(g)
  <2>1. /\ get' = [h \in Getters |-> IF h \in done THEN Tiles!Idle ELSE get[h]]
        /\ get[g].at = "tell" /\ UNCHANGED <<inflight, blank>>
    BY <1>10 DEF Tiles!Tells
  <2>2. \A h \in Getters : h \in done <=>
          h = g \/ (get[h].at = "wait" /\ get[h].on = g)
    BY DEF Tiles!Waiting
  <2> HIDE DEF done
  <2>3. Gets'
    BY <2>1 DEF Queue, Gets, IsRequest, Fields, Tiles!Idle
  <2>4. Taken'
    <3>1. \A j \in Keys : inflight[j] # Tiles!Nobody => inflight[j] \in Getters \ done
      <4> SUFFICES ASSUME NEW j \in Keys, inflight[j] # Tiles!Nobody
                   PROVE  inflight[j] \in Getters \ done
        OBVIOUS
      <4>1. inflight[j] \in Getters /\ get[inflight[j]].at \in Working
        BY DEF Queue, Gets, Taken
      <4>2. QED
        BY <2>1, <2>2, <4>1 DEF Working
    <3>2. QED
      BY <2>1, <3>1 DEF Queue, Taken
  <2>5. Joined'
    BY <2>1, <2>2 DEF Queue, Gets, Joined, Working, Tiles!Idle
  <2>6. Probed'
    BY <2>1, <2>2 DEF Queue, Probed
  <2>7. QED
    BY <2>3, <2>4, <2>5, <2>6 DEF Queue
<1>11. QED
  BY <1>1, <1>2, <1>3, <1>4, <1>5, <1>6, <1>7, <1>8, <1>9, <1>10
     DEF Tiles!Next, Tiles!GetterStep

-----------------------------------------------------------------------------
(***************************************************************************)
(* The catalogue: who holds the mutex.                                     *)
(***************************************************************************)

IsReading(r) == r = [f \in {"at", "version", "floor"} |-> r[f]]

\* Whoever holds it is at it.
Held ==
  /\ reading = [g \in Readers |-> reading[g]]
  /\ \A g \in Readers : IsReading(reading[g])
  /\ holder \in Readers \cup {Lists!Nobody}
  /\ Lists!NobodyIsStranded

LEMMA HeldInit ==
  ASSUME Init
  PROVE  Held
BY DEF Init, Lists!Init, Held, IsReading, Lists!Idle, Lists!NobodyIsStranded

LEMMA HeldStep ==
  ASSUME Held, Lists!Next
  PROVE  Held'
<1> USE DEF Held, IsReading, Lists!NobodyIsStranded
<1>1. CASE Lists!TimePasses \/ Lists!ListChanges
  BY <1>1 DEF Lists!TimePasses, Lists!ListChanges
<1>2. ASSUME NEW g \in Readers, Lists!Asks(g)
      PROVE  Held'
  <2>1. reading[g].at = "idle" /\ UNCHANGED holder
    BY <1>2 DEF Lists!Asks
  <2>2. \E r : IsReading(r) /\ reading' = [reading EXCEPT ![g] = r]
    BY <1>2 DEF Lists!Asks, Lists!Answers, Lists!Idle
  <2>3. QED
    BY <2>1, <2>2
<1>3. ASSUME NEW g \in Readers, Lists!Enters(g)
      PROVE  Held'
  BY <1>3 DEF Lists!Enters, Lists!Answers, Lists!Idle
<1>4. ASSUME NEW g \in Readers, Lists!Fetches(g)
      PROVE  Held'
  <2>1. /\ reading' = [reading EXCEPT ![g].at = "store", ![g].version = stocked]
        /\ UNCHANGED holder
    BY <1>4 DEF Lists!Fetches
  <2>2. /\ reading' = [h \in Readers |-> reading'[h]]
        /\ \A h \in Readers :
             /\ IsReading(reading'[h])
             /\ reading'[h].at = IF h = g THEN "store" ELSE reading[h].at
    BY <2>1
  <2>3. QED
    BY <2>1, <2>2
<1>5. ASSUME NEW g \in Readers, Lists!FetchFails(g) \/ Lists!Stores(g)
      PROVE  Held'
  BY <1>5 DEF Lists!FetchFails, Lists!Stores, Lists!Answers, Lists!Idle
<1>6. QED
  BY <1>1, <1>2, <1>3, <1>4, <1>5 DEF Lists!Next, Lists!ReaderStep

\* Whoever joins a fetch or queues for a mutex waits for somebody who is at it,
\* however fetches fail and requests interleave: nobody waits for ever on a
\* square or a list that was given up.
THEOREM NobodyEverStranded == Spec => []NobodyIsStranded
<1> DEFINE Inv == (part = "tiles" => Queue) /\ (part = "lists" => Held)
<1>1. Init => Inv
  BY QueueInit, HeldInit
<1>2. Inv /\ [Next]_vars => Inv'
  <2> SUFFICES ASSUME Inv, [Next]_vars PROVE Inv'
    OBVIOUS
  <2>1. ASSUME part' = "tiles" PROVE Queue'
    <3>1. CASE TilesMove
      BY <3>1, QueueStep DEF TilesMove
    <3>2. CASE UNCHANGED <<part, tileVars>>
      BY <2>1, <3>2 DEF tileVars, Queue, Gets, Taken, Joined, Probed
    <3>3. QED
      BY <2>1, <3>1, <3>2 DEF Next, vars, ChatMoves, TilesMove, ListsMove,
         LoginsMove, HandsMove, BootMoves, PagesMove
  <2>2. ASSUME part' = "lists" PROVE Held'
    <3>1. CASE ListsMove
      BY <3>1, HeldStep DEF ListsMove
    <3>2. CASE UNCHANGED <<part, catalogVars>>
      BY <2>2, <3>2 DEF catalogVars, Held, Lists!NobodyIsStranded
    <3>3. QED
      BY <2>2, <3>1, <3>2 DEF Next, vars, ChatMoves, TilesMove, ListsMove,
         LoginsMove, HandsMove, BootMoves, PagesMove
  <2>3. QED
    BY <2>1, <2>2
<1>3. Inv => NobodyIsStranded
  BY DEF NobodyIsStranded, Tiles!NobodyIsStranded, Queue, Gets, Taken, Joined,
     Probed, Held, Working
<1>4. QED
  BY <1>1, <1>2, <1>3, PTL DEF Spec

-----------------------------------------------------------------------------
(***************************************************************************)
(* The catalogue: what is shown only grows.                                *)
(***************************************************************************)

\* What was shown is in the copy, what is in the copy was on the server.
Grows ==
  /\ stocked \in Int /\ seen \in Int /\ copy.version \in Int
  /\ seen <= copy.version /\ copy.version <= stocked

\* There is one refresh at a time, and it brings nothing older than the copy.
OneRefresh ==
  \A g \in Readers :
    LET r == reading[g]
    IN /\ r.at \in {"fetch", "store"} => holder = g
       /\ r.at # "idle" => r.floor \in Int /\ r.floor <= seen
       /\ r.at = "store" =>
            r.version \in Int /\ copy.version <= r.version /\ r.version <= stocked

Refreshed == Held /\ Grows /\ OneRefresh

LEMMA Larger ==
  ASSUME NEW a \in Int, NEW b \in Int
  PROVE  Lists!Max({a, b}) = IF a >= b THEN a ELSE b
<1>1. Lists!Max({a, b}) \in {a, b}
      /\ \A x \in {a, b} : Lists!Max({a, b}) >= x
  <2>1. \E m \in {a, b} : \A x \in {a, b} : m >= x
    OBVIOUS
  <2>2. QED
    BY <2>1 DEF Lists!Max
<1>2. QED
  BY <1>1

LEMMA RefreshedInit ==
  ASSUME Init
  PROVE  Refreshed
<1>1. Held
  BY HeldInit
<1>2. /\ stocked = 1 /\ seen = 0 /\ copy = Lists!NoCopy
      /\ reading = [g \in Readers |-> Lists!Idle]
  BY DEF Init, Lists!Init
<1>3. QED
  BY <1>1, <1>2 DEF Refreshed, Grows, OneRefresh, Lists!NoCopy, Lists!Idle

\* An answer with the copy shows the copy, and its request is over.
LEMMA AnsweredWithCopy ==
  ASSUME Refreshed, Held', NEW g \in Readers, Lists!Answers(g, copy.version),
         UNCHANGED <<stocked, copy>>,
         holder' = holder \/ holder = g
  PROVE  Refreshed'
<1>1. seen' = copy.version
  BY Larger DEF Refreshed, Grows, Lists!Answers, Lists!Shows
<1>2. reading'[g].at = "idle" /\ \A h \in Readers \ {g} : reading'[h] = reading[h]
  BY DEF Refreshed, Held, Lists!Answers, Lists!Idle
<1>3. Grows'
  BY <1>1 DEF Refreshed, Grows
<1>4. OneRefresh'
  BY <1>1, <1>2 DEF Refreshed, Grows, OneRefresh
<1>5. QED
  BY <1>3, <1>4 DEF Refreshed

LEMMA RefreshedStep ==
  ASSUME Refreshed, Lists!Next
  PROVE  Refreshed'
<1>0. Held'
  BY HeldStep DEF Refreshed
<1>1. CASE Lists!TimePasses \/ Lists!ListChanges
  BY <1>0, <1>1 DEF Lists!TimePasses, Lists!ListChanges, Refreshed, Grows, OneRefresh
<1>2. ASSUME NEW g \in Readers, Lists!Asks(g)
      PROVE  Refreshed'
  <2>1. UNCHANGED <<stocked, copy, holder>>
    BY <1>2 DEF Lists!Asks
  <2>2. CASE Lists!Answers(g, copy.version)
    BY <1>0, <2>1, <2>2, AnsweredWithCopy
  <2>3. CASE /\ UNCHANGED seen
             /\ reading' = [reading EXCEPT ![g] = [at |-> "queue", version |-> 0,
                                                  floor |-> seen]]
    <3>1. /\ reading'[g].at = "queue" /\ reading'[g].floor = seen
          /\ \A h \in Readers \ {g} : reading'[h] = reading[h]
      BY <2>3 DEF Refreshed, Held
    <3>2. QED
      BY <1>0, <2>1, <2>3, <3>1 DEF Refreshed, Grows, OneRefresh
  <2>4. QED
    BY <1>2, <2>2, <2>3 DEF Lists!Asks
<1>3. ASSUME NEW g \in Readers, Lists!Enters(g)
      PROVE  Refreshed'
  <2>1. UNCHANGED <<stocked, copy>> /\ holder = Lists!Nobody /\ reading[g].at = "queue"
    BY <1>3 DEF Lists!Enters
  <2>2. CASE Lists!Answers(g, copy.version) /\ UNCHANGED holder
    BY <1>0, <2>1, <2>2, AnsweredWithCopy
  <2>3. CASE reading' = [reading EXCEPT ![g].at = "fetch"] /\ holder' = g /\ UNCHANGED seen
    <3>1. /\ reading'[g].at = "fetch" /\ reading'[g].floor = reading[g].floor
          /\ \A h \in Readers \ {g} : reading'[h] = reading[h]
      BY <2>3 DEF Refreshed, Held, IsReading
    <3>2. \A h \in Readers : reading[h].at \notin {"fetch", "store"}
      BY <2>1, CachesAssumption DEF Refreshed, OneRefresh
    <3>3. QED
      BY <1>0, <2>1, <2>3, <3>1, <3>2 DEF Refreshed, Grows, OneRefresh
  <2>4. QED
    BY <1>3, <2>2, <2>3 DEF Lists!Enters
<1>4. ASSUME NEW g \in Readers, Lists!Fetches(g)
      PROVE  Refreshed'
  <2>1. /\ reading' = [reading EXCEPT ![g].at = "store", ![g].version = stocked]
        /\ reading[g].at = "fetch"
        /\ UNCHANGED <<stocked, copy, holder, seen>>
    BY <1>4 DEF Lists!Fetches
  <2>2. /\ reading'[g].at = "store" /\ reading'[g].floor = reading[g].floor
        /\ reading'[g].version = stocked
        /\ \A h \in Readers \ {g} : reading'[h] = reading[h]
    BY <2>1 DEF Refreshed, Held, IsReading
  <2>3. /\ holder = g
        /\ reading[g].floor \in Int /\ reading[g].floor <= seen
    BY <2>1 DEF Refreshed, OneRefresh
  <2>4. Grows'
    BY <2>1 DEF Refreshed, Grows
  <2>5. OneRefresh'
    <3> SUFFICES ASSUME NEW h \in Readers
                 PROVE  LET r == reading'[h]
                        IN /\ r.at \in {"fetch", "store"} => holder' = h
                           /\ r.at # "idle" => r.floor \in Int /\ r.floor <= seen'
                           /\ r.at = "store" => /\ r.version \in Int
                                               /\ copy'.version <= r.version
                                               /\ r.version <= stocked'
      BY DEF OneRefresh
    <3>1. CASE h = g
      BY <2>1, <2>2, <2>3, <3>1 DEF Refreshed, Grows
    <3>2. CASE h # g
      BY <2>1, <2>2, <3>2 DEF Refreshed, OneRefresh
    <3>3. QED
      BY <3>1, <3>2
  <2>6. QED
    BY <1>0, <2>4, <2>5 DEF Refreshed
<1>5. ASSUME NEW g \in Readers, Lists!FetchFails(g)
      PROVE  Refreshed'
  <2>1. holder = g
    BY <1>5 DEF Lists!FetchFails, Refreshed, OneRefresh
  <2>2. QED
    BY <1>0, <1>5, <2>1, AnsweredWithCopy DEF Lists!FetchFails
<1>6. ASSUME NEW g \in Readers, Lists!Stores(g)
      PROVE  Refreshed'
  <2> DEFINE v == reading[g].version
  <2>1. /\ copy'.version = v
        /\ reading[g].at = "store" /\ UNCHANGED stocked
        /\ Lists!Answers(g, v)
    BY <1>6 DEF Lists!Stores
  <2>2. /\ holder = g
        /\ v \in Int /\ copy.version <= v /\ v <= stocked
    BY <2>1 DEF Refreshed, OneRefresh
  <2> HIDE DEF v
  <2>3. seen' = v
    BY <2>1, <2>2, Larger DEF Refreshed, Grows, Lists!Answers, Lists!Shows
  <2>4. reading'[g].at = "idle" /\ \A h \in Readers \ {g} : reading'[h] = reading[h]
    BY <2>1 DEF Refreshed, Held, Lists!Answers, Lists!Idle
  <2>5. \A h \in Readers \ {g} : reading[h].at \notin {"fetch", "store"}
    BY <2>2 DEF Refreshed, OneRefresh
  <2>6. Grows'
    BY <2>1, <2>2, <2>3 DEF Refreshed, Grows
  <2>7. OneRefresh'
    BY <2>2, <2>3, <2>4, <2>5 DEF Refreshed, Grows, OneRefresh
  <2>8. QED
    BY <1>0, <2>6, <2>7 DEF Refreshed
<1>7. QED
  BY <1>1, <1>2, <1>3, <1>4, <1>5, <1>6 DEF Lists!Next, Lists!ReaderStep

-----------------------------------------------------------------------------
(***************************************************************************)
(* The tile cache: what is shown only grows.                               *)
(***************************************************************************)

\* No picture is newer than the world, nor was one shown that is.
Scale ==
  /\ drawn \in [Keys -> Nat] /\ told \in [Keys -> Nat]
  /\ redrawn \in Nat /\ redrawn <= MaxDrawn
  /\ \A k \in Keys : drawn[k] <= redrawn + 1 /\ told[k] <= drawn[k]

\* A tile that is held is the newest that was shown, or newer.
Shelved(k) ==
  items[k] = Tiles!NoItem \/
    /\ items[k].version \in Nat
    /\ told[k] <= Tiles!Age(items[k].version)
    /\ Tiles!Age(items[k].version) <= drawn[k]

Owner(g) == get[g].at \in Working => inflight[get[g].key] = g

Floor(g) == get[g].at # "idle" => get[g].floor \in Int /\ get[g].floor <= told[get[g].key]

\* What is fetched is as new as all that was shown, is held, or is about to be
\* told.
AsNew(g) ==
  LET k == get[g].key  v == get[g].version
  IN /\ v \in Nat
     /\ told[k] <= Tiles!Age(v) /\ Tiles!Age(v) <= drawn[k]
     /\ items[k] # Tiles!NoItem => Tiles!Age(items[k].version) <= Tiles!Age(v)
     /\ \A h \in Getters : get[h].at = "tell" /\ get[h].key = k /\ get[h].version # -1 =>
          Tiles!Age(get[h].version) <= Tiles!Age(v)

Brings(g) == get[g].at \in {"blank", "probe", "store"} => AsNew(g)

\* What was stored, or is served because the fetch failed, is what is held.
Stored(g) ==
  get[g].at = "unlist" /\ get[g].version # -1 =>
    /\ AsNew(g)
    /\ items[get[g].key] # Tiles!NoItem =>
         Tiles!Age(items[get[g].key].version) = Tiles!Age(get[g].version)

\* What is about to be told is not newer than what is held, nor older than what
\* was shown to anybody before he asked who is about to be told it.
Telling(g) ==
  get[g].at = "tell" /\ get[g].version # -1 =>
    LET k == get[g].key  v == get[g].version
    IN /\ v \in Nat /\ Tiles!Age(v) <= drawn[k]
       /\ items[k] # Tiles!NoItem => Tiles!Age(v) <= Tiles!Age(items[k].version)
       /\ get[g].floor <= Tiles!Age(v)
       /\ \A h \in Getters : get[h].at = "wait" /\ get[h].on = g =>
            get[h].floor <= Tiles!Age(v)

Request(g) == Owner(g) /\ Floor(g) /\ Brings(g) /\ Stored(g) /\ Telling(g)

Pictures ==
  /\ Scale
  /\ \A k \in Keys : Shelved(k)
  /\ \A g \in Getters : Request(g)

LEMMA Ages ==
  /\ \A v \in Nat : Tiles!Age(v) \in Nat
  /\ Tiles!Age(-1) = -1
  /\ Tiles!Age(Tiles!Placeholder) = 0 /\ Tiles!Age(Tiles!Missing) = 0
  /\ \A v \in Nat : v < Tiles!Placeholder => Tiles!Age(v) = v
BY DEF Tiles!Age, Tiles!Missing, Tiles!Placeholder

LEMMA LargerTile ==
  ASSUME NEW a \in Int, NEW b \in Int
  PROVE  Tiles!Max({a, b}) = IF a >= b THEN a ELSE b
<1>1. Tiles!Max({a, b}) \in {a, b}
      /\ \A x \in {a, b} : Tiles!Max({a, b}) >= x
  <2>1. \E m \in {a, b} : \A x \in {a, b} : m >= x
    OBVIOUS
  <2>2. QED
    BY <2>1 DEF Tiles!Max
<1>2. QED
  BY <1>1

LEMMA PicturesInit ==
  ASSUME Init
  PROVE  Pictures
<1>1. /\ drawn = [k \in Keys |-> IF k \in Drawn THEN 1 ELSE Tiles!Missing]
      /\ items = [k \in Keys |-> Tiles!NoItem]
      /\ get = [g \in Getters |-> Tiles!Idle]
      /\ redrawn = 0 /\ told = [k \in Keys |-> 0]
  BY DEF Init, Tiles!Init
<1>2. Scale
  BY <1>1, CachesAssumption DEF Scale, Tiles!Missing
<1>3. QED
  BY <1>1, <1>2 DEF Pictures, Shelved, Request, Owner, Floor, Brings, Stored,
     Telling, Tiles!Idle, Working

\* A request that goes on working disturbs no other.
LEMMA OthersStay ==
  ASSUME Queue, Pictures, NEW g \in Getters, NEW at \in Working,
         Onward(g, at), get[g].at \in Working,
         UNCHANGED <<drawn, items, told, inflight>>,
         NEW h \in Getters \ {g}
  PROVE  Request(h)'
<1>1. Owner(h)'
  BY DEF Pictures, Request, Owner, Onward
<1>2. Floor(h)'
  BY DEF Pictures, Request, Floor, Onward
<1>3. AsNew(h) => AsNew(h)'
  BY DEF AsNew, Onward, Working
<1>4. Brings(h)' /\ Stored(h)'
  BY <1>3 DEF Pictures, Request, Brings, Stored, Onward
<1>5. Telling(h)'
  BY DEF Pictures, Request, Telling, Onward, Working
<1>6. QED
  BY <1>1, <1>2, <1>4, <1>5 DEF Request

LEMMA NothingMoves ==
  ASSUME Pictures, UNCHANGED <<drawn, items, told, redrawn, inflight, get>>
  PROVE  Pictures'
BY DEF Pictures, Scale, Shelved, Request, Owner, Floor, Brings, Stored, Telling, AsNew

LEMMA WorldMoves ==
  ASSUME Queue, Pictures, Tiles!WorldChanges
  PROVE  Pictures'
<1>1. UNCHANGED <<items, told, inflight, get>>
  BY DEF Tiles!WorldChanges
<1>2. /\ redrawn' = redrawn + 1 /\ redrawn < MaxDrawn
      /\ \/ UNCHANGED drawn
         \/ \E k \in Keys : drawn' = [drawn EXCEPT ![k] = @ + 1]
  BY DEF Tiles!WorldChanges
<1>3. Scale /\ Scale' /\ \A k \in Keys : drawn[k] <= drawn'[k]
  BY <1>1, <1>2, CachesAssumption DEF Pictures, Scale
<1>4. /\ \A k \in Keys : drawn[k] \in Nat /\ drawn'[k] \in Nat
      /\ \A k \in Keys : told[k] \in Nat
  BY <1>3 DEF Scale
<1>5. ASSUME NEW k \in Keys PROVE Shelved(k)'
  BY <1>1, <1>3, <1>4, Ages DEF Pictures, Shelved
<1>6. ASSUME NEW g \in Getters PROVE Request(g)'
  <2>1. Request(g) /\ (get[g].at # "idle" => get[g].key \in Keys)
    BY DEF Pictures, Queue, Gets
  <2>2. Owner(g)' /\ Floor(g)'
    BY <1>1, <2>1 DEF Request, Owner, Floor
  <2>3. AsNew(g) /\ get[g].key \in Keys => AsNew(g)'
    BY <1>1, <1>3, <1>4, Ages DEF AsNew
  <2>4. Brings(g)' /\ Stored(g)'
    BY <1>1, <2>1, <2>3 DEF Request, Brings, Stored
  <2>5. Telling(g)'
    BY <1>1, <1>3, <1>4, <2>1, Ages DEF Request, Telling
  <2>6. QED
    BY <2>2, <2>4, <2>5 DEF Request
<1>7. QED
  BY <1>3, <1>5, <1>6 DEF Pictures

\* A request that is answered of the shelf shows nothing that was not there.
LEMMA AnsweredOfTheShelf ==
  ASSUME Queue, Pictures, NEW k \in Keys, items[k] # Tiles!NoItem,
         told' = Tiles!Shown(k, items[k].version),
         UNCHANGED <<drawn, items, redrawn, inflight, get>>
  PROVE  Pictures'
<1> DEFINE age == Tiles!Age(items[k].version)
<1>1. age \in Nat /\ told[k] \in Nat /\ told[k] <= age /\ age <= drawn[k]
  BY Ages DEF Pictures, Shelved, Scale
<1>2. Tiles!Max({told[k], age}) = age
  BY <1>1, LargerTile
<1>3. told' = [told EXCEPT ![k] = age]
  BY <1>2 DEF Tiles!Shown
<1> HIDE DEF age
<1>4. /\ told' \in [Keys -> Nat] /\ told'[k] = age
      /\ \A j \in Keys \ {k} : told'[j] = told[j]
      /\ \A j \in Keys : told[j] \in Nat /\ told'[j] \in Nat /\ told[j] <= told'[j]
  BY <1>1, <1>3 DEF Pictures, Scale
<1>5. Scale'
  BY <1>1, <1>4 DEF Pictures, Scale
<1>6. ASSUME NEW j \in Keys PROVE Shelved(j)'
  BY <1>1, <1>4 DEF Pictures, Shelved, age
<1>7. ASSUME NEW g \in Getters PROVE Request(g)'
  <2>1. Request(g) /\ (get[g].at # "idle" => get[g].key \in Keys)
    BY DEF Pictures, Queue, Gets
  <2>2. Owner(g)' /\ Telling(g)'
    BY <2>1 DEF Request, Owner, Telling
  <2>3. Floor(g)'
    BY <1>4, <2>1 DEF Request, Floor
  <2>4. AsNew(g) /\ get[g].key \in Keys => AsNew(g)'
    BY <1>4 DEF AsNew, age
  <2>5. Brings(g)' /\ Stored(g)'
    BY <2>1, <2>4 DEF Request, Brings, Stored
  <2>6. QED
    BY <2>2, <2>3, <2>5 DEF Request
<1>8. QED
  BY <1>5, <1>6, <1>7 DEF Pictures

\* A request that comes to ask, or joins, disturbs no other.
LEMMA SomebodyComes ==
  ASSUME Queue, Queue', Pictures, NEW g \in Getters,
         get[g].at \in {"idle", "join"}, get'[g].at = "join",
         get'[g].key \in Keys, get'[g].floor = told[get'[g].key],
         \A h \in Getters \ {g} : get'[h] = get[h],
         UNCHANGED <<drawn, items, told, redrawn, inflight>>
  PROVE  Pictures'
<1>1. Scale' /\ \A k \in Keys : Shelved(k)'
  BY DEF Pictures, Scale, Shelved
<1>2. Request(g)'
  BY DEF Pictures, Scale, Request, Owner, Floor, Brings, Stored, Telling, Working
<1>3. ASSUME NEW h \in Getters \ {g} PROVE Request(h)'
  <2>1. Request(h)
    BY DEF Pictures
  <2>2. Owner(h)' /\ Floor(h)'
    BY <2>1 DEF Request, Owner, Floor
  <2>3. AsNew(h) => AsNew(h)'
    BY DEF AsNew
  <2>4. Brings(h)' /\ Stored(h)'
    BY <2>1, <2>3 DEF Request, Brings, Stored
  <2>5. Telling(h)'
    BY <2>1 DEF Request, Telling
  <2>6. QED
    BY <2>2, <2>4, <2>5 DEF Request
<1>4. QED
  BY <1>1, <1>2, <1>3 DEF Pictures

LEMMA SomebodyWaits ==
  ASSUME Queue, Pictures, NEW g \in Getters, get[g].at = "join", get'[g].at = "wait",
         get'[g].key = get[g].key, get'[g].floor = get[g].floor,
         get'[g].on \in Getters, get[get'[g].on].at \in Working,
         \A h \in Getters \ {g} : get'[h] = get[h],
         UNCHANGED <<drawn, items, told, redrawn, inflight>>
  PROVE  Pictures'
<1>1. Scale' /\ \A k \in Keys : Shelved(k)'
  BY DEF Pictures, Scale, Shelved
<1>2. Request(g)'
  BY DEF Pictures, Request, Owner, Floor, Brings, Stored, Telling, Working
<1>3. ASSUME NEW h \in Getters \ {g} PROVE Request(h)'
  <2>1. Request(h)
    BY DEF Pictures
  <2>2. Owner(h)' /\ Floor(h)'
    BY <2>1 DEF Request, Owner, Floor
  <2>3. AsNew(h) => AsNew(h)'
    BY DEF AsNew
  <2>4. Brings(h)' /\ Stored(h)'
    BY <2>1, <2>3 DEF Request, Brings, Stored
  <2>5. Telling(h)'
    BY <2>1 DEF Request, Telling, Working
  <2>6. QED
    BY <2>2, <2>4, <2>5 DEF Request
<1>4. QED
  BY <1>1, <1>2, <1>3 DEF Pictures

LEMMA SomebodyTakes ==
  ASSUME Queue, Pictures, NEW g \in Getters, get[g].at = "join",
         inflight[get[g].key] = Tiles!Nobody,
         inflight' = [inflight EXCEPT ![get[g].key] = g],
         Onward(g, "fetch"), UNCHANGED <<drawn, items, told, redrawn>>
  PROVE  Pictures'
<1> DEFINE k == get[g].key
<1>1. k \in Keys /\ inflight'[k] = g /\ \A j \in Keys \ {k} : inflight'[j] = inflight[j]
  BY DEF Queue, Gets
<1>2. Scale' /\ \A j \in Keys : Shelved(j)'
  BY DEF Pictures, Scale, Shelved
<1>3. Request(g)'
  BY <1>1 DEF Pictures, Request, Owner, Floor, Brings, Stored, Telling, Onward
<1>4. ASSUME NEW h \in Getters \ {g} PROVE Request(h)'
  <2>1. Request(h) /\ (get[h].at # "idle" => get[h].key \in Keys)
    BY DEF Pictures, Queue, Gets
  <2>2. get[h].at \in Working => get[h].key # k
    BY <2>1, CachesAssumption DEF Request, Owner
  <2>3. Owner(h)' /\ Floor(h)'
    BY <1>1, <2>1, <2>2 DEF Request, Owner, Floor, Onward, Working
  <2>4. AsNew(h) => AsNew(h)'
    BY DEF AsNew, Onward
  <2>5. Brings(h)' /\ Stored(h)'
    BY <2>1, <2>4 DEF Request, Brings, Stored, Onward
  <2>6. Telling(h)'
    BY <2>1 DEF Request, Telling, Onward
  <2>7. QED
    BY <2>3, <2>5, <2>6 DEF Request
<1>5. QED
  BY <1>2, <1>3, <1>4 DEF Pictures

LEMMA WorkOnPictures ==
  ASSUME Queue, Pictures, NEW g \in Getters, NEW at \in Working,
         Onward(g, at), get[g].at \in Working,
         UNCHANGED <<drawn, items, told, redrawn, inflight>>,
         Brings(g)', Stored(g)'
  PROVE  Pictures'
<1>1. Scale' /\ \A k \in Keys : Shelved(k)'
  BY DEF Pictures, Scale, Shelved
<1>2. Request(g)'
  <2>1. Request(g)
    BY DEF Pictures
  <2>2. Owner(g)' /\ Floor(g)'
    BY <2>1 DEF Request, Owner, Floor, Onward, Working
  <2>3. Telling(g)'
    BY DEF Telling, Onward, Working
  <2>4. QED
    BY <2>2, <2>3 DEF Request
<1>3. \A h \in Getters \ {g} : Request(h)'
  BY OthersStay
<1>4. QED
  BY <1>1, <1>2, <1>3 DEF Pictures

\* What comes is as new as the world.
LEMMA APictureComes ==
  ASSUME Queue, Pictures, NEW g \in Getters, Tiles!Fetches(g)
  PROVE  Pictures'
<1> DEFINE k == get[g].key
<1>1. /\ get[g].at = "fetch" /\ UNCHANGED <<drawn, items, told, redrawn, inflight>>
  BY DEF Tiles!Fetches
<1>2. k \in Keys
  BY <1>1 DEF Queue, Gets
<1>3. PICK version \in IF drawn[k] = Tiles!Missing THEN {Tiles!Missing, Tiles!Placeholder}
                        ELSE {drawn[k]} :
        get' = [get EXCEPT ![g].version = version,
                           ![g].at = IF version = Tiles!Missing THEN "store" ELSE "blank"]
  BY DEF Tiles!Fetches
<1> DEFINE at == IF version = Tiles!Missing THEN "store" ELSE "blank"
<1>4. Onward(g, at) /\ get'[g].version = version /\ at \in {"store", "blank"}
  BY <1>3, GoingOnWith DEF Queue
<1>5. /\ drawn[k] \in Nat /\ drawn[k] < Tiles!Placeholder
      /\ told[k] <= drawn[k]
  BY <1>2, CachesAssumption DEF Pictures, Scale, Tiles!Placeholder
<1>6. version \in Nat /\ Tiles!Age(version) = drawn[k]
  BY <1>5, Ages DEF Tiles!Missing, Tiles!Placeholder
<1> HIDE DEF at
<1>7. AsNew(g)'
  <2>1. get'[g].key = k
    BY <1>4 DEF Onward
  <2>2. items[k] # Tiles!NoItem => Tiles!Age(items[k].version) <= drawn[k]
    BY <1>2 DEF Pictures, Shelved
  <2>3. ASSUME NEW h \in Getters, get'[h].at = "tell", get'[h].key = k, get'[h].version # -1
        PROVE  Tiles!Age(get'[h].version) <= drawn[k]
    <3>1. h # g
      BY <1>4, <2>3 DEF Onward
    <3>2. get[h].at = "tell" /\ get[h].key = k /\ get[h].version = get'[h].version
      BY <1>4, <2>3, <3>1 DEF Onward
    <3>3. QED
      BY <2>3, <3>2 DEF Pictures, Request, Telling
  <2> HIDE DEF k
  <2>4. QED
    BY <1>1, <1>4, <1>5, <1>6, <2>1, <2>2, <2>3 DEF AsNew
<1>8. Stored(g)'
  BY <1>4 DEF Stored, Onward
<1>9. QED
  BY <1>1, <1>4, <1>7, <1>8, WorkOnPictures DEF Brings, Working

LEMMA NoPictureComes ==
  ASSUME Queue, Pictures, NEW g \in Getters, Tiles!FetchFails(g)
  PROVE  Pictures'
<1> DEFINE k == get[g].key  v == items[k].version
<1>1. /\ get[g].at = "fetch" /\ UNCHANGED <<drawn, items, told, redrawn, inflight>>
  BY DEF Tiles!FetchFails
<1>2. k \in Keys
  BY <1>1 DEF Queue, Gets
<1>3. Onward(g, "unlist") /\ get'[g].version = v
  BY GoingOnWith DEF Queue, Tiles!FetchFails
<1>4. ASSUME v # -1
      PROVE  AsNew(g)'
  <2>1. items[k] # Tiles!NoItem
    BY <1>4 DEF Tiles!NoItem
  <2>2. v \in Nat /\ told[k] <= Tiles!Age(v) /\ Tiles!Age(v) <= drawn[k]
    BY <1>2, <2>1 DEF Pictures, Shelved
  <2>3. ASSUME NEW h \in Getters, get'[h].at = "tell", get'[h].key = k, get'[h].version # -1
        PROVE  Tiles!Age(get'[h].version) <= Tiles!Age(v)
    <3>1. h # g
      BY <1>3, <2>3 DEF Onward
    <3>2. get[h].at = "tell" /\ get[h].key = k /\ get[h].version = get'[h].version
      BY <1>3, <2>3, <3>1 DEF Onward
    <3>3. QED
      BY <2>1, <2>3, <3>2 DEF Pictures, Request, Telling
  <2>4. get'[g].key = k /\ Tiles!Age(v) \in Nat
    BY <1>3, <2>2, Ages DEF Onward
  <2>5. QED
    BY <1>1, <1>3, <2>2, <2>3, <2>4 DEF AsNew
<1>5. Stored(g)' /\ Brings(g)'
  <2>1. get'[g].key = k /\ get'[g].at = "unlist"
    BY <1>3 DEF Onward
  <2>2. QED
    BY <1>1, <1>3, <1>4, <2>1 DEF Stored, Brings
<1>6. QED
  BY <1>1, <1>3, <1>5, WorkOnPictures DEF Working

LEMMA TheProbe ==
  ASSUME Queue, Pictures, NEW g \in Getters, Tiles!Probes(g) \/ Tiles!Learns(g)
  PROVE  Pictures'
<1>1. /\ get[g].at \in {"blank", "probe"}
      /\ UNCHANGED <<drawn, items, told, redrawn, inflight>>
  BY DEF Tiles!Probes, Tiles!Learns
<1>2. PICK at \in {"blank", "probe"} : Tiles!Goes(g, at)
  BY DEF Tiles!Probes, Tiles!Learns
<1>3. Onward(g, at) /\ get'[g].version = get[g].version
  BY <1>2, GoingOn DEF Queue
<1>4. AsNew(g)'
  <2>1. AsNew(g)
    BY <1>1 DEF Pictures, Request, Brings
  <2>2. QED
    BY <1>1, <1>3, <2>1 DEF AsNew, Onward
<1>5. Brings(g)' /\ Stored(g)'
  BY <1>3, <1>4 DEF Brings, Stored, Onward
<1>6. QED
  BY <1>1, <1>3, <1>5, WorkOnPictures DEF Working

\* What is stored is as new as what it replaces; what goes is nobody's.
LEMMA APictureIsStored ==
  ASSUME Queue, Pictures, NEW g \in Getters, Tiles!Stores(g)
  PROVE  Pictures'
<1> DEFINE k == get[g].key
           kept == IF get[g].version = Tiles!Placeholder /\ blank = "known"
                   THEN Tiles!Missing ELSE get[g].version
<1>1. /\ get[g].at \in {"store", "blank"}
      /\ UNCHANGED <<drawn, told, redrawn, inflight>>
      /\ get' = [get EXCEPT ![g].at = "unlist", ![g].version = kept]
      /\ \E squares : items' = [j \in Keys |->
           IF j \notin squares THEN Tiles!NoItem
           ELSE IF j = k THEN [version |-> kept, fetchedAt |-> clock] ELSE items[j]]
  BY Zenon DEF Tiles!Stores
<1>2. k \in Keys
  BY <1>1 DEF Queue, Gets
<1>3. AsNew(g)
  BY <1>1 DEF Pictures, Request, Brings
<1>4. kept \in Nat /\ Tiles!Age(kept) = Tiles!Age(get[g].version) /\ Tiles!Age(kept) \in Nat
  BY <1>3, Ages DEF AsNew, Tiles!Missing
<1>5. Onward(g, "unlist") /\ get'[g].version = kept
  BY <1>1, GoingOnWith DEF Queue
<1>6. /\ items'[k] # Tiles!NoItem => items'[k].version = kept
      /\ \A j \in Keys \ {k} : items'[j] \in {items[j], Tiles!NoItem}
  BY <1>1, <1>2
<1>7. /\ told[k] <= Tiles!Age(kept) /\ Tiles!Age(kept) <= drawn[k]
      /\ \A h \in Getters : get[h].at = "tell" /\ get[h].key = k /\ get[h].version # -1 =>
           Tiles!Age(get[h].version) <= Tiles!Age(kept)
  BY <1>3, <1>4 DEF AsNew
<1>8. get'[g].key = k
  BY <1>5 DEF Onward
<1>9. get[g].at \in Working
  BY <1>1 DEF Working
<1> DEFINE Same(i) == /\ get'[i].key = get[i].key /\ get'[i].on = get[i].on
                      /\ get'[i].at = get[i].at /\ get'[i].floor = get[i].floor
                      /\ get'[i].version = get[i].version
<1>same. /\ \A i \in Getters \ {g} : Same(i)
      /\ \A i \in Getters : get'[i].at \in {"tell", "wait"} => Same(i)
  BY <1>5 DEF Onward
<1> HIDE DEF k, kept
<1>10. Scale'
  BY <1>1 DEF Pictures, Scale
<1>11. ASSUME NEW j \in Keys PROVE Shelved(j)'
  <2>1. CASE j = k
    BY <1>1, <1>4, <1>6, <1>7, <2>1 DEF Shelved
  <2>2. CASE j # k
    BY <1>1, <1>6, <2>2 DEF Pictures, Shelved
  <2>3. QED
    BY <2>1, <2>2
<1>12. Request(g)'
  <2>1. Request(g)
    BY DEF Pictures
  <2>2. Owner(g)' /\ Floor(g)'
    BY <1>1, <1>5, <1>9, <2>1 DEF Request, Owner, Floor, Onward, Working
  <2>3. AsNew(g)'
    <3>1. ASSUME NEW h \in Getters, get'[h].at = "tell", get'[h].key = k,
                 get'[h].version # -1
          PROVE  Tiles!Age(get'[h].version) <= Tiles!Age(kept)
      BY <1>same, <1>7, <3>1
    <3>2. items'[k] # Tiles!NoItem => Tiles!Age(items'[k].version) <= Tiles!Age(kept)
      BY <1>4, <1>6
    <3>3. told' = told /\ drawn' = drawn
      BY <1>1
    <3>4. QED
      BY <1>4, <1>5, <1>7, <1>8, <3>1, <3>2, <3>3 DEF AsNew
  <2>4. Brings(g)' /\ Stored(g)' /\ Telling(g)'
    BY <1>5, <1>6, <1>8, <2>3 DEF Brings, Stored, Telling, Onward
  <2>5. QED
    BY <2>2, <2>4 DEF Request
<1>13. ASSUME NEW h \in Getters \ {g} PROVE Request(h)'
  <2>1. Request(h) /\ (get[h].at # "idle" => get[h].key \in Keys)
    BY DEF Pictures, Queue, Gets
  <2>2. get[h].at \in Working => get[h].key # k
    BY <1>9, <2>1 DEF Pictures, Request, Owner, k
  <2>3. Owner(h)' /\ Floor(h)'
    BY <1>1, <1>5, <2>1 DEF Request, Owner, Floor, Onward
  <2>4. AsNew(h) /\ get[h].at \in Working => AsNew(h)'
    <3> SUFFICES ASSUME AsNew(h), get[h].at \in Working PROVE AsNew(h)'
      OBVIOUS
    <3>1. items'[get[h].key] \in {items[get[h].key], Tiles!NoItem}
      BY <1>6, <2>1, <2>2 DEF Working
    <3>2. Same(h) /\ told' = told /\ drawn' = drawn
      BY <1>same, <1>1
    <3>3. ASSUME NEW i \in Getters, get'[i].at = "tell", get'[i].key = get[h].key,
                 get'[i].version # -1
          PROVE  Tiles!Age(get'[i].version) <= Tiles!Age(get[h].version)
      BY <1>same, <3>3 DEF AsNew
    <3>4. QED
      BY <3>1, <3>2, <3>3 DEF AsNew
  <2>5. Brings(h)'
    BY <1>5, <2>1, <2>4 DEF Request, Brings, Onward, Working
  <2>6. Stored(h)'
    <3> SUFFICES ASSUME get[h].at = "unlist", get[h].version # -1
                 PROVE  Stored(h)'
      BY <1>5 DEF Stored, Onward
    <3>1. items'[get[h].key] \in {items[get[h].key], Tiles!NoItem}
      BY <1>6, <2>1, <2>2 DEF Working
    <3>2. QED
      BY <1>5, <2>1, <2>4, <3>1 DEF Request, Stored, Onward, Working
  <2>7. Telling(h)'
    <3> SUFFICES ASSUME get[h].at = "tell", get[h].version # -1
                 PROVE  Telling(h)'
      BY <1>5 DEF Telling, Onward
    <3>1. items'[get[h].key] # Tiles!NoItem =>
            Tiles!Age(get[h].version) <= Tiles!Age(items'[get[h].key].version)
      <4>1. CASE get[h].key = k
        BY <1>6, <1>7, <4>1
      <4>2. CASE get[h].key # k
        BY <1>6, <2>1, <4>2 DEF Request, Telling
      <4>3. QED
        BY <4>1, <4>2
    <3>2. Same(h) /\ drawn' = drawn
      BY <1>same, <1>1
    <3>3. \A i \in Getters : get'[i].at = "wait" /\ get'[i].on = h =>
            get'[i].floor <= Tiles!Age(get[h].version)
      BY <1>same, <2>1 DEF Request, Telling
    <3>4. QED
      BY <2>1, <3>1, <3>2, <3>3 DEF Request, Telling
  <2>8. QED
    BY <2>3, <2>5, <2>6, <2>7 DEF Request
<1>14. QED
  BY <1>10, <1>11, <1>12, <1>13 DEF Pictures

\* Whoever is done brings what all who joined him had been shown, or more.
LEMMA SomebodyIsDone ==
  ASSUME Queue, Pictures, NEW g \in Getters, Tiles!Unlists(g)
  PROVE  Pictures'
<1> DEFINE k == get[g].key
<1>1. /\ get[g].at = "unlist" /\ UNCHANGED <<drawn, items, told, redrawn>>
      /\ inflight' = [inflight EXCEPT ![k] = Tiles!Nobody]
  BY DEF Tiles!Unlists
<1>2. Onward(g, "tell") /\ get'[g].version = get[g].version
  BY GoingOn DEF Queue, Tiles!Unlists
<1>3. k \in Keys /\ \A j \in Keys \ {k} : inflight'[j] = inflight[j]
  BY <1>1 DEF Queue, Gets
<1>4. Scale' /\ \A j \in Keys : Shelved(j)'
  BY <1>1 DEF Pictures, Scale, Shelved
<1>5. get'[g].key = k /\ get'[g].at = "tell" /\ get'[g].floor = get[g].floor
  BY <1>2 DEF Onward
<1>6. Request(g)'
  <2>1. Request(g)
    BY DEF Pictures
  <2>2. Owner(g)' /\ Floor(g)' /\ Brings(g)' /\ Stored(g)'
    BY <1>1, <1>5, <2>1 DEF Request, Owner, Floor, Brings, Stored, Working
  <2>3. ASSUME get[g].version # -1
        PROVE  Telling(g)'
    <3> DEFINE v == get[g].version
    <3>1. AsNew(g) /\ (items[k] # Tiles!NoItem => Tiles!Age(items[k].version) = Tiles!Age(v))
      BY <1>1, <2>1, <2>3 DEF Request, Stored
    <3>2. v \in Nat /\ told[k] <= Tiles!Age(v) /\ Tiles!Age(v) <= drawn[k]
      BY <3>1 DEF AsNew
    <3>3. told[k] \in Nat /\ Tiles!Age(v) \in Nat
      BY <1>3, <3>2, Ages DEF Pictures, Scale
    <3>4. \A h \in Getters : get[h].at # "idle" /\ get[h].key = k =>
            get[h].floor <= Tiles!Age(v)
      BY <3>2, <3>3 DEF Pictures, Request, Floor
    <3>5. \A h \in Getters : get[h].at = "wait" /\ get[h].on = g =>
            get[h].floor <= Tiles!Age(v)
      BY <3>4 DEF Queue, Joined
    <3>6. \A h \in Getters : get'[h].at = "wait" /\ get'[h].on = g =>
            get'[h].floor <= Tiles!Age(v)
      BY <1>2, <3>5 DEF Onward
    <3>7. get[g].floor <= Tiles!Age(v)
      BY <1>1, <3>4
    <3> HIDE DEF v
    <3>8. get'[g].version = v
      BY <1>2 DEF v
    <3>9. QED
      BY <1>1, <1>5, <3>1, <3>2, <3>3, <3>6, <3>7, <3>8 DEF Telling
  <2>4. get[g].version = -1 => Telling(g)'
    BY <1>2 DEF Telling
  <2>5. QED
    BY <2>2, <2>3, <2>4 DEF Request
<1>7. ASSUME NEW h \in Getters \ {g} PROVE Request(h)'
  <2>1. Request(h) /\ (get[h].at # "idle" => get[h].key \in Keys)
    BY DEF Pictures, Queue, Gets
  <2>2. get[h].at \in Working => get[h].key # k
    BY <1>1, <2>1 DEF Pictures, Request, Owner, Working
  <2>3. Owner(h)' /\ Floor(h)'
    BY <1>1, <1>2, <1>3, <2>1, <2>2 DEF Request, Owner, Floor, Onward, Working
  <2>4. AsNew(h) /\ get[h].at \in Working => AsNew(h)'
    BY <1>1, <1>2, <1>5, <2>2 DEF AsNew, Onward
  <2>5. Brings(h)' /\ Stored(h)'
    BY <1>1, <1>2, <2>1, <2>4 DEF Request, Brings, Stored, Onward, Working
  <2>6. Telling(h)'
    BY <1>1, <1>2, <2>1 DEF Request, Telling, Onward
  <2>7. QED
    BY <2>3, <2>5, <2>6 DEF Request
<1>8. QED
  BY <1>4, <1>6, <1>7 DEF Pictures

\* What is told was not older than what was shown, nor newer than what anybody
\* will be told of the square.
LEMMA EverybodyIsTold ==
  ASSUME Queue, Pictures, NEW g \in Getters, Tiles!Tells(g)
  PROVE  Pictures'
<1> DEFINE k == get[g].key  v == get[g].version  age == Tiles!Age(v)
           done == {g} \cup Tiles!Waiting(g)
<1>1. /\ get[g].at = "tell" /\ UNCHANGED <<drawn, items, redrawn, inflight>>
      /\ get' = [h \in Getters |-> IF h \in done THEN Tiles!Idle ELSE get[h]]
      /\ told' = [told EXCEPT ![k] = Tiles!Max({told[k], age})]
  BY DEF Tiles!Tells, Tiles!Shown
<1>2. k \in Keys /\ told \in [Keys -> Nat] /\ drawn \in [Keys -> Nat]
  BY <1>1 DEF Queue, Gets, Pictures, Scale
<1>3. Telling(g)
  BY DEF Pictures, Request
<1>4. \/ v = -1 /\ age = -1
      \/ v \in Nat /\ v # -1 /\ age \in Nat /\ age <= drawn[k]
  BY <1>1, <1>3, Ages DEF Telling
<1>5. Tiles!Max({told[k], age}) = IF told[k] >= age THEN told[k] ELSE age
  BY <1>2, <1>4, LargerTile
<1>6. \A h \in done : get'[h] = Tiles!Idle
  BY <1>1 DEF Tiles!Waiting
<1>7. \A h \in Getters \ done : get'[h] = get[h]
  BY <1>1
<1>8. items[k] # Tiles!NoItem /\ v # -1 => age <= Tiles!Age(items[k].version)
  BY <1>1, <1>3 DEF Telling
<1>9. ASSUME NEW h \in Getters, AsNew(h), get[h].key = k, v # -1
      PROVE  age <= Tiles!Age(get[h].version)
  BY <1>1, <1>9 DEF AsNew
<1> HIDE DEF k, v, age, done
<1>10. /\ told' \in [Keys -> Nat]
       /\ \A j \in Keys \ {k} : told'[j] = told[j]
       /\ told'[k] = told[k] \/ (v # -1 /\ told'[k] = age)
       /\ \A j \in Keys : told[j] \in Nat /\ told'[j] \in Nat /\ told[j] <= told'[j]
  BY <1>1, <1>2, <1>4, <1>5
<1>11. Scale'
  BY <1>1, <1>4, <1>10 DEF Pictures, Scale
<1>12. ASSUME NEW j \in Keys PROVE Shelved(j)'
  BY <1>1, <1>8, <1>10 DEF Pictures, Shelved
<1>13. ASSUME NEW h \in done \cap Getters PROVE Request(h)'
  BY <1>6 DEF Request, Owner, Floor, Brings, Stored, Telling, Working, Tiles!Idle
<1>14. ASSUME NEW h \in Getters \ done PROVE Request(h)'
  <2>1. /\ Request(h) /\ (get[h].at # "idle" => get[h].key \in Keys)
        /\ get'[h] = get[h]
    BY <1>7 DEF Pictures, Queue, Gets
  <2>2. Owner(h)' /\ Floor(h)'
    BY <1>1, <1>10, <2>1 DEF Request, Owner, Floor
  <2>3. AsNew(h) /\ get[h].key \in Keys => AsNew(h)'
    <3> SUFFICES ASSUME AsNew(h), get[h].key \in Keys PROVE AsNew(h)'
      OBVIOUS
    <3>1. told'[get[h].key] <= Tiles!Age(get[h].version)
      BY <1>9, <1>10 DEF AsNew
    <3>2. \A i \in Getters : get'[i].at = "tell" => get'[i] = get[i]
      BY <1>6, <1>7 DEF Tiles!Idle
    <3>3. QED
      BY <1>1, <2>1, <3>1, <3>2 DEF AsNew
  <2>4. Brings(h)' /\ Stored(h)'
    BY <1>1, <2>1, <2>3 DEF Request, Brings, Stored
  <2>5. Telling(h)'
    <3>1. \A i \in Getters : get'[i].at = "wait" => get'[i] = get[i]
      BY <1>6, <1>7 DEF Tiles!Idle
    <3>2. QED
      BY <1>1, <2>1, <3>1 DEF Request, Telling
  <2>6. QED
    BY <2>2, <2>4, <2>5 DEF Request
<1>15. QED
  BY <1>11, <1>12, <1>13, <1>14 DEF Pictures

LEMMA PicturesStep ==
  ASSUME Queue, Pictures, Tiles!Next
  PROVE  Pictures'
<1>1. CASE Tiles!TimePasses
  BY <1>1, NothingMoves DEF Tiles!TimePasses
<1>2. CASE Tiles!WorldChanges
  BY <1>2, WorldMoves
<1>3. ASSUME NEW k \in Keys, Tiles!Asks(k)
      PROVE  Pictures'
  <2>1. UNCHANGED <<drawn, items, redrawn, inflight>>
    BY <1>3 DEF Tiles!Asks
  <2>2. CASE /\ items[k] # Tiles!NoItem /\ UNCHANGED get
             /\ told' = Tiles!Shown(k, items[k].version)
    BY <2>1, <2>2, AnsweredOfTheShelf
  <2>3. CASE /\ UNCHANGED told
             /\ get' = [get EXCEPT ![CHOOSE g \in Getters : get[g].at = "idle"] =
                  [Tiles!Idle EXCEPT !.at = "join", !.key = k, !.floor = told[k]]]
    <3>1. PICK g \in Getters :
            /\ get[g].at = "idle"
            /\ get' = [get EXCEPT ![g] =
                 [Tiles!Idle EXCEPT !.at = "join", !.key = k, !.floor = told[k]]]
      BY <1>3, <2>3 DEF Tiles!Asks
    <3>2. /\ get'[g].at = "join" /\ get'[g].key = k /\ get'[g].floor = told[k]
          /\ \A h \in Getters \ {g} : get'[h] = get[h]
      BY <3>1 DEF Queue, Gets, Tiles!Idle
    <3>3. Queue'
      BY <1>3, QueueStep DEF Tiles!Next
    <3>4. QED
      BY <2>1, <2>3, <3>1, <3>2, <3>3, SomebodyComes
  <2>4. QED
    BY <1>3, <2>2, <2>3 DEF Tiles!Asks, Tiles!Fresh
<1>4. ASSUME NEW g \in Getters, Tiles!Joins(g)
      PROVE  Pictures'
  <2>1. get[g].at = "join" /\ UNCHANGED <<drawn, items, told, redrawn>>
    BY <1>4 DEF Tiles!Joins
  <2>2. CASE inflight[get[g].key] # Tiles!Nobody
    <3>1. /\ get' = [get EXCEPT ![g].at = "wait", ![g].on = inflight[get[g].key]]
          /\ UNCHANGED inflight
      BY <1>4, <2>2 DEF Tiles!Joins
    <3>2. /\ get'[g].at = "wait" /\ get'[g].key = get[g].key
          /\ get'[g].floor = get[g].floor /\ get'[g].on = inflight[get[g].key]
          /\ \A h \in Getters \ {g} : get'[h] = get[h]
      BY <3>1 DEF Queue, Gets, IsRequest, Fields
    <3>3. inflight[get[g].key] \in Getters /\ get[inflight[get[g].key]].at \in Working
      BY <2>1, <2>2 DEF Queue, Gets, Taken
    <3>4. QED
      BY <2>1, <3>1, <3>2, <3>3, SomebodyWaits
  <2>3. CASE inflight[get[g].key] = Tiles!Nobody
    <3>1. /\ Tiles!Goes(g, "fetch")
          /\ inflight' = [inflight EXCEPT ![get[g].key] = g]
      BY <1>4, <2>3 DEF Tiles!Joins
    <3>2. Onward(g, "fetch")
      BY <3>1, GoingOn DEF Queue
    <3>3. QED
      BY <2>1, <2>3, <3>1, <3>2, SomebodyTakes
  <2>4. QED
    BY <2>2, <2>3
<1>5. QED
  BY <1>1, <1>2, <1>3, <1>4, APictureComes, NoPictureComes, TheProbe,
     APictureIsStored, SomebodyIsDone, EverybodyIsTold
     DEF Tiles!Next, Tiles!GetterStep

\* No request, whether it fetches, waits for the fetch of another, queues for a
\* refresh or is served what is held, is answered with less than was shown to
\* anybody before it was made; with fetches failing, tiles evicted and the
\* world and the mods changing in between.
THEOREM NeverEverGoesBack == Spec => []NeverGoesBack
<1> DEFINE Inv == (part = "tiles" => Queue /\ Pictures) /\ (part = "lists" => Refreshed)
<1>1. Init => Inv
  BY QueueInit, PicturesInit, RefreshedInit
<1>2. Inv /\ [Next]_vars => Inv'
  <2> SUFFICES ASSUME Inv, [Next]_vars PROVE Inv'
    OBVIOUS
  <2>1. ASSUME part' = "tiles" PROVE (Queue /\ Pictures)'
    <3>1. CASE TilesMove
      BY <3>1, QueueStep, PicturesStep DEF TilesMove
    <3>2. CASE UNCHANGED <<part, tileVars>>
      <4>1. Queue /\ Pictures /\ UNCHANGED tileVars
        BY <2>1, <3>2
      <4>2. Queue'
        BY <4>1 DEF tileVars, Queue, Gets, Taken, Joined, Probed
      <4>3. Pictures'
        BY <4>1, NothingMoves DEF tileVars
      <4>4. QED
        BY <4>2, <4>3
    <3>3. QED
      BY <2>1, <3>1, <3>2 DEF Next, vars, ChatMoves, TilesMove, ListsMove,
         LoginsMove, HandsMove, BootMoves, PagesMove
  <2>2. ASSUME part' = "lists" PROVE Refreshed'
    <3>1. CASE ListsMove
      BY <3>1, RefreshedStep DEF ListsMove
    <3>2. CASE UNCHANGED <<part, catalogVars>>
      BY <2>2, <3>2 DEF catalogVars, Refreshed, Held, Lists!NobodyIsStranded, Grows,
         OneRefresh
    <3>3. QED
      BY <2>2, <3>1, <3>2 DEF Next, vars, ChatMoves, TilesMove, ListsMove,
         LoginsMove, HandsMove, BootMoves, PagesMove
  <2>3. QED
    BY <2>1, <2>2
<1>3. Pictures => Tiles!NeverGoesBack
  <2> SUFFICES ASSUME Pictures PROVE Tiles!NeverGoesBack
    OBVIOUS
  <2>1. ASSUME NEW k \in Keys, items[k] # Tiles!NoItem
        PROVE  Tiles!Age(items[k].version) >= told[k]
    <3>1. /\ items[k].version \in Nat /\ told[k] \in Nat
          /\ told[k] <= Tiles!Age(items[k].version)
      BY <2>1 DEF Pictures, Shelved, Scale
    <3>2. QED
      BY <3>1, Ages
  <2>2. ASSUME NEW g \in Getters, get[g].at = "tell", get[g].version # -1,
               NEW h \in {g} \cup Tiles!Waiting(g)
        PROVE  Tiles!Age(get[g].version) >= get[h].floor
    <3>1. /\ h \in Getters /\ get[h].at # "idle"
          /\ h = g \/ (get[h].at = "wait" /\ get[h].on = g)
      BY <2>2 DEF Tiles!Waiting
    <3>2. get[h].floor \in Int
      BY <3>1 DEF Pictures, Request, Floor
    <3>3. get[g].version \in Nat /\ get[h].floor <= Tiles!Age(get[g].version)
      BY <2>2, <3>1 DEF Pictures, Request, Telling
    <3>4. QED
      BY <3>2, <3>3, Ages
  <2>3. QED
    BY <2>1, <2>2 DEF Tiles!NeverGoesBack
<1>4. Refreshed => Lists!NeverGoesBack
  <2> SUFFICES ASSUME Refreshed PROVE Lists!NeverGoesBack
    OBVIOUS
  <2>1. copy.version >= seen
    BY DEF Refreshed, Grows
  <2>2. ASSUME NEW g \in Readers, reading[g].at = "store"
        PROVE  reading[g].version >= reading[g].floor
    BY <2>2 DEF Refreshed, Grows, OneRefresh
  <2>3. QED
    BY <2>1, <2>2 DEF Lists!NeverGoesBack
<1>5. Inv => NeverGoesBack
  BY <1>3, <1>4 DEF NeverGoesBack
<1>6. QED
  BY <1>1, <1>2, <1>5, PTL DEF Spec
-----------------------------------------------------------------------------
(***************************************************************************)
(* The tile cache: the list, the map and the count of bytes.               *)
(***************************************************************************)

\* A square that is used goes to the front, and none is there twice.
LEMMA FrontKeepsTheRest ==
  ASSUME NEW k \in Keys, order \in Seq(Keys), Tiles!IsInjective(order)
  PROVE  /\ Tiles!ToFront(k) \in Seq(Keys) /\ Tiles!IsInjective(Tiles!ToFront(k))
         /\ Tiles!ToSet(Tiles!ToFront(k)) = Tiles!ToSet(order) \cup {k}
<1> DEFINE n == Len(order)
<1>1. n \in Nat /\ DOMAIN order = 1..n /\ \A i \in 1..n : order[i] \in Keys
  BY LenProperties, ElementOfSeq
<1>2. CASE k \notin Tiles!ToSet(order)
  <2> DEFINE new == <<k>> \o order
  <2>1. Tiles!ToFront(k) = new
    BY <1>2 DEF Tiles!ToFront
  <2>2. <<k>> \in Seq(Keys) /\ Len(<<k>>) = 1 /\ <<k>>[1] = k
    OBVIOUS
  <2>3. /\ new \in Seq(Keys) /\ Len(new) = n + 1
        /\ \A i \in 1..(n + 1) : new[i] = IF i <= 1 THEN <<k>>[i] ELSE order[i - 1]
    BY <2>2, ConcatProperties
  <2>4. DOMAIN new = 1..(n + 1) /\ new[1] = k /\ \A i \in 1..n : new[i + 1] = order[i]
    BY <1>1, <2>2, <2>3, LenProperties
  <2> HIDE DEF new
  <2>5. \A i \in 1..n : order[i] # k
    BY <1>1, <1>2 DEF Tiles!ToSet
  <2>6. \A i, j \in 1..n : order[i] = order[j] => i = j
    BY <1>1 DEF Tiles!IsInjective
  <2>7. \A i \in 1..(n + 1) : i = 1 \/ (i - 1 \in 1..n /\ new[i] = order[i - 1])
    BY <1>1, <2>4
  <2> HIDE DEF n
  <2>8. ASSUME NEW i \in 1..(n + 1), NEW j \in 1..(n + 1), new[i] = new[j]
        PROVE  i = j
    <3>1. CASE i = 1 \/ j = 1
      BY <1>1, <2>4, <2>5, <2>7, <2>8, <3>1
    <3>2. CASE i # 1 /\ j # 1
      <4>1. i - 1 \in 1..n /\ j - 1 \in 1..n /\ order[i - 1] = order[j - 1]
        BY <2>7, <2>8, <3>2
      <4>2. i - 1 = j - 1
        BY <2>6, <4>1
      <4>3. QED
        BY <1>1, <4>2
    <3>3. QED
      BY <3>1, <3>2
  <2>9. Tiles!ToSet(new) = Tiles!ToSet(order) \cup {k}
    <3>1. ASSUME NEW x \in Tiles!ToSet(order) \cup {k}
          PROVE  \E i \in 1..(n + 1) : new[i] = x
      <4>1. CASE x = k
        BY <1>1, <2>4, <4>1
      <4>2. CASE x # k
        <5>1. PICK i \in 1..n : order[i] = x
          BY <1>1, <3>1, <4>2 DEF Tiles!ToSet
        <5>2. i + 1 \in 1..(n + 1) /\ new[i + 1] = x
          BY <1>1, <2>4, <5>1
        <5>3. QED
          BY <5>2
      <4>3. QED
        BY <4>1, <4>2
    <3>2. ASSUME NEW i \in 1..(n + 1)
          PROVE  new[i] \in Tiles!ToSet(order) \cup {k}
      BY <1>1, <2>4, <2>7 DEF Tiles!ToSet
    <3>3. Tiles!ToSet(new) = {new[i] : i \in 1..(n + 1)}
      BY <2>4 DEF Tiles!ToSet
    <3>4. QED
      BY <3>1, <3>2, <3>3
  <2>10. QED
    BY <2>1, <2>3, <2>4, <2>8, <2>9 DEF Tiles!IsInjective
<1>3. CASE k \in Tiles!ToSet(order)
  <2> DEFINE new == [i \in DOMAIN order |->
               IF i = 1 THEN k
               ELSE IF \E j \in i..n : order[j] = k THEN order[i - 1] ELSE order[i]]
  <2>1. Tiles!ToFront(k) = new
    BY <1>3 DEF Tiles!ToFront
  <2>2. PICK p \in 1..n : order[p] = k
    BY <1>1, <1>3 DEF Tiles!ToSet
  <2>3. \A i, j \in 1..n : order[i] = order[j] => i = j
    BY <1>1 DEF Tiles!IsInjective
  <2> HIDE DEF n
  <2>4. \A i \in 1..n : (\E j \in i..n : order[j] = k) <=> i <= p
    BY <1>1, <2>2, <2>3
  <2>5. /\ DOMAIN new = 1..n /\ new[1] = k
        /\ \A i \in 1..n : i # 1 /\ i <= p => i - 1 \in 1..n /\ new[i] = order[i - 1]
        /\ \A i \in 1..n : p < i => new[i] = order[i]
    BY <1>1, <2>2, <2>4
  <2> HIDE DEF new
  <2>6. \A i \in 1..n : new[i] \in Keys
    BY <1>1, <2>2, <2>5
  <2>7. new \in Seq(Keys)
    <3>1. new = [i \in 1..n |-> new[i]]
      BY <2>1, <2>5, <1>1 DEF new
    <3>2. QED
      BY <1>1, <2>6, <3>1
  <2>8. ASSUME NEW i \in 1..n, NEW j \in 1..n, new[i] = new[j], i < j
        PROVE  FALSE
    <3>1. CASE i = 1
      <4>1. CASE j <= p
        <5>1. j - 1 \in 1..n /\ order[j - 1] = k
          BY <1>1, <2>5, <2>8, <3>1, <4>1
        <5>2. j - 1 = p
          BY <2>2, <2>3, <5>1
        <5>3. QED
          BY <1>1, <2>2, <4>1, <5>2
      <4>2. CASE p < j
        BY <1>1, <2>2, <2>3, <2>5, <2>8, <3>1, <4>2
      <4>3. QED
        BY <1>1, <2>2, <4>1, <4>2
    <3>2. CASE i # 1 /\ j <= p
      <4>1. i - 1 \in 1..n /\ j - 1 \in 1..n /\ order[i - 1] = order[j - 1]
        BY <1>1, <2>2, <2>5, <2>8, <3>2
      <4>2. i - 1 = j - 1
        BY <2>3, <4>1
      <4>3. QED
        BY <1>1, <2>8, <4>2
    <3>3. CASE i # 1 /\ i <= p /\ p < j
      <4>1. i - 1 \in 1..n /\ order[i - 1] = order[j]
        BY <1>1, <2>2, <2>5, <2>8, <3>3
      <4>2. i - 1 = j
        BY <2>3, <4>1
      <4>3. QED
        BY <1>1, <2>8, <4>2
    <3>4. CASE p < i
      <4>1. p < j
        BY <1>1, <2>2, <2>8, <3>4
      <4>2. QED
        BY <1>1, <2>3, <2>5, <2>8, <3>4, <4>1
    <3>5. QED
      BY <1>1, <2>2, <3>1, <3>2, <3>3, <3>4
  <2>9. Tiles!ToSet(new) = Tiles!ToSet(order) \cup {k}
    <3>1. ASSUME NEW i \in 1..n
          PROVE  \E j \in 1..n : new[j] = order[i]
      <4>1. CASE i < p
        <5>1. i + 1 \in 1..n /\ i + 1 # 1 /\ i + 1 <= p /\ (i + 1) - 1 = i
          BY <1>1, <2>2, <4>1
        <5>2. QED
          BY <2>5, <5>1
      <4>2. CASE i = p
        BY <1>1, <2>2, <2>5, <4>2
      <4>3. CASE p < i
        BY <2>5, <4>3
      <4>4. QED
        BY <1>1, <2>2, <4>1, <4>2, <4>3
    <3>2. ASSUME NEW i \in 1..n
          PROVE  \E j \in 1..n : new[i] = order[j]
      BY <1>1, <2>2, <2>5
    <3>3. /\ Tiles!ToSet(new) = {new[i] : i \in 1..n}
          /\ Tiles!ToSet(order) = {order[i] : i \in 1..n}
      BY <1>1, <2>5 DEF Tiles!ToSet
    <3>4. QED
      BY <1>3, <3>1, <3>2, <3>3
  <2>10. QED
    <3>1. \A i, j \in 1..n : new[i] = new[j] => i = j
      BY <1>1, <2>8
    <3>2. QED
      BY <2>1, <2>5, <2>7, <2>9, <3>1 DEF Tiles!IsInjective
<1>4. QED
  BY <1>2, <1>3

\* A picture there may be.
IsPicture(v) == v \in Nat /\ (v = Tiles!Placeholder \/ v <= MaxDrawn + 1)

\* What some squares weigh is what their pictures do, whatever the others are.
LEMMA WeightOfSome ==
  ASSUME NEW v, NEW w, NEW S, \A k \in S : v[k] = w[k]
  PROVE  Tiles!Weight(v, S) = Tiles!Weight(w, S)
<1>1. {{k} \X (1..Tiles!SizeOf(v[k])) : k \in S} = {{k} \X (1..Tiles!SizeOf(w[k])) : k \in S}
  OBVIOUS
<1>2. QED
  BY <1>1 DEF Tiles!Weight

\* What is listed weighs a number of bytes.
LEMMA WeightIsNatural ==
  ASSUME NEW used \in Seq(Keys), NEW v, \A k \in Tiles!ToSet(used) : IsPicture(v[k])
  PROVE  Tiles!Weight(v, Tiles!ToSet(used)) \in Nat
<1> DEFINE S == Tiles!ToSet(used)
           bytesOf(k) == {k} \X (1..Tiles!SizeOf(v[k]))
           all == {bytesOf(k) : k \in S}
<1>1. IsFiniteSet(S)
  <2>1. Len(used) \in Nat /\ DOMAIN used = 1..Len(used)
    BY LenProperties
  <2>2. IsFiniteSet(1..Len(used))
    BY <2>1, FS_Interval
  <2>3. used \in Surjection(1..Len(used), S)
    <3>1. used = [i \in 1..Len(used) |-> used[i]] /\ \A i \in 1..Len(used) : used[i] \in S
      BY <2>1 DEF Tiles!ToSet
    <3>2. used \in [1..Len(used) -> S] /\ \A s \in S : \E i \in 1..Len(used) : used[i] = s
      BY <2>1, <3>1 DEF Tiles!ToSet
    <3>3. QED
      BY <3>2 DEF Surjection
  <2>4. QED
    BY <2>2, <2>3, FS_Surjection
<1>2. ASSUME NEW k \in S PROVE IsFiniteSet(bytesOf(k))
  <2>1. Tiles!SizeOf(v[k]) \in Nat
    <3>1. CASE v[k] = Tiles!Missing
      BY <3>1 DEF Tiles!SizeOf
    <3>2. CASE v[k] # Tiles!Missing
      <4>1. v[k] \in 1..(MaxDrawn + 1) \cup {Tiles!Placeholder}
        BY <3>2, CachesAssumption DEF IsPicture, Tiles!Missing
      <4>2. QED
        BY <3>2, <4>1, CachesAssumption DEF Tiles!SizeOf
    <3>3. QED
      BY <3>1, <3>2
  <2>2. IsFiniteSet(1..Tiles!SizeOf(v[k]))
    BY <2>1, FS_Interval
  <2>3. IsFiniteSet({k})
    BY FS_Singleton
  <2>4. QED
    BY <2>2, <2>3, FS_Product
<1>3. IsFiniteSet(all)
  <2> DEFINE f == [k \in S |-> bytesOf(k)]
  <2>1. f \in [S -> all] /\ \A T \in all : \E k \in S : f[k] = T
    OBVIOUS
  <2>2. f \in Surjection(S, all)
    BY <2>1 DEF Surjection
  <2>3. QED
    BY <1>1, <2>2, FS_Surjection
<1>4. \A T \in all : IsFiniteSet(T)
  BY <1>2
<1>5. IsFiniteSet(UNION all)
  <2> HIDE DEF all
  <2>1. QED
    BY <1>3, <1>4, FS_UNION
<1>6. Tiles!Weight(v, S) = Cardinality(UNION all)
  BY DEF Tiles!Weight, Tiles!Cardinality, Cardinality
<1>7. Cardinality(UNION all) \in Nat
  <2> HIDE DEF all
  <2>1. QED
    BY <1>5, FS_CardinalityType
<1>8. QED
  BY <1>6, <1>7

LEMMA NothingWeighsNothing ==
  ASSUME NEW v
  PROVE  Tiles!Weight(v, {}) = 0
<1>1. UNION {{k} \X (1..Tiles!SizeOf(v[k])) : k \in {}} = {}
  OBVIOUS
<1>2. Tiles!Weight(v, {}) = Cardinality({})
  BY <1>1 DEF Tiles!Weight, Tiles!Cardinality, Cardinality
<1>3. QED
  BY <1>2, FS_EmptySet

\* A set of numbers up to one of them has a largest.
LEMMA Largest ==
  ASSUME NEW n \in Nat, NEW S \in SUBSET (0..n), S # {}
  PROVE  Tiles!Max(S) \in S
<1> DEFINE D == {d \in Nat : d <= n /\ n - d \in S}
<1>1. D \in SUBSET Nat /\ D # {}
  <2>1. PICK m \in S : m \in 0..n
    OBVIOUS
  <2>2. n - m \in Nat /\ n - m <= n /\ n - (n - m) = m
    BY <2>1
  <2>3. QED
    BY <2>1, <2>2
<1>2. PICK d \in D : \A e \in D : d <= e
  BY <1>1, Smallest
<1>3. n - d \in S
  OBVIOUS
<1>4. ASSUME NEW x \in S PROVE n - d >= x
  <2>1. x \in 0..n /\ n - x \in Nat /\ n - x <= n /\ n - (n - x) = x
    OBVIOUS
  <2>2. d <= n - x
    BY <1>2, <2>1
  <2>3. QED
    BY <1>3, <2>1, <2>2
<1>5. \E m \in S : \A x \in S : m >= x
  BY <1>3, <1>4
<1>6. QED
  BY <1>5 DEF Tiles!Max

\* What is kept is of what was used, and within the cap.
LEMMA KeptFits ==
  ASSUME NEW v, NEW used \in Seq(Keys), Tiles!IsInjective(used),
         \A k \in Tiles!ToSet(used) : IsPicture(v[k])
  PROVE  LET kept == Tiles!Kept(v, used)
         IN /\ kept \in Seq(Keys) /\ Tiles!IsInjective(kept)
            /\ Tiles!ToSet(kept) \subseteq Tiles!ToSet(used)
            /\ Tiles!Weight(v, Tiles!ToSet(kept)) \in 0..MaxBytes
<1> DEFINE n == Len(used)
           first(m) == SubSeq(used, 1, m)
           S == {m \in 0..n : Tiles!Weight(v, Tiles!ToSet(first(m))) <= MaxBytes}
           top == Tiles!Max(S)
           kept == first(top)
<1>1. Tiles!Kept(v, used) = kept
  BY DEF Tiles!Kept
<1>2. n \in Nat /\ DOMAIN used = 1..n /\ \A i \in 1..n : used[i] \in Keys
  BY LenProperties, ElementOfSeq
<1>3. 0 \in S
  <2>1. first(0) = <<>>
    BY SubSeqEmpty
  <2>2. Tiles!ToSet(<<>>) = {}
    BY DEF Tiles!ToSet
  <2>3. Tiles!Weight(v, Tiles!ToSet(first(0))) = 0
    BY <2>1, <2>2, NothingWeighsNothing
  <2>4. 0 <= MaxBytes
    BY ServicesAssumption
  <2>5. QED
    BY <1>2, <2>3, <2>4
<1>4. S \in SUBSET (0..n) /\ S # {}
  BY <1>3
<1>5. top \in 0..n /\ Tiles!Weight(v, Tiles!ToSet(kept)) <= MaxBytes
  <2>1. top \in S
    <3> HIDE DEF S, n
    <3>1. QED
      BY <1>2, <1>4, Largest
  <2>2. \A m \in S : m \in 0..n /\ Tiles!Weight(v, Tiles!ToSet(first(m))) <= MaxBytes
    OBVIOUS
  <2> HIDE DEF S, top
  <2>3. QED
    BY <2>1, <2>2
<1> HIDE DEF n, top
<1>6. /\ kept \in Seq(Keys) /\ Len(kept) = top
      /\ \A i \in 1..top : kept[i] = used[i]
  <2>1. 1 \in Int /\ top \in Int /\ \A i \in 1..top : used[i] \in Keys
    BY <1>2, <1>5
  <2>2. /\ kept \in Seq(Keys)
        /\ Len(kept) = IF 1 <= top THEN top - 1 + 1 ELSE 0
        /\ \A i \in 1..(top - 1 + 1) : kept[i] = used[1 + i - 1]
    BY <2>1, SubSeqProperties
  <2>3. QED
    BY <1>2, <1>5, <2>2
<1> HIDE DEF kept
<1>7. DOMAIN kept = 1..top
  BY <1>6, LenProperties
<1>8. Tiles!ToSet(kept) \subseteq Tiles!ToSet(used)
  <2>1. \A i \in 1..top : i \in 1..n
    BY <1>2, <1>5
  <2>2. QED
    BY <1>2, <1>6, <1>7, <2>1 DEF Tiles!ToSet
<1>9. Tiles!IsInjective(kept)
  <2>1. \A i \in 1..top : i \in 1..n
    BY <1>2, <1>5
  <2>2. QED
    BY <1>2, <1>6, <1>7, <2>1 DEF Tiles!IsInjective
<1>10. Tiles!Weight(v, Tiles!ToSet(kept)) \in Nat
  BY <1>6, <1>8, WeightIsNatural
<1>11. Tiles!Weight(v, Tiles!ToSet(kept)) \in 0..MaxBytes
  BY <1>5, <1>10, ServicesAssumption
<1>12. QED
  BY <1>1, <1>6, <1>8, <1>9, <1>11

Versions == [k \in Keys |-> items[k].version]

\* The list and the map hold the same squares, and the count is what they weigh.
Tidy ==
  /\ order \in Seq(Keys) /\ Tiles!IsInjective(order)
  /\ items = [k \in Keys |-> items[k]]
  /\ Tiles!ToSet(order) = {k \in Keys : items[k] # Tiles!NoItem}
  /\ bytes = Tiles!Weight(Versions, Tiles!ToSet(order)) /\ bytes \in 0..MaxBytes

LEMMA TidyInit ==
  ASSUME Init
  PROVE  Tidy
<1>1. items = [k \in Keys |-> Tiles!NoItem] /\ order = <<>> /\ bytes = 0
  BY DEF Init, Tiles!Init
<1>2. Tiles!ToSet(<<>>) = {} /\ Tiles!IsInjective(<<>>) /\ <<>> \in Seq(Keys)
  BY DEF Tiles!ToSet, Tiles!IsInjective
<1>3. bytes = Tiles!Weight(Versions, Tiles!ToSet(order))
  BY <1>1, <1>2, NothingWeighsNothing
<1>4. Tiles!ToSet(order) = {k \in Keys : items[k] # Tiles!NoItem}
  BY <1>1, <1>2
<1>5. 0 \in 0..MaxBytes
  BY ServicesAssumption
<1>6. QED
  BY <1>1, <1>2, <1>3, <1>4, <1>5 DEF Tidy

\* What is held is a picture there may be, and so is what is about to be stored.
LEMMA PicturesArePictures ==
  ASSUME Queue, Pictures
  PROVE  /\ \A k \in Keys : items[k] # Tiles!NoItem => IsPicture(items[k].version)
         /\ \A g \in Getters : get[g].at \in {"blank", "store"} => IsPicture(get[g].version)
<1>1. ASSUME NEW v \in Nat, NEW k \in Keys, Tiles!Age(v) <= drawn[k]
      PROVE  IsPicture(v)
  <2>1. drawn[k] \in Nat /\ drawn[k] <= MaxDrawn + 1
    BY CachesAssumption DEF Pictures, Scale
  <2>2. QED
    BY <1>1, <2>1, CachesAssumption DEF IsPicture, Tiles!Age
<1>2. ASSUME NEW k \in Keys, items[k] # Tiles!NoItem
      PROVE  IsPicture(items[k].version)
  BY <1>1, <1>2 DEF Pictures, Shelved
<1>3. ASSUME NEW g \in Getters, get[g].at \in {"blank", "store"}
      PROVE  IsPicture(get[g].version)
  <2>1. AsNew(g) /\ get[g].key \in Keys
    BY <1>3 DEF Pictures, Request, Brings, Queue, Gets
  <2>2. QED
    BY <1>1, <2>1 DEF AsNew
<1>4. QED
  BY <1>2, <1>3

LEMMA TidyWhenAsked ==
  ASSUME Tidy, NEW k \in Keys, Tiles!Asks(k)
  PROVE  Tidy'
<1>1. UNCHANGED <<items, bytes>>
  BY DEF Tiles!Asks
<1>2. CASE UNCHANGED order
  BY <1>1, <1>2 DEF Tidy, Versions
<1>3. CASE order' = Tiles!ToFront(k) /\ items[k] # Tiles!NoItem
  <2>1. k \in Tiles!ToSet(order)
    BY <1>3 DEF Tidy
  <2>2. /\ order' \in Seq(Keys) /\ Tiles!IsInjective(order')
        /\ Tiles!ToSet(order') = Tiles!ToSet(order) \cup {k}
    BY <1>3, FrontKeepsTheRest DEF Tidy
  <2>3. Tiles!ToSet(order') = Tiles!ToSet(order)
    BY <2>1, <2>2
  <2>4. QED
    BY <1>1, <2>2, <2>3 DEF Tidy, Versions
<1>4. QED
  BY <1>2, <1>3 DEF Tiles!Asks, Tiles!Fresh

LEMMA TidyWhenStored ==
  ASSUME Queue, Pictures, Tidy, NEW g \in Getters, Tiles!Stores(g)
  PROVE  Tidy'
<1> DEFINE k == get[g].key
           new == IF get[g].version = Tiles!Placeholder /\ blank = "known"
                  THEN Tiles!Missing ELSE get[g].version
           same == items[k].version = new
           version == [j \in Keys |-> IF j = k THEN new ELSE items[j].version]
           front == Tiles!ToFront(k)
           kept == Tiles!Kept(version, front)
           entry == [version |-> new, fetchedAt |-> clock]
<1>1. /\ get[g].at \in {"store", "blank"}
      /\ order' = IF same THEN front ELSE kept
      /\ items' = [j \in Keys |-> IF j \notin Tiles!ToSet(order') THEN Tiles!NoItem
                                  ELSE IF j = k THEN entry ELSE items[j]]
      /\ bytes' = IF same THEN bytes ELSE Tiles!Weight(version, Tiles!ToSet(kept))
  BY Zenon DEF Tiles!Stores
<1>2. k \in Keys
  BY <1>1 DEF Queue, Gets
<1>3. IsPicture(new) /\ new \in Nat
  <2>1. IsPicture(get[g].version)
    BY <1>1, PicturesArePictures
  <2>2. IsPicture(Tiles!Missing)
    BY CachesAssumption DEF IsPicture, Tiles!Missing
  <2>3. QED
    BY <2>1, <2>2 DEF IsPicture
<1>4. entry # Tiles!NoItem /\ entry.version = new
  BY <1>3 DEF Tiles!NoItem
<1>5. /\ front \in Seq(Keys) /\ Tiles!IsInjective(front)
      /\ Tiles!ToSet(front) = Tiles!ToSet(order) \cup {k}
  BY <1>2, FrontKeepsTheRest DEF Tidy
<1>6. \A j \in Tiles!ToSet(front) :
        j \in Keys /\ (j = k \/ items[j] # Tiles!NoItem) /\ IsPicture(version[j])
  <2>1. \A j \in Tiles!ToSet(order) : j \in Keys /\ items[j] # Tiles!NoItem
    BY DEF Tidy
  <2>2. \A j \in Keys : version[j] = IF j = k THEN new ELSE items[j].version
    OBVIOUS
  <2> HIDE DEF version, k, new, front
  <2>3. QED
    BY <1>2, <1>3, <1>5, <2>1, <2>2, PicturesArePictures
<1>7. /\ kept \in Seq(Keys) /\ Tiles!IsInjective(kept)
      /\ Tiles!ToSet(kept) \subseteq Tiles!ToSet(front)
      /\ Tiles!Weight(version, Tiles!ToSet(kept)) \in 0..MaxBytes
  <2> HIDE DEF version, front
  <2>1. \A j \in Tiles!ToSet(front) : IsPicture(version[j])
    BY <1>6
  <2>2. QED
    BY <1>5, <2>1, KeptFits
<1>8. \A j \in Keys : version[j] = IF j = k THEN new ELSE items[j].version
  OBVIOUS
<1>9. same => k \in Tiles!ToSet(order)
  BY <1>2, <1>3 DEF Tidy, Tiles!NoItem
<1> HIDE DEF k, new, version, front, kept, entry
<1>10. /\ order' \in Seq(Keys) /\ Tiles!IsInjective(order')
       /\ Tiles!ToSet(order') \subseteq Tiles!ToSet(front)
  BY <1>1, <1>5, <1>7
<1>11. ASSUME NEW j \in Keys
       PROVE  items'[j] = IF j \notin Tiles!ToSet(order') THEN Tiles!NoItem
                          ELSE IF j = k THEN entry ELSE items[j]
  BY <1>1
<1>12. items' = [j \in Keys |-> items'[j]]
  BY <1>1
<1>13. Tiles!ToSet(order') = {j \in Keys : items'[j] # Tiles!NoItem}
  BY <1>4, <1>6, <1>10, <1>11
<1>14. \A j \in Tiles!ToSet(order') : Versions'[j] = version[j]
  <2>1. \A j \in Keys : Versions'[j] = items'[j].version
    BY DEF Versions
  <2>2. QED
    BY <1>4, <1>6, <1>8, <1>10, <1>11, <2>1
<1>15. Tiles!Weight(Versions', Tiles!ToSet(order')) = Tiles!Weight(version, Tiles!ToSet(order'))
  BY <1>14, WeightOfSome
<1>16. bytes' = Tiles!Weight(version, Tiles!ToSet(order')) /\ bytes' \in 0..MaxBytes
  <2>1. CASE ~same
    BY <1>1, <1>7, <2>1
  <2>2. CASE same
    <3>1. order' = front /\ Tiles!ToSet(front) = Tiles!ToSet(order) /\ bytes' = bytes
      BY <1>1, <1>5, <1>9, <2>2
    <3>2. \A j \in Tiles!ToSet(order) : Versions[j] = version[j]
      <4>1. \A j \in Keys : Versions[j] = items[j].version
        BY DEF Versions
      <4>2. \A j \in Tiles!ToSet(order) : j \in Keys
        BY DEF Tidy
      <4>3. QED
        BY <1>8, <2>2, <4>1, <4>2
    <3>3. Tiles!Weight(Versions, Tiles!ToSet(order)) = Tiles!Weight(version, Tiles!ToSet(order))
      BY <3>2, WeightOfSome
    <3>4. QED
      BY <3>1, <3>3 DEF Tidy
  <2>3. QED
    BY <2>1, <2>2
<1>17. QED
  BY <1>10, <1>12, <1>13, <1>15, <1>16 DEF Tidy

LEMMA TidyStep ==
  ASSUME Queue, Pictures, Tidy, Tiles!Next
  PROVE  Tidy'
<1>1. CASE UNCHANGED <<items, order, bytes>>
  BY <1>1 DEF Tidy, Versions
<1>2. QED
  BY <1>1, TidyWhenAsked, TidyWhenStored DEF Tiles!Next, Tiles!GetterStep,
     Tiles!TimePasses, Tiles!WorldChanges, Tiles!Joins, Tiles!Fetches, Tiles!FetchFails,
     Tiles!Probes, Tiles!Learns, Tiles!Unlists, Tiles!Tells

\* Where a request is, and that there is one probe.
Steady ==
  /\ \A g \in Getters :
       /\ get[g].at \in Tiles!Stages
       /\ get[g].at = "probe" => blank = "asking"
  /\ \A g, h \in Getters : get[g].at = "probe" /\ get[h].at = "probe" => g = h

LEMMA SteadyStep ==
  ASSUME Queue, Steady, Tiles!Next
  PROVE  Steady'
<1> USE DEF Steady, Tiles!Stages
<1>1. CASE UNCHANGED <<get, blank>>
  BY <1>1
<1>2. ASSUME NEW g \in Getters, NEW at \in Tiles!Stages, UNCHANGED blank, at # "probe",
             \A h \in Getters : get'[h].at \in {get[h].at, at}
      PROVE  Steady'
  BY <1>2
<1>3. ASSUME NEW k \in Keys, Tiles!Asks(k)
      PROVE  Steady'
  <2>1. CASE UNCHANGED get
    BY <1>1, <1>3, <2>1 DEF Tiles!Asks
  <2>2. CASE get' = [get EXCEPT ![CHOOSE g \in Getters : get[g].at = "idle"] =
            [Tiles!Idle EXCEPT !.at = "join", !.key = k, !.floor = told[k]]]
    <3>1. PICK g \in Getters : get' = [get EXCEPT ![g] =
            [Tiles!Idle EXCEPT !.at = "join", !.key = k, !.floor = told[k]]]
      BY <1>3, <2>2 DEF Tiles!Asks
    <3>2. \A h \in Getters : get'[h].at \in {get[h].at, "join"}
      BY <3>1 DEF Queue, Gets, Tiles!Idle
    <3>3. QED
      BY <1>2, <1>3, <3>2 DEF Tiles!Asks
  <2>3. QED
    BY <1>3, <2>1, <2>2 DEF Tiles!Asks
<1>4. ASSUME NEW g \in Getters, Tiles!Joins(g)
      PROVE  Steady'
  <2>1. CASE inflight[get[g].key] # Tiles!Nobody
    <3>1. /\ UNCHANGED blank
          /\ get' = [get EXCEPT ![g].at = "wait", ![g].on = inflight[get[g].key]]
      BY <1>4, <2>1 DEF Tiles!Joins
    <3>2. \A h \in Getters : get'[h].at \in {get[h].at, "wait"}
      BY <3>1 DEF Queue, Gets, IsRequest, Fields
    <3>3. QED
      BY <1>2, <3>1, <3>2
  <2>2. CASE inflight[get[g].key] = Tiles!Nobody
    <3>1. UNCHANGED blank /\ Onward(g, "fetch")
      BY <1>4, <2>2, GoingOn DEF Tiles!Joins, Queue
    <3>2. \A h \in Getters : get'[h].at \in {get[h].at, "fetch"}
      BY <3>1 DEF Onward
    <3>3. QED
      BY <1>2, <3>1, <3>2
  <2>3. QED
    BY <2>1, <2>2
<1>5. ASSUME NEW g \in Getters, NEW at \in Tiles!Stages, Onward(g, at), at # "probe",
             UNCHANGED blank
      PROVE  Steady'
  BY <1>5 DEF Onward
<1>6. ASSUME NEW g \in Getters, Tiles!Fetches(g) \/ Tiles!FetchFails(g) \/ Tiles!Stores(g)
      PROVE  Steady'
  <2>1. \E at \in {"store", "blank", "unlist"} : \E v :
          \/ get' = [get EXCEPT ![g].at = at, ![g].version = v]
          \/ get' = [get EXCEPT ![g].version = v, ![g].at = at]
    BY <1>6 DEF Tiles!Fetches, Tiles!FetchFails, Tiles!Stores
  <2>2. \E at \in {"store", "blank", "unlist"} : Onward(g, at)
    BY <2>1, GoingOnWith DEF Queue
  <2>3. QED
    BY <1>5, <1>6, <2>2 DEF Tiles!Fetches, Tiles!FetchFails, Tiles!Stores
<1>7. ASSUME NEW g \in Getters, Tiles!Probes(g)
      PROVE  Steady'
  <2>1. Onward(g, "probe") /\ blank = "unasked" /\ blank' = "asking"
    BY <1>7, GoingOn DEF Tiles!Probes, Queue
  <2>2. QED
    BY <2>1 DEF Onward
<1>8. ASSUME NEW g \in Getters, Tiles!Learns(g)
      PROVE  Steady'
  <2>1. Onward(g, "blank") /\ get[g].at = "probe"
    BY <1>8, GoingOn DEF Tiles!Learns, Queue
  <2>2. QED
    BY <2>1 DEF Onward
<1>9. ASSUME NEW g \in Getters, Tiles!Unlists(g)
      PROVE  Steady'
  <2>1. Onward(g, "tell") /\ UNCHANGED blank
    BY <1>9, GoingOn DEF Tiles!Unlists, Queue
  <2>2. QED
    BY <1>5, <2>1
<1>10. ASSUME NEW g \in Getters, Tiles!Tells(g)
       PROVE  Steady'
  <2>1. /\ UNCHANGED blank
        /\ \A h \in Getters : get'[h].at \in {get[h].at, "idle"}
    BY <1>10 DEF Tiles!Tells, Tiles!Idle
  <2>2. QED
    BY <1>2, <1>10, <2>1
<1>11. QED
  BY <1>1, <1>3, <1>4, <1>6, <1>7, <1>8, <1>9, <1>10 DEF Tiles!Next, Tiles!GetterStep,
     Tiles!TimePasses, Tiles!WorldChanges
-----------------------------------------------------------------------------
(***************************************************************************)
(* The bot, the tile cache, the catalogue and the login are well formed.   *)
(***************************************************************************)

LEMMA TidyIsWellFormed ==
  ASSUME Queue, Pictures, Tidy, Steady
  PROVE  Tiles!TypeOK
<1>1. ASSUME NEW g \in Getters
      PROVE  /\ get[g].at \in Tiles!Stages
             /\ get[g].at \in {"fetch", "blank", "probe", "store", "unlist"}
                => inflight[get[g].key] = g
             /\ get[g].at = "probe" => blank = "asking"
  BY DEF Steady, Pictures, Request, Owner, Working
<1>2. QED
  BY <1>1 DEF Tidy, Versions, Tiles!TypeOK

LEMMA TrustIsWellFormed ==
  ASSUME Trust
  PROVE  Chat!TypeOK
BY DEF Trust, Asked, Listed, Sound, Chat!TypeOK

\* What is in the copy is of the past, and a request is somewhere.
Stamped ==
  /\ now \in Int /\ copy.at \in Int /\ copy.at <= now
  /\ \A g \in Readers : reading[g].at \in {"idle", "queue", "fetch", "store"}

LEMMA StampedInit ==
  ASSUME Init
  PROVE  Stamped
BY DEF Init, Lists!Init, Stamped, Lists!NoCopy, Lists!Idle

LEMMA StampedStep ==
  ASSUME Held, Stamped, Lists!Next
  PROVE  Stamped'
<1> USE DEF Stamped
<1>1. CASE Lists!TimePasses
  BY <1>1 DEF Lists!TimePasses
<1>2. CASE Lists!ListChanges
  BY <1>2 DEF Lists!ListChanges
<1>3. ASSUME NEW g \in Readers, Lists!Asks(g) \/ Lists!Enters(g) \/ Lists!FetchFails(g)
      PROVE  Stamped'
  BY <1>3 DEF Held, IsReading, Lists!Asks, Lists!Enters, Lists!FetchFails, Lists!Answers,
     Lists!Idle
<1>4. ASSUME NEW g \in Readers, Lists!Fetches(g)
      PROVE  Stamped'
  <2>1. UNCHANGED <<now, copy>>
    BY <1>4 DEF Lists!Fetches
  <2>2. \A h \in Readers : reading'[h].at \in {reading[h].at, "store"}
    <3>1. reading' = [reading EXCEPT ![g].at = "store", ![g].version = stocked]
      BY <1>4 DEF Lists!Fetches
    <3>2. QED
      BY <3>1 DEF Held, IsReading
  <2>3. QED
    BY <2>1, <2>2
<1>5. ASSUME NEW g \in Readers, Lists!Stores(g)
      PROVE  Stamped'
  BY <1>5 DEF Held, Lists!Stores, Lists!Answers, Lists!Idle
<1>6. QED
  BY <1>1, <1>2, <1>3, <1>4, <1>5 DEF Lists!Next, Lists!ReaderStep

LEMMA StampedIsWellFormed ==
  ASSUME Refreshed, Stamped
  PROVE  Lists!TypeOK
<1>1. ASSUME NEW g \in Readers
      PROVE  /\ reading[g].at \in {"idle", "queue", "fetch", "store"}
             /\ reading[g].at \in {"fetch", "store"} <=> holder = g
  BY CachesAssumption DEF Stamped, Refreshed, OneRefresh, Held, Lists!NobodyIsStranded
<1>2. QED
  BY <1>1 DEF Refreshed, Grows, Stamped, Lists!TypeOK

\* Whoever tries to log in comes from somewhere, and a session ends in time.
Admitted ==
  /\ \A a \in Attempts : login[a].at # "idle" => login[a].from \in Addresses
  /\ \A s \in sessions : s.until \in Int /\ s.until <= hour + SessionTTL

LEMMA AdmittedInit ==
  ASSUME Init, part = "logins"
  PROVE  Admitted
BY DEF Init, Logins!Opened, Admitted, Logins!Idle

LEMMA AdmittedStep ==
  ASSUME Named, Limited, Admitted, Logins!Next
  PROVE  Admitted'
<1> USE DEF Admitted
<1>1. hour \in Nat /\ SessionTTL \in Nat
  BY ServicesAssumption DEF Limited
<1>2. login = [a \in Attempts |-> login[a]]
  BY DEF Named
<1>3. CASE Logins!TimePasses
  BY <1>1, <1>3 DEF Logins!TimePasses
<1>4. CASE Logins!CleansUp
  BY <1>1, <1>4 DEF Logins!CleansUp
<1>5. ASSUME NEW c \in Addresses, NEW n \in Names, NEW p \in Passwords,
             Logins!Arrives(c, n, p)
      PROVE  Admitted'
  BY <1>2, <1>5 DEF Logins!Arrives
<1>6. ASSUME NEW a \in Attempts, Logins!Verifies(a)
      PROVE  Admitted'
  BY <1>2, <1>6 DEF Logins!Verifies, Logins!Rests, Logins!Idle, Named, LoginType
<1>7. ASSUME NEW a \in Attempts, Logins!Creates(a)
      PROVE  Admitted'
  BY <1>1, <1>2, <1>7 DEF Logins!Creates, Named, LoginType
<1>8. ASSUME NEW a \in Attempts, Logins!Resets(a) \/ Logins!Breaks(a)
      PROVE  Admitted'
  BY <1>2, <1>8 DEF Logins!Resets, Logins!Breaks, Logins!Rests, Logins!Idle
<1>9. ASSUME NEW s \in sessions, Logins!LooksUp(s) \/ Logins!LogsOut(s)
      PROVE  Admitted'
  BY <1>9 DEF Logins!LooksUp, Logins!LogsOut
<1>10. ASSUME NEW n \in Names, NEW p \in Passwords, Logins!Restarts(n, p)
       PROVE  Admitted'
  BY <1>10 DEF Logins!Restarts, Logins!Survivors, Logins!Idle
<1>11. QED
  BY <1>3, <1>4, <1>5, <1>6, <1>7, <1>8, <1>9, <1>10 DEF Logins!Next, Logins!LoginStep

LEMMA AdmittedIsWellFormed ==
  ASSUME Doors, Limited, Admitted
  PROVE  Logins!TypeOK
<1>1. ASSUME NEW c \in Addresses
      PROVE  buckets[c].count \in 0..Limit
  <2>1. Limit \in Nat
    BY ServicesAssumption
  <2>2. PICK S : Windows(c, S)
    BY DEF Limited
  <2>3. buckets[c] = Logins!NoBucket \/ buckets[c].count \in 1..Limit
    BY <2>2 DEF Windows
  <2>4. QED
    BY <2>1, <2>3 DEF Logins!NoBucket
<1>2. \A a \in Attempts : login[a].at \in {"idle", "verify", "create", "reset"}
  BY DEF Doors, Named, LoginType
<1>3. QED
  BY <1>1, <1>2 DEF Doors, Named, Admitted, Logins!TypeOK
-----------------------------------------------------------------------------
(***************************************************************************)
(* The four of them together.                                              *)
(***************************************************************************)

Orderly ==
  /\ part = "chat" => Trust
  /\ part = "tiles" => Queue /\ Pictures /\ Tidy /\ Steady
  /\ part = "lists" => Refreshed /\ Stamped
  /\ part = "logins" => Doors /\ Limited /\ Admitted

LEMMA OrderlyInit == Init => Orderly
<1> SUFFICES ASSUME Init
             PROVE  Orderly
  OBVIOUS
<1>1. Steady
  BY DEF Init, Tiles!Init, Steady, Tiles!Stages, Tiles!Idle
<1>2. QED
  BY <1>1, TrustInit, QueueInit, PicturesInit, TidyInit, RefreshedInit, StampedInit,
     DoorsInit, LimitedInit, AdmittedInit DEF Orderly

LEMMA OrderlyStutters ==
  ASSUME Orderly, UNCHANGED part,
         part = "chat" => UNCHANGED chatVars, part = "tiles" => UNCHANGED tileVars,
         part = "lists" => UNCHANGED catalogVars, part = "logins" => UNCHANGED loginVars
  PROVE  Orderly'
<1>1. ASSUME part = "chat" PROVE Trust'
  BY <1>1, TrustStutters DEF Orderly
<1>2. ASSUME part = "tiles" PROVE Queue' /\ Pictures' /\ Tidy' /\ Steady'
  <2>1. Queue /\ Pictures /\ Tidy /\ Steady /\ UNCHANGED tileVars
    BY <1>2 DEF Orderly
  <2>2. Queue'
    BY <2>1 DEF tileVars, Queue, Gets, Taken, Joined, Probed
  <2>3. Pictures'
    BY <2>1, NothingMoves DEF tileVars
  <2>4. Tidy' /\ Steady'
    BY <2>1 DEF tileVars, Tidy, Versions, Steady
  <2>5. QED
    BY <2>2, <2>3, <2>4
<1>3. ASSUME part = "lists" PROVE Refreshed' /\ Stamped'
  <2>1. Refreshed /\ Stamped /\ UNCHANGED catalogVars
    BY <1>3 DEF Orderly
  <2>2. QED
    BY <2>1 DEF catalogVars, Stamped, Refreshed, Held, Lists!NobodyIsStranded, Grows,
       OneRefresh
<1>4. ASSUME part = "logins" PROVE Doors' /\ Limited' /\ Admitted'
  <2>1. Doors /\ Limited /\ Admitted /\ UNCHANGED loginVars
    BY <1>4 DEF Orderly
  <2>2. Doors' /\ Admitted'
    BY <2>1 DEF loginVars, Doors, Named, Verified, Logins!SessionsAreCurrent, Admitted
  <2>3. Limited'
    BY <2>1 DEF loginVars, Limited, Windows
  <2>4. QED
    BY <2>2, <2>3
<1>5. QED
  BY <1>1, <1>2, <1>3, <1>4 DEF Orderly

LEMMA OrderlyStep == Orderly /\ [Next]_vars => Orderly'
<1> SUFFICES ASSUME Orderly, [Next]_vars
             PROVE  Orderly'
  OBVIOUS
<1>1. CASE ChatMoves
  <2>1. part = "chat" /\ part' = "chat" /\ Chat!Next
    BY <1>1 DEF ChatMoves
  <2>2. Trust'
    BY <2>1, TrustIsKept DEF Orderly
  <2>3. QED
    BY <2>1, <2>2 DEF Orderly
<1>2. CASE TilesMove
  <2>1. part = "tiles" /\ part' = "tiles" /\ Tiles!Next
    BY <1>2 DEF TilesMove
  <2>2. Queue' /\ Pictures' /\ Tidy' /\ Steady'
    BY <2>1, QueueStep, PicturesStep, TidyStep, SteadyStep DEF Orderly
  <2>3. QED
    BY <2>1, <2>2 DEF Orderly
<1>3. CASE ListsMove
  <2>1. part = "lists" /\ part' = "lists" /\ Lists!Next
    BY <1>3 DEF ListsMove
  <2>2. Held
    BY <2>1 DEF Orderly, Refreshed
  <2>3. Refreshed' /\ Stamped'
    BY <2>1, <2>2, RefreshedStep, StampedStep DEF Orderly
  <2>4. QED
    BY <2>1, <2>3 DEF Orderly
<1>4. CASE LoginsMove
  <2>1. part = "logins" /\ part' = "logins" /\ Logins!Next
    BY <1>4 DEF LoginsMove
  <2>2. Named
    BY <2>1 DEF Orderly, Doors
  <2>3. Doors' /\ Limited' /\ Admitted'
    BY <2>1, <2>2, DoorsStep, LimitedStep, AdmittedStep DEF Orderly
  <2>4. QED
    BY <2>1, <2>3 DEF Orderly
<1>5. CASE HandsMove \/ BootMoves \/ PagesMove \/ UNCHANGED vars
  BY <1>5, OrderlyStutters DEF HandsMove, BootMoves, PagesMove, vars
<1>6. QED
  BY <1>1, <1>2, <1>3, <1>4, <1>5 DEF Next

LEMMA OrderlyIsWellFormed ==
  ASSUME Orderly
  PROVE  /\ part = "chat" => Chat!TypeOK
         /\ part = "tiles" => Tiles!TypeOK
         /\ part = "lists" => Lists!TypeOK
         /\ part = "logins" => Logins!TypeOK
BY TrustIsWellFormed, TidyIsWellFormed, StampedIsWellFormed, AdmittedIsWellFormed
   DEF Orderly
=============================================================================
