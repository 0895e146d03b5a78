--------------------------------- MODULE Login ---------------------------------
(***************************************************************************)
(* Logging in to the panel (internal/api/auth.go, internal/auth): the      *)
(* limit on attempts per client address (internal/api/ratelimit.go), the   *)
(* sessions and accounts in the store, and the account that every start    *)
(* makes of the environment (store.UpsertAdmin, seedAdmin of               *)
(* cmd/7dtd-panel).                                                        *)
(*                                                                         *)
(* A password stands for its hash: the two are compared with each other    *)
(* only.  A step is a section under the limiter's mutex or a statement     *)
(* (a transaction, for UpsertAdmin) of the database.                       *)
(*                                                                         *)
(* A definition marked "Variant" is no part of the specification: it is    *)
(* the definition after it with one plausible mistake.                     *)
(***************************************************************************)
EXTENDS Integers, Sequences, FiniteSets

CONSTANTS
  Addresses,   \* ClientIP
  Attempts,    \* goroutines that serve login requests
  Names,       \* usernames
  Passwords,
  Limit,       \* of newRateLimiter: ten in the code
  Window,      \* of newRateLimiter, a minute, in units of the model's clock
  SessionTTL,  \* PANEL_SESSION_TTL
  LastTime,    \* bound on the clock
  MaxTries,    \* bound on the login requests
  MaxBoots     \* bound on the restarts

VARIABLES
  hour,      \* the clock
  accounts,  \* users: per name the password, NoPassword
  buckets,   \* loginLimiter: per address its count and windowEnd, NoBucket
  login,     \* per goroutine what it is doing
  sessions,  \* the sessions: whose, until when, opened with which password; those
             \* that are alike in this are one
  tries, boots,
  let        \* history: per address when attempts were let through, since the
             \* last Reset

vars == <<hour, accounts, buckets, login, sessions, tries, boots, let>>

NoPassword == "none"
NoBucket == [count |-> 0, until |-> -1]
Idle == [at |-> "idle", from |-> "nowhere", name |-> "nobody", guess |-> NoPassword]

Opened ==
  /\ hour = 0
  /\ buckets = [c \in Addresses |-> NoBucket]
  /\ login = [a \in Attempts |-> Idle]
  /\ sessions = {}
  /\ tries = 0 /\ boots = 0
  /\ let = [c \in Addresses |-> <<>>]

\* The first start with one of the environments.
Seeded ==
  \E n \in Names, p \in Passwords :
    accounts = [m \in Names |-> IF m = n THEN p ELSE NoPassword]

Init == Opened /\ Seeded

TimePasses ==
  /\ hour < LastTime
  /\ hour' = hour + 1
  /\ UNCHANGED <<accounts, buckets, login, sessions, tries, boots, let>>
-----------------------------------------------------------------------------
(* 1. handleLogin                                                          *)

\* now.After(windowEnd), or no bucket at all.
Over(c) == buckets[c] = NoBucket \/ hour > buckets[c].until

\* Variant: the attempt is counted after it is compared, not before the next.
VLets(c) == Over(c) \/ buckets[c].count <= Limit

Lets(c) == Over(c) \/ buckets[c].count < Limit

\* A window begins with the attempt that finds none.
Counted(c) ==
  IF Over(c) THEN [count |-> 1, until |-> hour + Window]
  ELSE [buckets[c] EXCEPT !.count = @ + 1]

\* Allow: the attempt is counted, and let through or refused.  A bucket whose
\* window is over is as good as none, so that sweeping it shows nowhere.
Arrives(c, name, guess) ==
  /\ \E a \in Attempts : login[a].at = "idle"
  /\ tries < MaxTries
  /\ tries' = tries + 1
  /\ IF Lets(c)
     THEN /\ buckets' = [buckets EXCEPT ![c] = Counted(c)]
          /\ \E a \in {b \in Attempts : login[b].at = "idle"} :
               login' = [login EXCEPT ![a] =
                 [at |-> "verify", from |-> c, name |-> name, guess |-> guess]]
          /\ let' = [let EXCEPT ![c] = Append(@, hour)]
     ELSE UNCHANGED <<buckets, login, let>>
  /\ UNCHANGED <<hour, accounts, sessions, boots>>

Rests(a) == login' = [login EXCEPT ![a] = Idle]

\* UserByUsername and VerifyPassword: a name that is not there is as wrong as a
\* password that does not match.
Verifies(a) ==
  /\ login[a].at = "verify"
  /\ IF accounts[login[a].name] = login[a].guess
     THEN login' = [login EXCEPT ![a].at = "create"]
     ELSE Rests(a)
  /\ UNCHANGED <<hour, accounts, buckets, sessions, tries, boots, let>>

\* Sessions.Create.
Creates(a) ==
  /\ login[a].at = "create"
  /\ sessions' = sessions \cup {[name |-> login[a].name, until |-> hour + SessionTTL,
                                 password |-> login[a].guess]}
  /\ login' = [login EXCEPT ![a].at = "reset"]
  /\ UNCHANGED <<hour, accounts, buckets, tries, boots, let>>

\* Reset: whoever logs in starts counting from nothing.
Resets(a) ==
  /\ login[a].at = "reset"
  /\ buckets' = [buckets EXCEPT ![login[a].from] = NoBucket]
  /\ let' = [let EXCEPT ![login[a].from] = <<>>]
  /\ Rests(a)
  /\ UNCHANGED <<hour, accounts, sessions, tries, boots>>

\* The body is no login, a statement fails or the browser has gone.
Breaks(a) ==
  /\ login[a].at \in {"verify", "create"}
  /\ Rests(a)
  /\ UNCHANGED <<hour, accounts, buckets, sessions, tries, boots, let>>
-----------------------------------------------------------------------------
(* 2. Sessions                                                             *)

Lapsed == {s \in sessions : s.until <= hour}

\* Lookup for a request: a lapsed session is deleted, and nobody's.
LooksUp(s) ==
  /\ s \in Lapsed
  /\ sessions' = sessions \ {s}
  /\ UNCHANGED <<hour, accounts, buckets, login, tries, boots, let>>

\* handleLogout: Revoke, of the one or of the last that is like it.
LogsOut(s) ==
  /\ sessions' = sessions \ {s}
  /\ UNCHANGED <<hour, accounts, buckets, login, tries, boots, let>>

\* CleanupSessions, every hour.
CleansUp ==
  /\ Lapsed # {}
  /\ sessions' = sessions \ Lapsed
  /\ UNCHANGED <<hour, accounts, buckets, login, tries, boots, let>>
-----------------------------------------------------------------------------
(* 3. The start of the panel                                               *)

\* Variant: the sessions of a changed password are left.
VSurvivors(name, password) == sessions

\* The sessions that a start with this environment leaves: "A changed password
\* must not leave old sessions usable" (store/users.go).
Survivors(name, password) ==
  IF accounts[name] = password THEN sessions
  ELSE {s \in sessions : s.name # name}

\* seedAdmin and UpsertAdmin, with the environment of this start: an account is
\* made, or its password and its sessions go in one transaction, or nothing is
\* to be done; where it fails the panel does not start, and nothing is changed.
\* The limiter and the requests were the old process's.
Restarts(name, password) ==
  /\ boots < MaxBoots
  /\ boots' = boots + 1
  /\ accounts' = [accounts EXCEPT ![name] = password]
  /\ sessions' = Survivors(name, password)
  /\ buckets' = [c \in Addresses |-> NoBucket]
  /\ login' = [a \in Attempts |-> Idle]
  /\ let' = [c \in Addresses |-> <<>>]
  /\ UNCHANGED <<hour, tries>>

LoginStep(a) == Verifies(a) \/ Creates(a) \/ Resets(a)

Next ==
  \/ TimePasses \/ CleansUp
  \/ \E c \in Addresses, n \in Names, p \in Passwords : Arrives(c, n, p)
  \/ \E a \in Attempts : LoginStep(a) \/ Breaks(a)
  \/ \E s \in sessions : LooksUp(s) \/ LogsOut(s)
  \/ \E n \in Names, p \in Passwords : Restarts(n, p)
-----------------------------------------------------------------------------
(* 4. Properties                                                           *)

TypeOK ==
  /\ accounts \in [Names -> Passwords \cup {NoPassword}]
  /\ \A c \in Addresses : buckets[c].count \in 0..Limit
  /\ \A a \in Attempts :
       /\ login[a].at \in {"idle", "verify", "create", "reset"}
       /\ login[a].at # "idle" => login[a].from \in Addresses
  /\ \A s \in sessions : s.name \in Names /\ s.until <= hour + SessionTTL

\* "A changed password must not leave old sessions usable" (store/users.go):
\* whatever a session belongs to was opened with the password that the account
\* has now, over restarts with other passwords and other names, and back again.
SessionsAreCurrent == \A s \in sessions : accounts[s.name] = s.password

\* "A fixed window allows a burst at a boundary" (ratelimit.go), and no more:
\* in any stretch as long as a window an address has at most twice the limit of
\* attempts, unless one of them succeeded or the panel was started again.
GuessesBounded ==
  \A c \in Addresses : \A t \in 0..hour :
    Cardinality({i \in DOMAIN let[c] : let[c][i] \in t..(t + Window)}) <= 2 * Limit
=============================================================================
