-------------------------------- MODULE ChatBot --------------------------------
(***************************************************************************)
(* The bot that answers commands typed in the game's chat (internal/chat), *)
(* for one command, built in or written by an admin, with the rows about   *)
(* it in the store: its configuration, the times it was last used and the  *)
(* kit it is asked for (internal/store/chat.go), and the requests that     *)
(* change them (internal/api/chat.go).                                     *)
(*                                                                         *)
(* Up to four workers carry out what was typed, each under a deadline of   *)
(* its own.  A step is a statement of the database, a command sent to the  *)
(* game, or a section under the mutex of the admin list; once the deadline *)
(* of a worker is over none of them succeeds any more.                     *)
(*                                                                         *)
(* A definition marked "Variant" is no part of the specification: it is    *)
(* the definition after it with one plausible mistake.                     *)
(***************************************************************************)
EXTENDS Integers, Sequences, FiniteSets, Functions

CONSTANTS
  Players,       \* platform ids
  Workers,       \* the slots: concurrent, of which there are four
  Typings,       \* the commands that may be typed: BuiltIn, or "custom"
  Rows,          \* per command, what may be saved of it: [enabled, admins, says,
                 \* lines, cooldown], a line being "plain", "args" (what the player
                 \* typed goes into it), "harsh" (destructive), "broken"; the cooldown
                 \* is in units of the model's clock, 0 for none
  Kits,          \* what may be saved as a kit: [items, sound]
  Allow,         \* PANEL_ALLOW_DESTRUCTIVE
  ReplyTimeout,  \* replyTimeout
  AdminTTL,      \* adminTTL
  MaxTime,       \* bound on the clock
  MaxTyped,      \* per command, bound on the times it is typed
  MaxUpsets      \* bound on edits, promotions and demotions, failed statements
                 \* and stops of the bot, together

VARIABLES
  time,       \* the clock
  name,       \* the command; it stays
  row,        \* chat_commands: the command's row, NoRow
  kit,        \* kits: the row of the kit that is asked for, NoKit
  clearing,   \* whether its deletion has not come to its cooldowns yet
  usedAt,     \* chat_cooldowns: per player when it was last used, Never
  admins,     \* the game's own admin list
  list,       \* adminIDs and adminAt
  bot,        \* per worker what it is doing
  typed, upsets,
  \* History:
  charges,    \* per player, the uses that were charged, in order: at what time, with
              \* what cooldown, and whether it was given back
  stale,      \* the players who were given back what another request was charged
  demoted,    \* per player, since when not an admin
  crossed     \* whether the command was deleted while it was in use

vars == <<time, name, row, kit, clearing, usedAt, admins, list, bot, typed, upsets,
          charges, stale, demoted, crossed>>

stored == <<name, row, kit>>

Never == 0
Server == "the server"  \* who says what is not a player's, entity id -1
NoRow ==
  [enabled |-> FALSE, admins |-> FALSE, says |-> FALSE, lines |-> <<>>, cooldown |-> 0]
NoKit == [items |-> 0, sound |-> TRUE]
NoList == [ids |-> {}, at |-> -1]
Idle == [at |-> "idle", player |-> "nobody", word |-> "plain", since |-> Never,
         row |-> NoRow, ids |-> {}, claimed |-> Never, plan |-> <<>>, sent |-> 0]

\* The five that ship with the panel.  "kit" alone acts on the game.
BuiltIn == {"help", "day", "bloodmoon", "players", "kit"}

Busy == {w \in Workers : bot[w].at # "idle"}

\* handleSaveChatCommand, the row of a command: one that is built in keeps no
\* behaviour in its row, whatever was sent.
Written(n) ==
  {IF n \in BuiltIn THEN [r EXCEPT !.lines = <<>>, !.says = FALSE] ELSE r : r \in Rows[n]}

\* What it refuses: a line the console would refuse, and neither a reply nor a line.
Refused(n, r) ==
  n \notin BuiltIn /\ ("broken" \in Range(r.lines) \/ (r.lines = <<>> /\ ~r.says))

\* describe: what the page says of a line that will not run.
Blocked(line) == line = "broken" \/ (line = "harsh" /\ ~Allow)

Init ==
  /\ time = 1
  /\ name \in Typings
  /\ row \in {r \in Written(name) : ~Refused(name, r)}
  /\ kit \in IF name = "kit" THEN Kits \cup {NoKit} ELSE {NoKit}
  /\ clearing = FALSE
  /\ usedAt = [p \in Players |-> Never]
  /\ admins \in SUBSET Players
  /\ list = NoList
  /\ bot = [w \in Workers |-> Idle]
  /\ typed = 0 /\ upsets = 0
  /\ charges = [p \in Players |-> <<>>] /\ stale = {}
  /\ demoted = [p \in Players |-> IF p \in admins THEN MaxTime + 1 ELSE Never]
  /\ crossed = FALSE
-----------------------------------------------------------------------------
(* 1. The game and the operators                                           *)

\* Storing an answer that is there takes no time.
TimePasses ==
  /\ time < MaxTime
  /\ \A w \in Workers : bot[w].at = "storing" => time < bot[w].since + ReplyTimeout
  /\ time' = time + 1
  /\ UNCHANGED <<stored, clearing, usedAt, admins, list, bot, typed, upsets,
                 charges, stale, demoted, crossed>>

\* Somebody is put on the game's admin list or taken off it.
ListChanges(p) ==
  /\ upsets < MaxUpsets
  /\ upsets' = upsets + 1
  /\ admins' = IF p \in admins THEN admins \ {p} ELSE admins \cup {p}
  /\ demoted' = [demoted EXCEPT ![p] = IF p \in admins THEN time
                                       ELSE MaxTime + 1]
  /\ UNCHANGED <<time, stored, clearing, usedAt, list, bot, typed, charges, stale,
                 crossed>>

\* SaveChatCommand: the cooldowns stay.
SavesCommand(r) ==
  /\ upsets < MaxUpsets /\ r # row /\ ~Refused(name, r)
  /\ upsets' = upsets + 1
  /\ row' = r
  /\ crossed' = (crossed \/ clearing)
  /\ UNCHANGED <<time, name, kit, clearing, usedAt, admins, list, bot, typed, charges,
                 stale, demoted>>

\* handleDeleteChatCommand: what is built in is not deleted.  DeleteChatCommand,
\* its first statement, for a command an admin wrote ...
DeletesCommand ==
  /\ upsets < MaxUpsets /\ row # NoRow /\ name \notin BuiltIn
  /\ upsets' = upsets + 1
  /\ row' = NoRow
  /\ clearing' = TRUE
  /\ crossed' = (crossed \/ Busy # {})
  /\ UNCHANGED <<time, name, kit, usedAt, admins, list, bot, typed, charges, stale,
                 demoted>>

\* ... and its second, which may fail.
DeletesCooldowns ==
  /\ clearing
  /\ clearing' = FALSE
  /\ \/ /\ usedAt' = [p \in Players |-> Never]
        /\ charges' = [p \in Players |-> <<>>]
        /\ UNCHANGED upsets
     \/ /\ upsets < MaxUpsets /\ upsets' = upsets + 1
        /\ UNCHANGED <<usedAt, charges>>
  /\ crossed' = (crossed \/ Busy # {})
  /\ UNCHANGED <<time, stored, admins, list, bot, typed, stale, demoted>>

\* handleSaveKit: a kit has an item at least, that the catalogue knows, in
\* whatever number and quality.
SavesKit(k) ==
  /\ upsets < MaxUpsets /\ name = "kit" /\ k # kit
  /\ upsets' = upsets + 1
  /\ kit' = k
  /\ UNCHANGED <<time, name, row, clearing, usedAt, admins, list, bot, typed,
                 charges, stale, demoted, crossed>>

\* handleDeleteKit.
DeletesKit ==
  /\ upsets < MaxUpsets /\ kit # NoKit
  /\ upsets' = upsets + 1
  /\ kit' = NoKit
  /\ UNCHANGED <<time, name, row, clearing, usedAt, admins, list, bot, typed,
                 charges, stale, demoted, crossed>>
-----------------------------------------------------------------------------
(* 2. One command: dispatch and Handle                                     *)

InTime(w) == time <= bot[w].since + ReplyTimeout
\* The cooldown is to be given back.
Failed(w) ==
  bot' = [bot EXCEPT ![w] = [Idle EXCEPT !.at = "refund", !.player = bot[w].player,
                               !.since = bot[w].since, !.claimed = bot[w].claimed,
                               !.row = bot[w].row]]
Goes(w, at) == bot' = [bot EXCEPT ![w].at = at]
Rests(w) == bot' = [bot EXCEPT ![w] = Idle]

\* All that is left is to say something to the player.
Replying == [Idle EXCEPT !.at = "reply"]
Answers(w) == bot' = [bot EXCEPT ![w] = Replying]

\* What is typed after the command, where that matters: what may go into a line,
\* or be the name of a kit, or not.
Words(n) == IF n \in {"kit", "custom"} THEN {"plain", "odd"} ELSE {"plain"}

\* parse: the server's own words are no command, whatever they say, or the bot
\* would answer itself.
Parsed(p) == p # Server

\* dispatch: a free slot takes it, or it is dropped.
Types(p, word) ==
  /\ typed < MaxTyped[name]
  /\ IF ~Parsed(p) THEN UNCHANGED <<typed, bot>>
     ELSE /\ typed' = typed + 1
          /\ IF Busy = Workers THEN UNCHANGED bot
             ELSE \E w \in Workers \ Busy :
                    bot' = [bot EXCEPT ![w] = [Idle EXCEPT !.at = "config",
                              !.player = p, !.word = word, !.since = time]]
  /\ UNCHANGED <<time, stored, clearing, usedAt, admins, list, upsets, charges, stale,
                 demoted, crossed>>

\* config: a command that is not there or not on is met with silence.
ReadsConfig(w) ==
  /\ bot[w].at = "config" /\ InTime(w)
  /\ IF row.enabled
     THEN bot' = [bot EXCEPT ![w].row = row,
                             ![w].at = IF row.admins THEN "admin" ELSE "cooldown"]
     ELSE Rests(w)
  /\ UNCHANGED <<time, stored, clearing, usedAt, admins, list, typed, upsets,
                 charges, stale, demoted, crossed>>

\* Variant: where nobody is an admin, everybody is.
VVerdict(w, ids) ==
  CASE bot[w].claimed # Never -> [bot[w] EXCEPT !.at = "run", !.ids = {}]
    [] bot[w].claimed = Never /\ (ids = {} \/ bot[w].player \in ids)
         -> [bot[w] EXCEPT !.at = "cooldown", !.ids = {}]
    [] OTHER -> Replying

\* "Only admins can use ...", or on to the cooldown.  Who asked for help is past
\* it, and is told of what he may use.
Verdict(w, ids) ==
  CASE bot[w].claimed # Never -> [bot[w] EXCEPT !.at = "run", !.ids = {}]
    [] bot[w].claimed = Never /\ bot[w].player \in ids
         -> [bot[w] EXCEPT !.at = "cooldown", !.ids = {}]
    [] OTHER -> Replying

\* isAdmin, its first section: the list is trusted, or asked for.
ConsultsList(w) ==
  /\ bot[w].at = "admin"
  /\ IF list # NoList /\ time - list.at < AdminTTL
     THEN bot' = [bot EXCEPT ![w] = Verdict(w, list.ids)]
     ELSE Goes(w, "listing")
  /\ UNCHANGED <<time, stored, clearing, usedAt, admins, list, typed, upsets,
                 charges, stale, demoted, crossed>>

\* The game answers with its list as it is now ...
GetsList(w) ==
  /\ bot[w].at = "listing" /\ InTime(w)
  /\ bot' = [bot EXCEPT ![w].at = "storing", ![w].ids = admins]
  /\ UNCHANGED <<time, stored, clearing, usedAt, admins, list, typed, upsets,
                 charges, stale, demoted, crossed>>

\* ... and isAdmin's second section stamps it with the time it is stored.
StoresList(w) ==
  /\ bot[w].at = "storing"
  /\ list' = [ids |-> bot[w].ids, at |-> time]
  /\ bot' = [bot EXCEPT ![w] = Verdict(w, bot[w].ids)]
  /\ UNCHANGED <<time, stored, clearing, usedAt, admins, typed, upsets, charges, stale,
                 demoted, crossed>>

OldEnough(p, cooldown) == usedAt[p] = Never \/ usedAt[p] <= time - cooldown

\* Variant: ON CONFLICT DO NOTHING.
VRecorded(p) == IF usedAt[p] = Never THEN [usedAt EXCEPT ![p] = time] ELSE usedAt

Recorded(p) == [usedAt EXCEPT ![p] = time]

Charge(cooldown) == [at |-> time, wait |-> cooldown, back |-> FALSE]

LetThrough(w) == bot' = [bot EXCEPT ![w].at = "plan", ![w].claimed = time]

\* TakeCooldown, by the row that was read: without a cooldown everybody may, and
\* nothing is written ...
TakesNoCooldown(w) ==
  /\ bot[w].at = "cooldown" /\ bot[w].row.cooldown = 0
  /\ LetThrough(w)
  /\ UNCHANGED <<time, stored, clearing, usedAt, admins, list, typed, upsets, charges,
                 stale, demoted, crossed>>

\* ... and with one, in one statement, the use is recorded where the last one is
\* old enough; otherwise "not yet".
TakesCooldown(w) ==
  LET p == bot[w].player
      cooldown == bot[w].row.cooldown
  IN /\ bot[w].at = "cooldown" /\ cooldown > 0 /\ InTime(w)
     /\ IF OldEnough(p, cooldown)
        THEN /\ usedAt' = Recorded(p)
             /\ LetThrough(w)
             /\ charges' = [charges EXCEPT ![p] = Append(@, Charge(cooldown))]
        ELSE Answers(w) /\ UNCHANGED <<usedAt, charges>>
     /\ UNCHANGED <<time, stored, clearing, admins, list, typed, upsets, stale,
                    demoted, crossed>>

\* Every use that is answered, with what was asked for or with what the player
\* should have asked for, is charged.
Runs(w, plan) == bot' = [bot EXCEPT ![w].at = "run", ![w].plan = plan]

\* Whether running it takes an answer of the store or of the game.
Asks(w) == name \in {"help", "players"} \/ (name = "kit" /\ bot[w].word = "plain")

\* runDay and runBloodmoon answer from the snapshot, runPlayers asks the game.
Reports(w) ==
  /\ bot[w].at = "plan" /\ name \in {"day", "bloodmoon", "players"}
  /\ Asks(w) => InTime(w)
  /\ Runs(w, <<>>)
  /\ UNCHANGED <<time, stored, clearing, usedAt, admins, list, typed, upsets,
                 charges, stale, demoted, crossed>>

\* runHelp reads the configuration again; what is for admins (of which this
\* command stands for all) makes it ask whether the player is one.
Helps(w) ==
  /\ bot[w].at = "plan" /\ name = "help" /\ InTime(w)
  /\ IF row.enabled /\ row.admins THEN Goes(w, "admin") ELSE Runs(w, <<>>)
  /\ UNCHANGED <<time, stored, clearing, usedAt, admins, list, typed, upsets,
                 charges, stale, demoted, crossed>>

\* runKit: the row of the kit, where the player gave the name of one, or else
\* what there is; all of its gives are built before one is sent.
LooksUpKit(w) ==
  /\ bot[w].at = "plan" /\ name = "kit"
  /\ CASE bot[w].word = "odd" -> Runs(w, <<>>)
       [] bot[w].word # "odd" /\ kit = NoKit -> InTime(w) /\ Runs(w, <<>>)
       [] OTHER -> /\ InTime(w)
                   /\ IF kit.sound THEN Runs(w, [i \in 1..kit.items |-> "plain"])
                      ELSE Failed(w)
  /\ UNCHANGED <<time, stored, clearing, usedAt, admins, list, typed, upsets,
                 charges, stale, demoted, crossed>>

\* expandCommand, Validate and IsDestructiveAllowed: whether a line will do.
Fits(line, word) == ~Blocked(line) /\ (line = "args" => word = "plain")

\* Variant: each line is looked at when its turn comes, the first one now.
VWillDo(w) == bot[w].row.lines # <<>> => Fits(Head(bot[w].row.lines), bot[w].word)

\* runCustom: all lines are expanded and checked before one of them is sent.
WillDo(w) == \A line \in Range(bot[w].row.lines) : Fits(line, bot[w].word)

Composes(w) ==
  /\ bot[w].at = "plan" /\ name \notin BuiltIn
  /\ IF WillDo(w) THEN Runs(w, bot[w].row.lines) ELSE Failed(w)
  /\ UNCHANGED <<time, stored, clearing, usedAt, admins, list, typed, upsets,
                 charges, stale, demoted, crossed>>

\* Execute, line by line ...
Executes(w) ==
  /\ bot[w].at = "run" /\ InTime(w) /\ bot[w].sent < Len(bot[w].plan)
  /\ bot' = [bot EXCEPT ![w].sent = @ + 1]
  /\ UNCHANGED <<time, stored, clearing, usedAt, admins, list, typed, upsets,
                 charges, stale, demoted, crossed>>

\* ... until the game refuses one.
GivesUp(w) ==
  /\ bot[w].at = "run" /\ bot[w].sent < Len(bot[w].plan)
  /\ Failed(w)
  /\ UNCHANGED <<time, stored, clearing, usedAt, admins, list, typed, upsets,
                 charges, stale, demoted, crossed>>

\* All of it was done.
Serves(w) ==
  /\ bot[w].at = "run" /\ bot[w].sent = Len(bot[w].plan)
  /\ Answers(w)
  /\ UNCHANGED <<time, stored, clearing, usedAt, admins, list, typed, upsets, charges,
                 stale, demoted, crossed>>

\* A request's own charge, given back.
GivenBack(q, claimed) ==
  [i \in DOMAIN q |-> IF q[i].at = claimed THEN [q[i] EXCEPT !.back = TRUE] ELSE q[i]]

\* ClearCooldown: whosever use the row tells of, it is gone.
Refunds(w) ==
  LET p == bot[w].player
      charged == bot[w].row.cooldown > 0
  IN /\ bot[w].at = "refund" /\ InTime(w)
     /\ usedAt' = [usedAt EXCEPT ![p] = Never]
     /\ charges' = IF charged THEN [charges EXCEPT ![p] = GivenBack(@, bot[w].claimed)]
                   ELSE charges
     /\ stale' = IF usedAt[p] = Never \/ (charged /\ usedAt[p] = bot[w].claimed)
                 THEN stale ELSE stale \cup {p}
     /\ Answers(w)
     /\ UNCHANGED <<time, stored, clearing, admins, list, typed, upsets, demoted, crossed>>

\* reply, which may fail, and the slot is free again.
Replies(w) ==
  /\ bot[w].at = "reply"
  /\ Rests(w)
  /\ UNCHANGED <<time, stored, clearing, usedAt, admins, list, typed, upsets,
                 charges, stale, demoted, crossed>>

\* The deadline has passed: whatever comes next fails, the refund and the
\* reply included.
Expires(w) ==
  /\ bot[w].at \in {"config", "listing", "cooldown", "plan", "run", "refund"}
  /\ ~InTime(w)
  /\ bot[w].at = "plan" => Asks(w)
  /\ bot[w].at = "cooldown" => bot[w].row.cooldown > 0
  /\ bot[w].at = "run" => bot[w].sent < Len(bot[w].plan)
  /\ Rests(w)
  /\ UNCHANGED <<time, stored, clearing, usedAt, admins, list, typed, upsets,
                 charges, stale, demoted, crossed>>

\* A statement fails, or the game does not give its admin list or its players.
\* Before the command is run the player is told nothing; after, it is refunded.
Fails(w) ==
  /\ bot[w].at \in {"config", "listing", "cooldown", "plan", "refund"}
  /\ bot[w].at = "plan" => Asks(w)
  /\ bot[w].at = "cooldown" => bot[w].row.cooldown > 0
  /\ upsets < MaxUpsets
  /\ upsets' = upsets + 1
  /\ CASE bot[w].at = "refund" -> Answers(w)
       [] bot[w].at # "refund" /\ bot[w].claimed # Never -> Failed(w)
       [] OTHER -> Rests(w)
  /\ UNCHANGED <<time, stored, clearing, usedAt, admins, list, typed, charges,
                 stale, demoted, crossed>>

\* The bot is stopped with its server or with the panel, and a new one begins.
BotStops ==
  /\ upsets < MaxUpsets
  /\ upsets' = upsets + 1
  /\ bot' = [w \in Workers |-> Idle]
  /\ list' = NoList
  /\ UNCHANGED <<time, stored, clearing, usedAt, admins, typed, charges,
                 stale, demoted, crossed>>

WorkerStep(w) ==
  \/ ReadsConfig(w) \/ ConsultsList(w) \/ GetsList(w) \/ StoresList(w)
  \/ TakesNoCooldown(w) \/ TakesCooldown(w) \/ Reports(w) \/ Helps(w)
  \/ LooksUpKit(w) \/ Composes(w) \/ Executes(w) \/ GivesUp(w) \/ Serves(w)
  \/ Refunds(w) \/ Replies(w) \/ Expires(w)

Next ==
  \/ TimePasses \/ DeletesCommand \/ DeletesCooldowns \/ BotStops
  \/ \E p \in Players : ListChanges(p)
  \/ \E p \in Players \cup {Server}, word \in Words(name) : Types(p, word)
  \/ \E r \in Written(name) : SavesCommand(r)
  \/ DeletesKit \/ \E k \in Kits : SavesKit(k)
  \/ \E w \in Workers : WorkerStep(w) \/ Fails(w)
-----------------------------------------------------------------------------
(* 3. Properties                                                           *)

Stages == {"idle", "config", "admin", "listing", "storing", "cooldown", "plan",
           "run", "refund", "reply"}

TypeOK ==
  /\ row = NoRow \/ (row \in Written(name) /\ ~Refused(name, row))
  /\ kit \in Kits \cup {NoKit}
  /\ usedAt \in [Players -> 0..MaxTime]
  /\ list.ids \subseteq Players /\ list.at \in -1..MaxTime
  /\ \A w \in Workers :
       /\ bot[w].at \in Stages
       /\ bot[w].at \notin {"idle", "reply"} => bot[w].player \in Players
       /\ bot[w].sent \in 0..Len(bot[w].plan)

\* Every use a player was charged for and not given back was a cooldown old, as it
\* is set now, when the next one was let through; or as it was set when one was let
\* through in between that has been given back (which forgets both).
Apart(q) ==
  \A j \in DOMAIN q : \A i \in 1..(j - 1) :
    \/ q[i].back
    \/ q[i].at + q[j].wait <= q[j].at
    \/ \E k \in (i + 1)..(j - 1) : q[k].back /\ q[i].at + q[k].wait <= q[k].at

\* TakeCooldown lets a use pass "if the cooldown has expired", and "the database
\* decides rather than the caller" (store/chat.go), with other requests of the same
\* player under way, given back, cut off by their deadline or by a stop in between,
\* and the cooldown edited or switched off; unless the command itself was deleted
\* while it was in use, or a request that failed gave back what another was charged.
CooldownHolds == crossed \/ \A p \in Players \ stale : Apart(charges[p])

\* "Since this one achieved nothing, give it back" (chat.go): what is given back is
\* the failed request's own, so that nobody else's use is forgotten.
NobodyPassesEarly == crossed \/ \A p \in Players : Apart(charges[p])

\* A line is sent for an admins' command only on behalf of somebody who is one,
\* or was one a moment ago: as old as the list may be when it is stored and when
\* it is used, and as long as the worker may take from there.  And nothing is sent
\* of a command one of whose lines will not do: "none of the first two rather than
\* half the job" (custom.go), "rather than half of itself" (commands.go).
SendsWhatItMay ==
  \A w \in Workers :
    bot'[w].sent > bot[w].sent =>
      /\ bot[w].row.admins =>
           time < demoted[bot[w].player] + AdminTTL + 2 * ReplyTimeout
      /\ \A line \in Range(bot[w].plan) : Fits(line, bot[w].word)
=============================================================================
