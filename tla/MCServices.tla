------------------------------ MODULE MCServices -------------------------------
(***************************************************************************)
(* Services for TLC: small pools, and pictures of a square that weigh less *)
(* than the cache holds, as much, and more.                                *)
(***************************************************************************)
EXTENDS Services, TLC

\* Of an admin's own, a command of two lines for everybody, one for admins, one of
\* which the panel does not allow a line, and one the page does not take; with
\* cooldowns that outlast a request, that may be over before it is, and none.
MCRows ==
  LET Row(a, l, c) ==
        [enabled |-> TRUE, admins |-> a, says |-> FALSE, lines |-> l, cooldown |-> c]
  IN [n \in Typings |->
        CASE n = "custom" ->
               {Row(FALSE, <<"plain", "args">>, 2), Row(TRUE, <<"plain">>, 1),
                Row(FALSE, <<"plain", "harsh">>, 2), Row(FALSE, <<"broken">>, 2)}
          [] n = "help" -> {Row(FALSE, <<>>, 0), Row(TRUE, <<>>, 2)}
          [] n = "day" -> {Row(FALSE, <<>>, 1), Row(FALSE, <<>>, 2)}
          [] OTHER -> {Row(FALSE, <<>>, 2)}]

\* One that is as it should be, and one with more of an item than can be given.
MCKits == {[items |-> 2, sound |-> TRUE], [items |-> 1, sound |-> FALSE]}

MCMaxTyped == [n \in Typings |-> IF n = "day" THEN 3 ELSE 2]

\* The first picture of a square, its second, and TileCache's Placeholder.
MCSizes == [v \in {1, 2, 99} |-> IF v = 99 THEN 1 ELSE v + 1]

\* A preference of every class: one only a restart changes, one that can be set,
\* and one the console takes and ignores.
MCSettings == [telnet |-> "startup", xp |-> "live", port |-> "silent"]

\* One variable that must be there, one that need not, and up to two entries.
MCEnvs ==
  LET Entry == {"blank", "odd", "a", "b"}
      Extent == {"lacking", "whole"}
  IN [panel : {[PANEL_ADMIN_PASSWORD |-> p, PANEL_POLL_INTERVAL |-> q] :
                 p \in {"absent", "right"}, q \in {"absent", "wrong"}},
      list : {<<>>} \cup {<<x>> : x \in Entry} \cup {<<x, y>> : x, y \in Entry},
      of : [{"a", "b"} -> Extent],
      single : Extent]

\* Lists of up to two, of every way to match and one that is left out by default.
MCShelves ==
  LET entries == [name : Read!Relations, local : Read!Relations, hidden : {FALSE}]
                 \cup {[name |-> "inside", local |-> "none", hidden |-> TRUE]}
  IN {<<x>> : x \in entries} \cup {<<x, y>> : x, y \in entries}

\* Preferences of which one is the client's, one fits two prefixes, one has a name
\* of its own among the groups, and one fits nothing; and an option without one.
MCMenus ==
  LET gfx == <<"Options", "Gfx">>
      blood == <<"Blood", "Moon", "Enemy", "Count">>
      enemy == <<"Enemy", "Difficulty">>
      chunks == <<"Reset", "Unprotected", "Chunks">>
      odd == <<"Wholly", "New">>
      range == <<"Ranged", "Damage">>
  IN {[prefs |-> {gfx, blood, enemy, chunks, odd}, options |-> o, startup |-> {chunks},
       listed |-> l] : o \in {{range}, {blood, range}}, l \in {{blood}, {gfx, blood, enemy}}}

\* Numbers, fractions, and both; with what their preferences hold.
MCScales == [values : {{500, 1000, 2000}, {0, 250, 1000}, {1000, 3000}, {333, 1000},
                         {1000, 1100}},
             current : {0, 500, 1000, 3000, 25000, 33300, 100000,
                          110000, 300000}]

\* Nothing tells one operator from another, or one slot: those of
\* the bot's workers, of the requests and of the login attempts are the same.
MCPermutations == Permutations(Workers) \cup Permutations(Names)
=============================================================================
