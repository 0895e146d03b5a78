----------------------------- MODULE MCAutomation -----------------------------
(* Instances of Automation, of which one behaviour has one: two runners on a  *)
(* task about the clock, for longer or while it is edited, or about the       *)
(* world; one runner with two tasks that a tick works through in turn, or     *)
(* with one that is edited; one that listens to the events.                   *)
EXTENDS Automation

CONSTANTS p1, p2

Form(shapes, lines) == [enabled : {TRUE}, shape : shapes, lines : lines]
Off == [enabled : {FALSE}, shape : {"daily"}, lines : {<<"plain">>}]

MCSetups ==
  { [names |-> {1}, panels |-> {p1, p2}, polls |-> FALSE, time |-> 5,
     turns |-> 0, events |-> 0, edits |-> 0, faults |-> 1,
     forms |-> Form({"every", "daily"}, {<<"plain">>})],
    [names |-> {1}, panels |-> {p1, p2}, polls |-> FALSE, time |-> 3,
     turns |-> 0, events |-> 0, edits |-> 1, faults |-> 1,
     forms |-> Form({"every", "daily"}, {<<"plain">>})],
    [names |-> {1}, panels |-> {p1, p2}, polls |-> TRUE, time |-> 1,
     turns |-> 1, events |-> 0, edits |-> 0, faults |-> 1,
     forms |-> Form({"named", "changing", "over"}, {<<"plain">>})],
    [names |-> {1, 2}, panels |-> {p1}, polls |-> TRUE, time |-> 1,
     turns |-> 2, events |-> 0, edits |-> 0, faults |-> 1,
     forms |-> Form({"named", "changing", "over"}, {<<"plain", "plain">>})],
    [names |-> {1}, panels |-> {p1}, polls |-> TRUE, time |-> 2,
     turns |-> 2, events |-> 0, edits |-> 1, faults |-> 1,
     forms |-> Form({"daily", "named", "changing", "over"}, {<<"plain">>}) \cup Off],
    [names |-> {1}, panels |-> {p1}, polls |-> FALSE, time |-> 1,
     turns |-> 0, events |-> 3, edits |-> 1, faults |-> 1,
     forms |-> Form({"daily"}, {<<"plain">>}) \cup
               Form({"event"}, {<<"who">>, <<"who", "plain">>,
                                <<"plain", "destructive">>})] }
=============================================================================
