---------------------------- MODULE MCBuggyTasks -----------------------------
(***************************************************************************)
(* Instances of BuggyTasks for TLC.                                        *)
(***************************************************************************)
EXTENDS BuggyTasks

Entry(name, mode) == [name |-> name, mode |-> mode]

Command(id, from, family, acts) ==
    [id |-> id, from |-> from, family |-> family, acts |-> acts]

Request(id, from, calls) ==
    [id |-> id, from |-> from, family |-> "request", calls |-> calls]

CONSTANTS ann, bob, any

(* Everything at once: ids used twice, id 1, a device listed twice, an     *)
(* entry without a device, a blinking servo, more entries than are looked  *)
(* at, actions that poll and that never end, more actions than timers and  *)
(* more commands than task rows.                                           *)
MixedCommands ==
    {Command(1, ann, "motor", <<Entry(0, "poll"), Entry(1, "once")>>),
     Command(2, bob, "led", <<Entry(-1, "poll"), Entry(0, "poll"), Entry(0, "poll"), Entry(1, "poll")>>),
     Command(2, ann, "motor", <<Entry(-1, "once"), Entry(0, "forever")>>),
     Command(3, bob, "pwm", <<Entry(0, "none"), Entry(1, "poll"), Entry(-1, "poll"), Entry(2, "poll")>>)}

(* Clients that use fresh ids above 1 and name existing devices.  Timed    *)
(* motor actions overwrite each other; a device that is polled belongs to  *)
(* one command.                                                            *)
OrderlyCommands ==
    {Command(2, ann, "motor", <<Entry(0, "once"), Entry(1, "once")>>),
     Command(3, bob, "motor", <<Entry(0, "once")>>),
     Command(4, ann, "pwm", <<Entry(0, "poll")>>)}

(* RGB events switched on twice and off once, which keeps a row.           *)
MixedRequests == {Request(4, bob, <<"save", "save", "remove">>)}

(* Distance events switched on.                                            *)
OrderlyRequests == {Request(5, bob, <<"save">>)}
==============================================================================
