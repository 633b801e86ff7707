------------------------------- MODULE MCLink -------------------------------
(* Instances for TLC of the components that face the outside, or threads     *)
(* that are not the kernel's: the byte stream of the link, the session above *)
(* it, the shell, the FreeRTOS port of the scheduler, the input queue, the   *)
(* framebuffer and the run loop that paints the apps.  They share no state:  *)
(* each behaviour here moves one, and TLC explores the sum of their state    *)
(* spaces and not the product.                                               *)
EXTENDS LinkStream, LinkBridge, Tty, EspTasks, InputEvents, Framebuffer, AppFrame

VARIABLE active  \* the component this behaviour moves

MCCalls == {[method |-> "message", app |-> "app", text |-> 1],
            [method |-> "event", app |-> "nobody", text |-> 1],
            [method |-> "tty", app |-> "", text |-> 0]}
MCPoints == {<<-1, 0>>, <<0, 2>>, <<1, 1>>}
MCExtents == {<<3, 2>>, <<0, 2>>, <<5, 1>>}
MCScreens == {[name |-> "counter", live |-> FALSE, every |-> 0, band |-> TRUE],
              [name |-> "info", live |-> FALSE, every |-> 2, band |-> TRUE],
              [name |-> "pong", live |-> TRUE, every |-> 0, band |-> FALSE]}

LinesInit ==
    /\ active \in {"stream", "bridge", "tty", "esp", "input", "fb", "frames"}
    /\ StreamInit /\ LinkInit /\ TtyInit /\ EspInit /\ InputInit /\ FbInit /\ FramesInit
    /\ active # "fb" => \A p \in DOMAIN fb_panel : fb_panel[p] = 0
    /\ active # "frames" => fr_header

Others(moved) ==
    /\ moved # "stream" => UNCHANGED streamVars
    /\ moved # "bridge" => UNCHANGED linkVars
    /\ moved # "tty" => UNCHANGED ttyVars
    /\ moved # "esp" => UNCHANGED espVars
    /\ moved # "input" => UNCHANGED inVars
    /\ moved # "fb" => UNCHANGED fb_vars
    /\ moved # "frames" => UNCHANGED fr_vars

LinesNext ==
    /\ \/ active = "stream" /\ StreamNext
       \/ active = "bridge" /\ LinkNext
       \/ active = "tty" /\ TtyNext
       \/ active = "esp" /\ EspNext
       \/ active = "input" /\ InputNext
       \/ active = "fb" /\ FbNext
       \/ active = "frames" /\ FramesNext
    /\ Others(active)
    /\ UNCHANGED active

linesVars == <<active, streamVars, linkVars, ttyVars, espVars, inVars, fb_vars, fr_vars>>
LinesSpec == LinesInit /\ [][LinesNext]_linesVars
=============================================================================
