------------------------------ MODULE MCDaemon ------------------------------
(* Instances of Daemon for TLC: the two regions and two columns of the v0  *)
(* fabric, frames of at most two words.                                    *)
EXTENDS Daemon

Img(w, cl)  == [words |-> w, cols |-> cl, sig |-> TRUE, cap |-> TRUE]
Cmd(cm, s, im) == [cmd |-> cm, sel |-> s, img |-> im]

One == Img(1, 1)
Two == Img(2, 1)

\* the columns of a heterogeneous fabric, and of one with frames of one word
MCWideCols == [j \in 0 .. 1 |-> 2 - j]
MCThinCols == [j \in 0 .. 1 |-> 1]

\* deploys of both kinds and two lengths, every refusal, stop, restart, abort,
\* and a pause of region 0; a packed image covers one column per region slot
MCDeploy == {Cmd("run", AutoRegion, Two), Cmd("run", 2, Two),
             Cmd("run", 0, Img(0, 1)), Cmd("run", 0, [Two EXCEPT !.sig = FALSE]),
             Cmd("run", 0, [Two EXCEPT !.cap = FALSE]),
             Cmd("run_packed", 0, Two), Cmd("run_packed", 1, One),
             Cmd("run_packed", 1, Img(1, 2)),
             Cmd("stop", 0, Two), Cmd("stop", 1, Two), Cmd("stop", 9, Two),
             Cmd("restart", 0, Two), Cmd("abort", 0, Two), Cmd("other", 0, Two),
             Cmd("ctx_save", 0, Two), Cmd("ctx_restore", 0, Two),
             Cmd("ctx_save", 9, Two), Cmd("ctx_restore", 9, Two)}

\* one container, of either kind, paused and resumed
MCPause == {Cmd("run", 0, Two), Cmd("run_packed", 0, Two), Cmd("stop", 0, Two),
            Cmd("restart", 0, Two), Cmd("abort", 0, Two),
            Cmd("ctx_save", 0, Two), Cmd("ctx_restore", 0, Two)}

\* a packed image of two columns, and one of one column beside it
MCWide == {Cmd("run_packed", 0, Img(1, 2)), Cmd("stop", 0, Img(1, 2)),
           Cmd("restart", 0, Img(1, 2)), Cmd("run_packed", 1, One)}
=============================================================================
