--------------------------- MODULE MCFFmpegSystem ----------------------------
(* FFmpegSystem with the values TLC checks it for: the application's menus.  *)
EXTENDS FFmpegSystem, TLC

Plain(t)      == [type |-> t, timed |-> FALSE, ends |-> TRUE, signal |-> NoSignal]
Signalled(t)  == [Plain(t) EXCEPT !.signal = "s1"]
Timed(t)      == [Plain(t) EXCEPT !.timed = TRUE]
Unending(c)   == [c EXCEPT !.ends = FALSE]

OneSignal == {"s1"}

\* Loads, restarts and failures, with commands that end and that only a stop ends.
LifecycleMenu == {Plain("LOAD"), Plain("FS"), Signalled("EXEC"), Unending(Signalled("EXEC"))}

\* Commands that wait for each other, with timeouts and a shared signal.
CommandMenu == {Plain("LOAD"), Plain("FS"), Plain("EXEC"), Timed("EXEC"),
                Signalled("EXEC"), Timed("FFPROBE")}

EndlessProbeMenu == {Plain("LOAD"), Unending(Timed("FFPROBE"))}
=============================================================================
