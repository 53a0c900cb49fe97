----------------------------- MODULE ToolGlobals ------------------------------
(***************************************************************************)
(* The global variables of ffmpeg and ffprobe, which fftools-wasm.patch makes *)
(* functions of one module: a process starts with its globals as declared, a *)
(* call of these with what the calls before left. Each resets what it knows *)
(* of when it starts. A call may end by abort() at any point, in a failed    *)
(* assertion or a deadlock of its threads; its own clean-up then never runs. *)
(***************************************************************************)
EXTENDS Integers, Sequences

Programs == {"ffmpeg", "ffprobe"}

-----------------------------------------------------------------------------
(* The globals the patch speaks of.                                         *)

\* ffmpeg_opt_reset()
OptionReset ==
  {"dts_delta_threshold", "dts_error_threshold", "frame_drop_threshold", "do_benchmark",
   "do_benchmark_all", "do_hex_dump", "do_pkt_dump", "copy_ts", "start_at_zero", "copy_tb", "debug_ts",
   "exit_on_error", "abort_on_flags", "print_stats", "stdin_interaction", "max_error_rate",
   "filter_complex_nbthreads", "filter_buffered_frames", "vstats_version", "print_graphs",
   "auto_conversion_filters", "stats_period", "ignore_unknown_streams", "copy_unknown_streams",
   "recast_media", "file_overwrite", "no_file_overwrite"}

\* opt_common_reset() and cmdutils_reset()
SharedReset ==
  {"report_file", "report_file_level", "warned_cfg", "hide_banner", "log_level", "log_flags", "log_callback"}

\* init_globals()
TranscodeReset ==
  {"received_sigterm", "received_nb_signals", "transcode_init_done", "ffmpeg_exited", "copy_ts_first_pts",
   "nb_output_dumped", "input_files", "nb_input_files", "output_files", "nb_output_files",
   "filtergraphs", "nb_filtergraphs", "decoders", "nb_decoders"}
  \cup OptionReset \cup SharedReset

\* ffprobe_reset(). A name that begins or ends with _ stands for all that do.
ProbeReset ==
  {"do_", "do_show_", "show_value_unit", "use_value_prefix", "use_byte_value_binary_prefix",
   "use_value_sexagesimal_format", "show_private_data", "show_optional_fields", "_codec_name",
   "output_format", "stream_specifier", "show_data_hash", "data_dump_format", "read_intervals",
   "read_intervals_nb", "find_stream_info", "input_filename", "print_input_filename", "iformat",
   "output_filename", "nb_streams", "selected_streams", "streams_with_", "nb_streams_",
   "log_buffer", "selected_entries"}
  \cup SharedReset

Reset(p) == IF p = "ffmpeg" THEN TranscodeReset ELSE ProbeReset

\* Those of ffmpeg_opt.c that are left to ffmpeg_cleanup(), the static variables of
\* print_report(), the file of -progress, and what the option parser of both
\* programs collects.
Pointers     == {"filter_nbthreads", "print_graphs_file", "print_graphs_format", "vstats_filename"}
Statics      == {"last_time", "first_report"}
Progress     == "progress_avio"
Dictionaries == {"format_opts", "codec_opts", "swr_opts"}

Uses(p) ==
  Dictionaries \cup (IF p = "ffmpeg" THEN TranscodeReset \cup Pointers \cup Statics \cup {Progress} ELSE ProbeReset)

Names == Uses("ffmpeg") \cup Uses("ffprobe")

\* ffmpeg_cleanup(), and uninit_opts(), which both programs end with.
CleanedUp(p) == Dictionaries \cup (IF p = "ffmpeg" THEN Pointers ELSE {})

-----------------------------------------------------------------------------

Declared == 0

VARIABLES
  past,     \* history: the calls that are over
  program,  \* what runs, or "none"
  reported, \* whether it has come to its last report
  value     \* the number of the call that set each global, or Declared

vars == <<past, program, reported, value>>

PastCall == [program : Programs, end : {"returned", "aborted"}, reported : BOOLEAN]

TypeOK ==
  /\ past \in Seq(PastCall) /\ program \in Programs \cup {"none"} /\ reported \in BOOLEAN
  /\ value \in [Names -> Nat]

Init ==
  /\ past = << >> /\ program = "none" /\ reported = FALSE
  /\ value = [g \in Names |-> Declared]

\* The number of the call that runs.
This == Len(past) + 1

Cleared(names) == [g \in Names |-> IF g \in names THEN Declared ELSE value[g]]

Start(p) ==
  /\ program = "none" /\ program' = p
  /\ reported' = FALSE /\ value' = Cleared(Reset(p))
  /\ UNCHANGED past

\* The command line, or the work it asks for, sets some of the globals; -progress
\* before the first report, and the statics before the last.
Set(g) ==
  /\ program # "none" /\ g \in Uses(program)
  /\ g \in Statics \cup {Progress} => ~reported
  /\ value' = [value EXCEPT ![g] = This]
  /\ UNCHANGED <<past, program, reported>>

\* print_report() at the end of transcode() closes the file of -progress.
LastReport ==
  /\ program = "ffmpeg" /\ ~reported
  /\ reported' = TRUE /\ value' = Cleared({Progress})
  /\ UNCHANGED <<past, program>>

Over(end) ==
  /\ program # "none" /\ program' = "none"
  /\ past' = Append(past, [program |-> program, end |-> end, reported |-> reported])
  /\ UNCHANGED reported

\* With or without a report: the command line may be wrong.
Return == Over("returned") /\ value' = Cleared(CleanedUp(program))

\* abort() unwinds to bind.js, past every clean-up.
Abort == Over("aborted") /\ UNCHANGED value

Next ==
  \/ \E p \in Programs : Start(p)
  \/ \E g \in Names : Set(g)
  \/ LastReport \/ Return \/ Abort

Spec == Init /\ [][Next]_vars

-----------------------------------------------------------------------------

\* The call that runs can read g, and finds what an earlier call left in it.
FindsLeft(g) == program # "none" /\ g \in Uses(program) /\ value[g] \notin {Declared, This}

\* The call that left g, and the calls since.
Left(g)  == past[value[g]]
Since(g) == {past[n] : n \in value[g] .. Len(past)}

\* All that a call can find of earlier ones, however they ended. Of an ffmpeg():
\* when print_report() last reported, and that it did; the file of -progress, if
\* it ended before its last report, as did every ffmpeg() since; the
\* pointer-valued options, if it was aborted, as was every ffmpeg() since. Of
\* either program: the dictionaries, if it was aborted, as was every call since.
LeftoversExplained ==
  \A g \in Names : FindsLeft(g) =>
    /\ value[g] \in 1 .. Len(past)
    /\ g \in Statics \cup {Progress} \cup Pointers \cup Dictionaries
    /\ g \notin Dictionaries => program = "ffmpeg" /\ Left(g).program = "ffmpeg"
    /\ g = Progress => \A c \in Since(g) : ~c.reported
    /\ g \in Pointers => \A c \in Since(g) : c.program = "ffmpeg" => c.end = "aborted"
    /\ g \in Dictionaries => \A c \in Since(g) : c.end = "aborted"
=============================================================================
