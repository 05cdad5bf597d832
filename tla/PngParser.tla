------------------------------ MODULE PngParser ------------------------------
(***************************************************************************)
(* analyze_png and its chunk handlers (src/image-metadata-extraction/      *)
(* png.c), called repeatedly in one process, as the exported API allows.  *)
(*                                                                         *)
(* A file is its signature check, its chunks and whether bytes are left    *)
(* over that do not make a whole chunk.  A chunk is its type, the shape of *)
(* its data as the handlers see it, and whether its CRC matches.  The      *)
(* static flag `valid` (png.c:12) persists across calls, as in the code.   *)
(* A print is the chunk it came from and what was printed.                 *)
(***************************************************************************)
EXTENDS Integers, Sequences

CONSTANTS
  Files,      \* the files analyze_png may be given
  MaxCalls    \* how many times it is called

Types == {"tEXt", "zTXt", "tIME", "other"}
(* The shapes of chunk data the handlers tell apart: key NUL value, key *)
(* NUL with nothing after, no NUL, (zTXt) nothing after the key's NUL,   *)
(* a compression method other than 0, compressed data zlib rejects,     *)
(* (zTXt) a value that inflates to more than MaxDest times 2*len bytes; *)
(* tIME data of length 7 or of another length.                          *)
Bodies == {"kv", "kvbig", "k", "nonul", "nomethod", "badmethod", "baddata",
           "len7", "len6", "any"}

(* uncompress's output buffer, in units of the first dest_len = 2*len:  *)
(* a "kvbig" value needs it doubled twice, every other value fits.      *)
Need(body) == IF body = "kvbig" THEN 4 ELSE 1
MaxDest == 4
(* Where a malloc (or zlib's allocation) may fail in one loop iteration: *)
(* the loop's own buffers, pass_checksum's buffer, or a handler's.       *)
OomPoints == {"none", "loop", "check", "handler"}

Output == [chunk : Nat, what : {"kv", "key", "time"}]

VARIABLES
  pc,      \* "idle" between calls, "header", "loop", or "inflate"
  file,    \* the file of the current call
  k,       \* the index of the next chunk
  out,     \* what the current call has printed
  oom,     \* history: a memory error happened in the current call
  valid,   \* the static file-validity flag
  calls,   \* how many calls have started
  res,     \* what the last call returned; -2 while a call runs
  dest     \* handle_ztxt_chunk's dest_len, in units of 2*len

vars == << pc, file, k, out, oom, valid, calls, res, dest >>

TypeOK ==
  /\ pc \in {"idle", "header", "loop", "inflate"}
  /\ file \in Files
  /\ k \in 1 .. Len(file.chunks) + 1
  /\ out \in Seq(Output)
  /\ oom \in BOOLEAN
  /\ valid \in {0, 1}
  /\ calls \in 0 .. MaxCalls
  /\ res \in {-2, -1, 0, 1}
  /\ dest \in 1 .. MaxDest

Init ==
  /\ pc = "idle"
  /\ file = CHOOSE f \in Files : TRUE    \* no file yet; any value will do
  /\ k = 1
  /\ out = << >>
  /\ oom = FALSE
  /\ valid = 1
  /\ calls = 0
  /\ res = -2
  /\ dest = 1

(* analyze_png returns R; file, out and oom keep the call's record. *)
Return(r) ==
  /\ pc' = "idle"
  /\ res' = r
  /\ UNCHANGED << file, k, calls, dest >>

(* A caller passes an open file to analyze_png. *)
StartCall ==
  /\ pc = "idle"
  /\ calls < MaxCalls
  /\ \E f \in Files : file' = f
  /\ pc' = "header"
  /\ k' = 1 /\ out' = << >> /\ oom' = FALSE
  /\ calls' = calls + 1
  /\ res' = -2
  /\ UNCHANGED << valid, dest >>

(* The signature check: the buffer mallocs may fail (return 1); a file   *)
(* shorter than 8 bytes or with another signature returns -1.            *)
Header ==
  /\ pc = "header"
  /\ \E fail \in BOOLEAN :
       IF fail THEN oom' = TRUE /\ Return(1)
       ELSE IF ~file.magic_ok THEN oom' = FALSE /\ Return(-1)
       ELSE pc' = "loop" /\ UNCHANGED << file, k, calls, oom, res, dest >>
  /\ UNCHANGED << out, valid >>

(* The mutant of TextOk that does not look for the key's NUL. *)
TextOkAlways(body) == TRUE

(* handle_text_chunk succeeds: a NUL ends the key inside the data. *)
TextOk(body) == body # "nonul"

(* handle_ztxt_chunk gets past its checks to the value: a NUL ends the  *)
(* key and a compression-method byte 0 follows it.                      *)
ZtxtOk(body) == body \notin {"nonul", "nomethod", "badmethod"}

(* What a handler prints for chunk K: "key: value", or "key:" when the  *)
(* value is empty.                                                       *)
TextOutput(n, body) == [chunk |-> n, what |-> IF body = "k" THEN "key" ELSE "kv"]

(* The mutant of NextChunk that steps over one chunk too many. *)
NextChunkSkip(o) ==
  /\ k' = k + 2
  /\ out' = o
  /\ UNCHANGED << pc, file, valid, calls, res, dest >>

(* Go on to the next chunk having printed O. *)
NextChunk(o) ==
  /\ k' = k + 1
  /\ out' = o
  /\ UNCHANGED << pc, file, valid, calls, res, dest >>

(* One iteration of analyze_png's main parse loop, or the loop's end.    *)
(* Length and type are read, `valid` is checked, the data and CRC are    *)
(* read and checked, then the chunk is dispatched on its type.  A        *)
(* handler that fails sets valid = 0 and the call returns -1.            *)
ParseChunk ==
  /\ pc = "loop"
  /\ IF k > Len(file.chunks)
     THEN /\ oom' = oom
          /\ IF file.tail THEN Return(1) ELSE Return(0)
          /\ UNCHANGED << out, valid >>
     ELSE LET c == file.chunks[k] IN
          \E p \in IF c.type \in {"tEXt", "zTXt"} THEN OomPoints
                   ELSE OomPoints \ {"handler"} :
            /\ oom' = (oom \/ p # "none")
            /\ CASE p = "loop" \/ valid # 1 ->
                      Return(1) /\ UNCHANGED << out, valid >>
                 [] p = "check" \/ ~c.crc_ok ->
                      Return(-1) /\ UNCHANGED << out, valid >>
                 [] c.type = "other" -> NextChunk(out)
                 [] c.type = "tEXt" /\ TextOk(c.body) /\ p # "handler" ->
                      NextChunk(Append(out, TextOutput(k, c.body)))
                 [] c.type = "zTXt" /\ c.body = "k" /\ p # "handler" ->
                      NextChunk(Append(out, TextOutput(k, c.body)))
                 [] c.type = "zTXt" /\ ZtxtOk(c.body) /\ p # "handler" ->
                      /\ pc' = "inflate" /\ dest' = 1
                      /\ UNCHANGED << file, k, out, valid, calls, res >>
                 [] c.type \in {"tEXt", "zTXt"} ->
                      valid' = 0 /\ Return(-1) /\ UNCHANGED out
                 [] c.type = "tIME" /\ c.body = "len7" ->
                      NextChunk(Append(out, [chunk |-> k, what |-> "time"]))
                 [] c.type = "tIME" ->
                      Return(1) /\ UNCHANGED << out, valid >>

(* The mutant of InflateWith whose retry does not grow the buffer. *)
InflateWithNoGrow(p) ==
  /\ pc = "inflate"
  /\ LET c == file.chunks[k] IN
       /\ oom' = (oom \/ p # "none")
       /\ CASE p = "handler" \/ c.body = "baddata" ->
                 valid' = 0 /\ Return(-1) /\ UNCHANGED out
            [] dest >= Need(c.body) ->
                 /\ k' = k + 1
                 /\ out' = Append(out, TextOutput(k, c.body))
                 /\ pc' = "loop"
                 /\ UNCHANGED << file, valid, calls, res, dest >>
            [] OTHER -> UNCHANGED << pc, file, k, out, valid, calls, res, dest >>

(* handle_ztxt_chunk's uncompress loop: Z_MEM_ERROR (or a failed         *)
(* realloc or value malloc) and Z_DATA_ERROR set valid = 0 and the call  *)
(* returns -1; Z_BUF_ERROR doubles dest_len and retries; Z_OK prints     *)
(* "key: value" and the parse loop goes on.  P is "handler" when an      *)
(* allocation fails.                                                     *)
InflateWith(p) ==
  /\ pc = "inflate"
  /\ LET c == file.chunks[k] IN
       /\ oom' = (oom \/ p # "none")
       /\ CASE p = "handler" \/ c.body = "baddata" ->
                 valid' = 0 /\ Return(-1) /\ UNCHANGED out
            [] dest >= Need(c.body) ->
                 /\ k' = k + 1
                 /\ out' = Append(out, TextOutput(k, c.body))
                 /\ pc' = "loop"
                 /\ UNCHANGED << file, valid, calls, res, dest >>
            [] OTHER ->
                 /\ dest' = dest * 2
                 /\ UNCHANGED << pc, file, k, out, valid, calls, res >>

Inflate == \E p \in {"none", "handler"} : InflateWith(p)

(* Every call has returned. *)
Terminated == pc = "idle" /\ calls = MaxCalls /\ UNCHANGED vars

Next == StartCall \/ Header \/ ParseChunk \/ Inflate \/ Terminated

(* analyze_png is sequential code with no blocking: once called it keeps *)
(* running.  Fairness does not make an allocation fail: the uncompress   *)
(* loop is fair only in its steps without a memory error.                *)
Spec == Init /\ [][Next]_vars /\ WF_vars(Header \/ ParseChunk)
          /\ WF_vars(InflateWith("none"))

-----------------------------------------------------------------------------
(* A chunk the PNG format accepts: CRC correct, text with its key, tIME  *)
(* of seven bytes.                                                       *)
WellFormed(c) ==
  /\ c.crc_ok
  /\ CASE c.type = "tEXt" -> c.body \in {"kv", "k"}
       [] c.type = "zTXt" -> c.body \in {"kv", "kvbig", "k"}
       [] c.type = "tIME" -> c.body = "len7"
       [] c.type = "other" -> TRUE

(* A PNG file: the signature, whole chunks only, every one well formed. *)
IsPng(f) ==
  f.magic_ok /\ ~f.tail /\ \A n \in 1 .. Len(f.chunks) : WellFormed(f.chunks[n])

(* The metadata of chunks N.. of CS, in file order. *)
RECURSIVE Metadata(_, _)
Metadata(cs, n) ==
  IF n > Len(cs) THEN << >>
  ELSE LET c == cs[n]
           this == CASE c.type \in {"tEXt", "zTXt"} /\ c.body = "k" ->
                          << [chunk |-> n, what |-> "key"] >>
                     [] c.type \in {"tEXt", "zTXt"} -> << [chunk |-> n, what |-> "kv"] >>
                     [] c.type = "tIME" -> << [chunk |-> n, what |-> "time"] >>
                     [] c.type = "other" -> << >>
       IN this \o Metadata(cs, n + 1)

(* When analyze_png returns 0 the file is a PNG and exactly its metadata *)
(* was printed, every text and time chunk once and in order.            *)
SuccessPrintsMetadata ==
  res = 0 => IsPng(file) /\ out = Metadata(file.chunks, 1)

(* Every call to analyze_png returns. *)
CallsReturn == pc = "header" ~> pc = "idle"

=============================================================================
