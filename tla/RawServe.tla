------------------------------ MODULE RawServe ------------------------------
(***************************************************************************)
(* GET /v2/fs/raw: stat, open or compress to an unlinked temporary file,   *)
(* resolve the Range header and stream, while the file on disk grows, is   *)
(* truncated, replaced or deleted and the link breaks; and a client that   *)
(* copies a file by asking again from where it stopped                     *)
(* (src/src/server/v2/fs.rs).                                              *)
(*                                                                         *)
(* The operators named Faulty... are variants with one plausible mistake   *)
(* each; no specification uses them.                                       *)
(***************************************************************************)
EXTENDS Integers, Sequences

CONSTANTS
  Files,       \* inodes the path may name
  None,
  MaxLength,   \* bound: the length of a file
  Packed,      \* the length of the compressed rendition of a file, by length
  MaxBreaks,   \* bound: how often the link breaks
  MaxChanges   \* bound: how often the disk changes

ASSUME BoundAssumption == MaxLength \in Nat /\ MaxBreaks \in Nat /\ MaxChanges \in Nat
ASSUME PackedAssumption == Packed \in [0 .. MaxLength -> Nat]
ASSUME NoneAssumption == None \notin Files \cup Nat

VARIABLES
  disk,     \* the inode the path names, None when there is none
  length,   \* the length of every inode
  pc,       \* where the handler is
  req,      \* the request it works on, with its locals
  client,   \* the client
  fresh,    \* the disk is as it was when the client began
  breaks, changes

vars == <<disk, length, pc, req, client, fresh, breaks, changes>>

\* The byte at a position of a file.  A rendition is fixed by what was
\* compressed: an inode and its length.
Raw(f) == [inode |-> f, packed |-> None]
Rendition(f, n) == [inode |-> f, packed |-> n]
Byte(file, i) == [of |-> file, at |-> i]
Content(file, n) == [i \in 1 .. n |-> Byte(file, i - 1)]

Lengths == 0 .. MaxLength
Contents == [inode : Files, packed : Lengths \cup {None}]
Modes == {"verbatim", "lossless", "unknown"}

\* Range headers, by what the parser can tell apart.
Ranges ==
  [kind : {"none", "garbage"}]
    \cup [kind : {"from", "suffix"}, first : Nat]
    \cup [kind : {"span"}, first : Nat, last : Nat]

NoRequest ==
  [range |-> [kind |-> "none"], total |-> 0, file |-> None,
   status |-> 0, first |-> 0, len |-> 0, sent |-> 0]

Init ==
  /\ disk \in Files \cup {None}
  /\ length \in [Files -> Lengths]
  /\ pc = "idle"
  /\ req = NoRequest
  /\ client = [phase |-> "start", mode |-> "verbatim", got |-> << >>]
  /\ fresh = TRUE
  /\ breaks = 0 /\ changes = 0

-----------------------------------------------------------------------------
(* parse_range: a start and a length, or the reason for another answer *)

Ignore == [status |-> 200, first |-> 0, len |-> 0]
Unsatisfiable == [status |-> 416, first |-> 0, len |-> 0]
Satisfiable(first, len) == [status |-> 206, first |-> first, len |-> len]

Least(a, b) == IF a < b THEN a ELSE b

FaultyParseRange(r, total) ==  \* start > total, and the end not clamped
  CASE r.kind \in {"none", "garbage"} -> Ignore
    [] r.kind = "suffix" ->
         IF Least(r.first, total) = 0 THEN Unsatisfiable
         ELSE Satisfiable(total - Least(r.first, total), Least(r.first, total))
    [] r.kind = "from" ->
         IF r.first > total THEN Unsatisfiable
         ELSE Satisfiable(r.first, total - r.first)
    [] r.kind = "span" ->
         IF r.last < r.first THEN Ignore
         ELSE IF r.first >= total THEN Unsatisfiable
         ELSE Satisfiable(r.first, r.last - r.first + 1)

ParseRange(r, total) ==
  CASE r.kind \in {"none", "garbage"} -> Ignore
    [] r.kind = "suffix" ->
         LET n == Least(r.first, total) IN
         IF n = 0 THEN Unsatisfiable ELSE Satisfiable(total - n, n)
    [] r.kind = "from" ->
         IF r.first >= total THEN Unsatisfiable
         ELSE Satisfiable(r.first, total - r.first)
    [] r.kind = "span" ->
         IF r.last < r.first THEN Ignore
         ELSE IF r.first >= total THEN Unsatisfiable
         ELSE LET end == Least(r.last, total - 1) IN
              Satisfiable(r.first, end - r.first + 1)

\* The status, start and length of the answer.
Resolve(r, total) ==
  LET p == ParseRange(r, total) IN
  IF p.status = 200 THEN [p EXCEPT !.len = total] ELSE p

-----------------------------------------------------------------------------
(* The handler *)

\* An answer without a body ends the exchange at once.
Answer(status) ==
  /\ pc' = "answered"
  /\ req' = [req EXCEPT !.status = status]

\* parse_compress_request refuses what it does not know before the disk is
\* looked at; stat_regular_file.
Stat ==
  /\ pc = "asked"
  /\ CASE client.mode = "unknown" -> Answer(400)
       [] client.mode # "unknown" /\ disk = None -> Answer(404)
       [] OTHER -> /\ pc' = "statted"
                   /\ req' = [req EXCEPT !.total = length[disk]]
  /\ UNCHANGED <<disk, length, client, fresh, breaks, changes>>

\* The file may be another than the one the length is of, or be gone.
Open ==
  /\ pc = "statted" /\ client.mode = "verbatim"
  /\ IF disk = None THEN Answer(404)
     ELSE /\ pc' = "opened"
          /\ req' = [req EXCEPT !.file = Raw(disk)]
  /\ UNCHANGED <<disk, length, client, fresh, breaks, changes>>

\* compress_to_temp: the rendition of the file as it is now, in a file nobody
\* else can reach, of which the length is taken.
Compress ==
  /\ pc = "statted" /\ client.mode = "lossless"
  /\ IF disk = None THEN Answer(500)
     ELSE /\ pc' = "opened"
          /\ req' = [req EXCEPT !.file = Rendition(disk, length[disk]),
                                !.total = Packed[length[disk]]]
  /\ UNCHANGED <<disk, length, client, fresh, breaks, changes>>

\* The headers of build_stream_response go out, and the client acts on them:
\* it goes on from a 206 that starts where it stopped, and starts again
\* from a 200.
Respond ==
  /\ pc = "opened"
  /\ LET a == Resolve(req.range, req.total) IN
     IF a.status = 416 THEN Answer(416) /\ UNCHANGED client
     ELSE /\ pc' = "streaming"
          /\ req' = [req EXCEPT !.status = a.status, !.first = a.first,
                                !.len = a.len]
          /\ client' = IF client.phase = "copying" /\ a.status = 200
                       THEN [client EXCEPT !.got = << >>] ELSE client
  /\ UNCHANGED <<disk, length, fresh, breaks, changes>>

Available ==
  IF req.file.packed = None THEN length[req.file.inode]
  ELSE Packed[req.file.packed]
Position == req.first + req.sent

\* One read of the ReaderStream, past the seek and below the take.
Send ==
  /\ pc = "streaming" /\ req.sent < req.len /\ Position < Available
  /\ req' = [req EXCEPT !.sent = @ + 1]
  /\ client' = [client EXCEPT !.got = Append(@, Byte(req.file, Position))]
  /\ UNCHANGED <<disk, length, pc, fresh, breaks, changes>>

FaultyEndOfStream ==  \* the take waits for bytes that do not come
  /\ pc = "streaming" /\ req.sent = req.len
  /\ pc' = "answered"
  /\ UNCHANGED <<disk, length, req, client, fresh, breaks, changes>>

\* The stream ends.  A body shorter than its Content-Length breaks the
\* connection, as the link may do at any time.
EndOfStream ==
  /\ pc = "streaming"
  /\ \/ req.sent = req.len /\ pc' = "answered"
     \/ req.sent < req.len /\ Position >= Available /\ pc' = "broken"
  /\ UNCHANGED <<disk, length, req, client, fresh, breaks, changes>>

Break ==
  /\ breaks < MaxBreaks
  /\ pc \in {"asked", "statted", "opened", "streaming"}
  /\ pc' = "broken"
  /\ breaks' = breaks + 1
  /\ UNCHANGED <<disk, length, req, client, fresh, changes>>

Handler == Stat \/ Open \/ Compress \/ Respond \/ Send \/ EndOfStream

-----------------------------------------------------------------------------
(* The client: either one request with a range of its choice, or a copy *)

Ask(range) ==
  /\ pc' = "asked"
  /\ req' = [NoRequest EXCEPT !.range = range]

Probe ==
  /\ client.phase = "start"
  /\ \E mode \in Modes, first, last \in 0 .. MaxLength + 1 :
       \E range \in {[kind |-> "none"], [kind |-> "garbage"],
                     [kind |-> "from", first |-> first],
                     [kind |-> "suffix", first |-> first],
                     [kind |-> "span", first |-> first, last |-> last]} :
         /\ Ask(range)
         /\ client' = [client EXCEPT !.phase = "probing", !.mode = mode]
  /\ UNCHANGED <<disk, length, fresh, breaks, changes>>

BeginCopy ==
  /\ client.phase = "start"
  /\ \E mode \in {"verbatim", "lossless"} :
       client' = [client EXCEPT !.phase = "copying", !.mode = mode]
  /\ Ask([kind |-> "none"])
  /\ UNCHANGED <<disk, length, fresh, breaks, changes>>

Resume ==
  /\ client.phase = "copying" /\ pc = "broken"
  /\ Ask([kind |-> "from", first |-> Len(client.got)])
  /\ UNCHANGED <<disk, length, client, fresh, breaks, changes>>

\* A full body ends the copy, and so does a 416 that gives the length of what
\* the client has; any other answer makes it give up.
Conclude ==
  /\ pc = "answered" /\ client.phase = "copying"
  /\ pc' = "idle"
  /\ client' = [client EXCEPT !.phase =
       IF \/ req.status \in {200, 206}
          \/ req.status = 416 /\ req.total = Len(client.got)
       THEN "done" ELSE "failed"]
  /\ UNCHANGED <<disk, length, req, fresh, breaks, changes>>

Client == Probe \/ BeginCopy \/ Resume \/ Conclude

-----------------------------------------------------------------------------
(* The disk *)

Change ==
  /\ changes < MaxChanges /\ client.phase # "start"
  /\ changes' = changes + 1
  /\ fresh' = FALSE
  /\ UNCHANGED <<pc, req, client, breaks>>

\* The file is appended to or cut off in place.
Resize ==
  /\ disk # None
  /\ \E n \in Lengths \ {length[disk]} : length' = [length EXCEPT ![disk] = n]
  /\ Change
  /\ UNCHANGED disk

\* Another file takes its name, or none.
Rename ==
  /\ \E f \in (Files \cup {None}) \ {disk} : disk' = f
  /\ Change
  /\ UNCHANGED length

Next == Handler \/ Break \/ Client \/ Resize \/ Rename

\* The server answers, and a client that copies asks again; it need not begin.
Fairness == WF_vars(Handler) /\ WF_vars(Resume) /\ WF_vars(Conclude)
Spec == Init /\ [][Next]_vars /\ Fairness

-----------------------------------------------------------------------------
(* Properties *)

Request ==
  [range : Ranges, total : Nat, file : Contents \cup {None},
   status : {0, 200, 206, 400, 404, 416, 500},
   first : Nat, len : Nat, sent : Nat]

TypeOK ==
  /\ disk \in Files \cup {None}
  /\ length \in [Files -> Lengths]
  /\ pc \in {"idle", "asked", "statted", "opened", "streaming", "answered", "broken"}
  /\ req \in Request
  /\ client \in [phase : {"start", "probing", "copying", "done", "failed"},
                 mode : Modes, got : Seq([of : Contents, at : Nat])]
  /\ fresh \in BOOLEAN
  /\ breaks \in 0 .. MaxBreaks /\ changes \in 0 .. MaxChanges

\* What the path stands for while the disk keeps still.
Source ==
  IF client.mode = "verbatim" THEN Content(Raw(disk), length[disk])
  ELSE Content(Rendition(disk, length[disk]), Packed[length[disk]])

\* RFC 7233: the positions a well-formed range selects.
WellFormed(r) == r.kind \in {"from", "suffix"} \/ (r.kind = "span" /\ r.first <= r.last)
Selected(r, total) ==
  {i \in 0 .. total - 1 :
     CASE r.kind = "from" -> i >= r.first
       [] r.kind = "suffix" -> i >= total - r.first
       [] r.kind = "span" -> r.first <= i /\ i <= r.last}

\* A request for a file that keeps still is answered as RFC 7233 has it: the
\* selected bytes in order with 206, 416 when there are none, the whole file
\* with 200 when the range is not one.
RangesFollowRFC ==
  (pc = "answered" /\ client.phase = "probing" /\ fresh /\ disk # None
     /\ client.mode # "unknown")
  => IF WellFormed(req.range)
     THEN LET bytes == Selected(req.range, Len(Source)) IN
          IF bytes = {} THEN req.status = 416 /\ client.got = << >>
          ELSE /\ req.status = 206
               /\ Len(client.got) = req.len
               /\ {client.got[i].at : i \in DOMAIN client.got} = bytes
               /\ \A i \in DOMAIN client.got :
                    client.got[i] = Byte(Source[1].of, req.first + i - 1)
     ELSE req.status = 200 /\ client.got = Source

\* A copy of a file that keeps still is the file, however often the link broke
\* and wherever; and on the way it is a prefix of it.
ExactCopy ==
  (client.phase \in {"copying", "done"} /\ fresh /\ disk # None)
  => /\ client.got = SubSeq(Source, 1, Len(client.got))
     /\ client.phase = "done" => client.got = Source

\* A file that keeps still is served byte for byte, in one answer or in many
\* (serve_raw, parse_range).
ServedExactly == RangesFollowRFC /\ ExactCopy

\* Once the link stays up and the disk keeps still, every copy ends.
CopyEnds == client.phase = "copying" ~> client.phase \in {"done", "failed"}

\* What the module's comment says, "streams the exact file bytes back": the
\* bytes of a copy are those of one file.
OneFile ==
  client.phase = "done" =>
    \A i, j \in DOMAIN client.got : client.got[i].of = client.got[j].of
=============================================================================
