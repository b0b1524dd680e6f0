------------------------------ MODULE Download ------------------------------
(***************************************************************************)
(* The download of a file, hs_utils.hpp, with the writers of               *)
(* connection.hpp and response.hpp it calls.                               *)
(*                                                                         *)
(* process_download is a state machine driven from outside: the first call *)
(* answers with a small file at once, or with the header of a large one;   *)
(* every later call, made while continue_work_ is set, reads one block and *)
(* leaves it in response_str() for the caller to write, until a short      *)
(* block ends the file.  epoll_server::OnWrite_ is such a caller.          *)
(* (The coroutine server stops after the first one: module Connection.)    *)
(*                                                                         *)
(* A byte of the file is its offset, counted from 1.  Of what is written   *)
(* behind the header the model keeps the bytes and, piece by piece, how    *)
(* many they were: a chunk of size zero is the one that ends a chunked     *)
(* body.                                                                   *)
(***************************************************************************)
EXTENDS Integers, Sequences

CONSTANTS
    Small,     \* a file of at most this size goes out at once (5 MB)
    Block,     \* the bytes one later call reads (3 MB)
    MaxFile    \* bound on the sizes of the files

ASSUME DownloadAssumption == Small \in Nat /\ Block \in Nat \ {0} /\ MaxFile \in Nat

(***************************************************************************)
(* dl: the download.                                                       *)
(*   type     __config__::transfer_type_, fixed when the server is built   *)
(*   size     of the file; start: cinatra_start_pos; range: the position   *)
(*            set_range_start_pos reads from a range header                *)
(*   state    data_begin, data_continue, data_end, and "done"              *)
(*   in       the position of the stream, or Failed                        *)
(*   work     continue_work_ is set                                        *)
(*   from     the offset Content-Range announces, else start               *)
(*   length   the Content-Length announced, or NoLength                    *)
(*   body     the bytes that were written after the header                 *)
(*   sizes    of the pieces they were written in                           *)
(***************************************************************************)
VARIABLE dl

dlVars == <<dl>>

NoHeader == MaxFile + 1

Failed == -1

NoLength == -1

\* atoll on the view between '=' and the last '-': a suffix range "bytes=-n"
\* leaves an empty view in front of "-n", which atoll reads on as a negative number.
Positions == -1 .. MaxFile

DLInit ==
    dl \in [type : {"CHUNKED", "ACCEPT_RANGES"}, size : 0 .. MaxFile,
            start : 1 .. MaxFile \cup {NoHeader}, range : Positions \cup {NoHeader},
            state : {"data_begin"}, in : {0}, work : {FALSE}, from : {0},
            length : {NoLength}, body : {<<>>}, sizes : {<<>>}]

\* How many bytes of the file lie behind position p.
Left(p) == IF p < dl.size THEN dl.size - p ELSE 0

\* The bytes of the file behind position p, at most n of them.
FileBytes(p, n) ==
    IF p = Failed THEN <<>>
    ELSE [i \in 1 .. (IF n < Left(p) THEN n ELSE Left(p)) |-> p + i]

\* ifstream::seekg: a negative position fails, one behind the end does not.
seekg(p) == IF p < 0 THEN Failed ELSE p

-----------------------------------------------------------------------------
(***************************************************************************)
(* The first call.                                                         *)
(***************************************************************************)

\* The stream once cinatra_start_pos was looked at: a position behind the end
\* of the file is ignored.
FirstPosition == IF dl.start # NoHeader /\ dl.start <= dl.size THEN seekg(dl.start) ELSE 0

is_small_file == dl.size <= Small

not_found ==
    /\ dl.state = "data_begin"
    /\ dl' = [dl EXCEPT !.state = "notfound"]

\* The static resource handler: download_check_, user code that looks at the request,
\* refuses the file in the first call or never.
refused ==
    /\ dl.state = "data_begin"
    /\ dl' = [dl EXCEPT !.state = "bad"]

\* response::build_response_str: the length of the content, and the content.
build_response_str(d, content) ==
    [d EXCEPT !.length = Len(content), !.body = content, !.sizes = <<Len(content)>>]

send_small_file ==
    /\ dl.state = "data_begin"
    /\ is_small_file
    /\ dl' = build_response_str([dl EXCEPT !.state = "done", !.in = dl.size, !.from = FirstPosition],
                                FileBytes(FirstPosition, dl.size))

write_chunked_header ==
    /\ dl.state = "data_begin" /\ ~is_small_file /\ dl.type = "CHUNKED"
    /\ LET is_range == dl.range # NoHeader
           at       == IF is_range THEN dl.range ELSE FirstPosition
       IN  dl' = [dl EXCEPT !.state = "data_continue", !.work = TRUE,
                            !.in = seekg(at), !.from = at]

write_ranges_header ==
    /\ dl.state = "data_begin" /\ ~is_small_file /\ dl.type = "ACCEPT_RANGES"
    /\ dl' = [dl EXCEPT !.state = "data_continue", !.work = TRUE,
                        !.in = FirstPosition, !.from = FirstPosition, !.length = dl.size]

-----------------------------------------------------------------------------
(***************************************************************************)
(* The later calls, through continue_write_then_route.                     *)
(***************************************************************************)

\* get_send_data: one block of the stream, and the position behind it.
get_send_data == FileBytes(dl.in, Block)

Behind(data) == IF dl.in = Failed THEN Failed ELSE dl.in + Len(data)

Eof(data) == Len(data) = 0 \/ Len(data) # Block

\* Mutant: a writer that does not look at the length writes a chunk of size zero for an
\* empty block, in front of the one that ends the body.
to_chunked_always(data, eof) == <<Len(data)>> \o (IF eof THEN <<0>> ELSE <<>>)

\* response::to_chunked_buffers: the sizes of the chunks that carry the block.
to_chunked_buffers(data, eof) ==
    (IF Len(data) > 0 THEN <<Len(data)>> ELSE <<>>) \o (IF eof THEN <<0>> ELSE <<>>)

Continues(pieces) ==
    LET data == get_send_data
    IN  dl' = [dl EXCEPT !.in = Behind(data), !.body = @ \o data, !.sizes = @ \o pieces,
                         !.state = IF Eof(data) THEN "data_end" ELSE "data_continue"]

write_chunked_body ==
    /\ dl.work /\ dl.state = "data_continue" /\ dl.type = "CHUNKED"
    /\ Continues(to_chunked_buffers(get_send_data, Eof(get_send_data)))

write_ranges_data ==
    /\ dl.work /\ dl.state = "data_continue" /\ dl.type = "ACCEPT_RANGES"
    /\ Continues(<<Len(get_send_data)>>)

data_end ==
    /\ dl.work /\ dl.state = "data_end"
    /\ dl' = [dl EXCEPT !.work = FALSE, !.state = "done"]

DLNext ==
    \/ refused \/ not_found \/ send_small_file
    \/ write_chunked_header \/ write_ranges_header
    \/ write_chunked_body \/ write_ranges_data \/ data_end

DLSpec == DLInit /\ [][DLNext]_dlVars

-----------------------------------------------------------------------------
\* A download that ended gave the client the file from the announced position to
\* its end, byte for byte: over the calls process_download was made in, whatever
\* the size of the file is to that of a block, no byte is lost or repeated between
\* two of them.  A chunked body has its chunk of size zero (to_chunked_buffers) at
\* the end and nowhere else; a body with a Content-Length has that length, except
\* that write_ranges_header announces the size of the whole file also when
\* cinatra_start_pos moved the stream.  A suffix range is left out: it becomes a
\* negative position, the stream fails, and the body is empty.
DownloadExact ==
    dl.state = "done" /\ dl.from >= 0 =>
        /\ dl.body = [i \in 1 .. Left(dl.from) |-> dl.from + i]
        /\ dl.length = NoLength =>
              {i \in DOMAIN dl.sizes : dl.sizes[i] = 0} = {Len(dl.sizes)}
        /\ dl.length # NoLength /\ dl.start = NoHeader => dl.length = Len(dl.body)
=============================================================================
