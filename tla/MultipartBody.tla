----------------------------- MODULE MultipartBody -----------------------------
(***************************************************************************)
(* The body of a request that uploads a file (MultipartFileBody of         *)
(* common/vpcclient/client/payload/body_provider.go).  A goroutine, the    *)
(* copier, writes the parts into a pipe the HTTP transport reads from.     *)
(*                                                                         *)
(* A write to an io.Pipe waits for the reader: a part is either read or    *)
(* refused because the reading end was closed; nobody reads before the     *)
(* transport has the request.                                              *)
(***************************************************************************)
EXTENDS Naturals

CONSTANTS
    Callers,    \* goroutines, each with one request at a time
    Chunks      \* reads it takes to copy the contents of the file

ASSUME ChunksAssumption == Chunks \in Nat \ {0}

VARIABLES
    copier,     \* [pc |-> what the copier does next, size, left |-> chunks, and to copy]
    pipe        \* [reader, writer |-> the two ends, read |-> the parts read]

bodyVars == <<copier, pipe>>

(* The part's header, its chunks and the closing boundary, in order.       *)
Header  == 0
Trailer == Chunks + 1

NoCopier == [pc |-> "none", size |-> 0, left |-> 0]
NewPipe  == [reader |-> "idle", writer |-> "open", read |-> {}]

MultipartInit ==
    /\ copier = [g \in Callers |-> NoCopier]
    /\ pipe = [g \in Callers |-> NewPipe]

(* Body: the copier is started for contents that may be empty.             *)
StartCopier(g) ==
    /\ \E n \in {0, Chunks} : copier' = [copier EXCEPT ![g] = [pc |-> "header", size |-> n, left |-> n]]
    /\ pipe' = [pipe EXCEPT ![g] = NewPipe]

(* A write that succeeds.                                                  *)
IsRead(g, part) ==
    /\ pipe[g].reader = "reading"
    /\ pipe' = [pipe EXCEPT ![g].read = @ \cup {part}]

CopierTo(g, step) == copier' = [copier EXCEPT ![g].pc = step]

(* CloseWithError and Close have no effect on a writing end that is closed.*)
CloseWriter(g, how) ==
    pipe' = [pipe EXCEPT ![g].writer = IF @ = "open" THEN how ELSE @]

(* CreateFormFile.  Without the return that is missing after its failure,  *)
(* the contents are then copied to a nil writer: the first byte panics.    *)
CreateFormFile(g) ==
    /\ copier[g].pc = "header"
    /\ \/ IsRead(g, Header) /\ CopierTo(g, "copy")
       \/ /\ pipe[g].reader = "closed"
          /\ CloseWriter(g, "error")
          /\ CopierTo(g, IF copier[g].left = 0 THEN "ended" ELSE "panicked")

(* Mutant: a failure to read the contents is not passed on.                *)
CopyIgnoringErrors(g) ==
    /\ copier[g].pc = "copy"
    /\ \/ /\ copier[g].left > 0
          /\ IsRead(g, copier[g].left)
          /\ copier' = [copier EXCEPT ![g].left = @ - 1]
       \/ copier[g].left = 0 /\ CopierTo(g, "trailer") /\ UNCHANGED pipe
       \/ CopierTo(g, "trailer") /\ UNCHANGED pipe

(* io.Copy: chunk by chunk; the contents may fail to be read, and a write  *)
(* may be refused.  Both close the pipe with the error.                    *)
Copy(g) ==
    /\ copier[g].pc = "copy"
    /\ \/ /\ copier[g].left > 0
          /\ IsRead(g, copier[g].left)
          /\ copier' = [copier EXCEPT ![g].left = @ - 1]
       \/ copier[g].left = 0 /\ CopierTo(g, "trailer") /\ UNCHANGED pipe
       \/ CopierTo(g, "trailer") /\ CloseWriter(g, "error")

(* The deferred Close: the closing boundary, if it can still be written,   *)
(* and the end of the body.                                                *)
Close(g) ==
    /\ copier[g].pc = "trailer"
    /\ \/ pipe[g].writer = "open" /\ IsRead(g, Trailer) /\ CopierTo(g, "eof")
       \/ /\ pipe[g].writer # "open" \/ pipe[g].reader = "closed"
          /\ CopierTo(g, "eof")
          /\ UNCHANGED pipe

ClosePipe(g) ==
    /\ copier[g].pc = "eof"
    /\ CopierTo(g, "ended")
    /\ CloseWriter(g, "eof")

CopierStep(g) ==
    \/ CreateFormFile(g)
    \/ Copy(g)
    \/ Close(g)
    \/ ClosePipe(g)
================================================================================
