---------------------------- MODULE ServiceClaims ----------------------------
(***************************************************************************)
(* Statements of the README, the doc comments and the comments in the code *)
(* that the code does not keep.  Each is violated by a run of its own; the *)
(* counterexample is an ordinary execution of the handlers.                *)
(***************************************************************************)
EXTENDS Service

Replies(r, code) == req[r].resp = "none" /\ req'[r].resp = code

\* README.md:56 "appends to the file ... at the given offset and returns 200,
\* assuming that the given position is at the end of the file".  An offset
\* equal to the size takes the comparing branch of post_append_filename, which
\* finds nothing to compare the body with.
AppendAtTheEndIsAccepted ==
    \A r \in Request :
        (Op(r) = "append" /\ req[r].resp = "409") => Call[r].off # req[r].size

\* README.md:59 "Idempotent: if the uploaded data at the given offset is
\* identical to the data uploaded, returns 200 OK".  check_range_matches also
\* asks that the file ends there.
ResendIsAccepted ==
    [][\A r \in Request :
        LET c == content[req[r].blob] IN
        (Op(r) = "append" /\ Call[r].len > 0 /\ Replies(r, "409")) =>
            \E k \in 0 .. (Call[r].len - 1) :
                \/ Call[r].off + k \notin DOMAIN c
                \/ c[Call[r].off + k] # Byte(r, k)]_vars

\* storage/src/lib.rs:63 "Appends some bytes to the file".  Two handles that
\* both sought the end before either wrote and committed overwrite one another
\* (PostgresFileHandle::append).
AppendsAccumulate ==
    [][\A o \in live \cap live' : \A i \in DOMAIN content[o] :
            i \in DOMAIN content'[o] /\ content'[o][i] = content[o][i]]_vars
=============================================================================
