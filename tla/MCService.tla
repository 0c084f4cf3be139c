------------------------------ MODULE MCService ------------------------------
(***************************************************************************)
(* Instances of Service for TLC.  Requests, files and payloads are         *)
(* strings; each Calls operator is one scenario, i.e. what every request   *)
(* of the run asks for.                                                    *)
(***************************************************************************)
EXTENDS ServiceProperties, ServiceClaims

Put(f, d, n) ==
    [op |-> "put", file |-> f, payload |-> d, len |-> n, off |-> 0]
Append(f, d, n, offset) ==
    [op |-> "append", file |-> f, payload |-> d, len |-> n, off |-> offset]
Explore(f) ==
    [op |-> "explore", file |-> f, payload |-> "none", len |-> 0, off |-> 0]

MCBucketOf == [f \in File |-> "logs"]

\* One upload and two overlapping appends to one file; the appends start in
\* the middle of a page and reach into the next.
CallsAppends ==
    [p1 |-> Put("f", "d1", 1), a1 |-> Append("f", "d2", 2, 4),
     a2 |-> Append("f", "d3", 2, 4)]

\* Two files, one of them put twice and downloaded; files expire.
CallsExpiry ==
    [p1 |-> Put("f", "d1", 1), p2 |-> Put("f", "d1", 1),
     q1 |-> Put("g", "none", 0), e1 |-> Explore("f")]

\* An upload, its retry, an append and a download; the retry and the download
\* may overlap anything.
CallsSolo ==
    [p1 |-> Put("f", "d1", 2), p2 |-> Put("f", "d1", 2),
     a1 |-> Append("f", "d2", 2, 3), e1 |-> Explore("f")]

\* Appends that name a range inside the file, its end and a range beyond it; the
\* second is a re-send of the third once that has succeeded.
CallsOffsets ==
    [p1 |-> Put("f", "d1", 2), a1 |-> Append("f", "d1", 1, 1),
     a2 |-> Append("f", "d2", 1, 2), a3 |-> Append("f", "d2", 1, 3)]

\* A file that is put twice, appended to and deleted: uploads and the batch that
\* compete for its pages and its row, and for connections with a download.
CallsLocks ==
    [p1 |-> Put("f", "d1", 1), p2 |-> Put("f", "d1", 1),
     a1 |-> Append("f", "d2", 1, 2), e1 |-> Explore("f")]

\* The first byte of an upload, sent again.
CallsResend == [p1 |-> Put("f", "d1", 2), a1 |-> Append("f", "d1", 1, 0)]
=============================================================================
