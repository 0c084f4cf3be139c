------------------------------ MODULE FileStore ------------------------------
(***************************************************************************)
(* What the service promises its clients, without connections, handles,    *)
(* transactions or chunks: files appear empty, grow by whole bodies, and   *)
(* disappear; an upload is answered 200 when the file holds its body and   *)
(* 409 when it does not.                                                   *)
(*                                                                         *)
(* A request attaches to the file of its name at one moment of its life    *)
(* and stays attached until that file is removed; its answer is about the  *)
(* file it is attached to, not about one of the same name created later.   *)
(***************************************************************************)
EXTENDS Naturals, FiniteSetsExt

CONSTANTS
    Request, File,
    Call        \* request -> [op, file, payload, len, off]

VARIABLES
    store,      \* file -> its bytes, a function on 0 .. size - 1
    attached,   \* requests whose file has not been removed since they found it
    reply       \* request -> answer

vars == <<store, attached, reply>>

FileOf(r)  == Call[r].file
Uploads(r) == Call[r].op \in {"put", "append"}
Start(r)   == IF Call[r].op = "append" THEN Call[r].off ELSE 0
Byte(r, k) == <<Call[r].payload, k>>

End(c) == IF DOMAIN c = {} THEN 0 ELSE Max(DOMAIN c) + 1

\* c followed by the body of r.
Extended(c, r) ==
    LET n == End(c) IN
    [i \in DOMAIN c \cup n .. (n + Call[r].len - 1) |->
        IF i \in DOMAIN c THEN c[i] ELSE Byte(r, i - n)]

\* c holds the body of r where r says it is, and ends there.
Holds(c, r) ==
    /\ DOMAIN c = 0 .. (Start(r) + Call[r].len - 1)
    /\ \A k \in 0 .. (Call[r].len - 1) : c[Start(r) + k] = Byte(r, k)

Init ==
    /\ store = [f \in {} |-> {}]
    /\ attached = {}
    /\ reply = [r \in Request |-> "none"]

Answer(r, codes) ==
    /\ reply[r] = "none"
    /\ \E code \in codes : reply' = [reply EXCEPT ![r] = code]

Create(r) ==
    /\ Call[r].op = "put" /\ reply[r] = "none"
    /\ FileOf(r) \notin DOMAIN store
    /\ store' = [f \in DOMAIN store \cup {FileOf(r)} |->
                    IF f = FileOf(r) THEN [i \in {} |-> 0] ELSE store[f]]
    /\ attached' = attached \cup {r}
    /\ UNCHANGED reply

Find(r) ==
    /\ reply[r] = "none"
    /\ FileOf(r) \in DOMAIN store
    /\ attached' = attached \cup {r}
    /\ UNCHANGED <<store, reply>>

\* The whole body is added to an empty file, or to one that ends before the
\* append's offset; the client may not hear of it.
Upload(r) ==
    /\ Uploads(r) /\ r \in attached
    /\ LET n == End(store[FileOf(r)]) IN
       IF Call[r].op = "put" THEN n = 0 ELSE Call[r].off > n
    /\ Answer(r, {"200", "unheard"})
    /\ store' = [store EXCEPT ![FileOf(r)] = Extended(@, r)]
    /\ UNCHANGED attached

\* The file has the body already, or has something else.
Match(r) ==
    /\ Uploads(r) /\ r \in attached
    /\ Holds(store[FileOf(r)], r)
    /\ Answer(r, {"200"})
    /\ UNCHANGED <<store, attached>>

Conflict(r) ==
    /\ Uploads(r) /\ r \in attached
    /\ ~Holds(store[FileOf(r)], r)
    /\ Answer(r, {"409"})
    /\ UNCHANGED <<store, attached>>

\* The file was removed in the meantime: the answer means nothing.
Late(r) ==
    /\ r \notin attached
    /\ Answer(r, {"200", "409", "unheard"})
    /\ UNCHANGED <<store, attached>>

Download(r) ==
    /\ ~Uploads(r)
    /\ Answer(r, {"200"})
    /\ UNCHANGED <<store, attached>>

\* Requests fail, one or, when the server dies, many at a time.
Fail ==
    /\ \E R \in SUBSET Request, code \in {"404", "500", "short", "gone"} :
        /\ \A r \in R : reply[r] = "none"
        /\ reply' = [r \in Request |-> IF r \in R THEN code ELSE reply[r]]
    /\ UNCHANGED <<store, attached>>

Remove ==
    /\ \E S \in SUBSET DOMAIN store :
        /\ store' = [f \in DOMAIN store \ S |-> store[f]]
        /\ attached' = {r \in attached : FileOf(r) \notin S}
    /\ UNCHANGED reply

Next ==
    \/ \E r \in Request : \/ Create(r) \/ Find(r) \/ Upload(r)
                          \/ Match(r) \/ Conflict(r) \/ Late(r) \/ Download(r)
    \/ Fail
    \/ Remove

Spec == Init /\ [][Next]_vars
=============================================================================
