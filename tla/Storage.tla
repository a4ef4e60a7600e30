------------------------------ MODULE Storage ------------------------------
(***************************************************************************)
(* The embedded storage engine of src/src/db.c: a header {id, num_buckets} *)
(* and a bucket table, memory-mapped, followed in the same file by an      *)
(* append-only log of records {vlen, id, next, value}.  db_insert runs     *)
(* under the write side of a pthread rwlock, db_get under the read side.   *)
(*                                                                         *)
(* Offsets are byte offsets in the file.  The log maps the offset every    *)
(* record starts at to its header fields (vlen, id, next), the number of   *)
(* value bytes written after it, and the value as a model value.  Writers  *)
(* and readers are threads of the workers that run the POST and GET        *)
(* handlers.  With Faults, every pread, pwrite and malloc on these paths   *)
(* may fail; the process may restart.                                      *)
(***************************************************************************)
EXTENDS Integers, Sequences, SequencesExt, FiniteSets, TLC

CONSTANTS
    Writers,     \* threads calling db_insert
    Readers,     \* threads calling db_get
    Values,      \* values inserted (request bodies of POST /)
    ValueLen,    \* value -> its length in bytes (post_callback rejects 0)
    NumBuckets,  \* header.num_buckets
    MaxIds,      \* bound: at most MaxIds inserts are started
    Faults,      \* whether I/O and allocation calls may fail
    Uris,        \* targets of the GET requests, as sequences of characters
    NotFound,    \* db_get returned NULL
    Empty,       \* db_get returned a buffer of vlen 0
    Clobbered    \* a value whose first bytes were overwritten by db_insert

\* sizeof(struct header) + sizeof(dbid_t) * num_buckets, and REC_HDR_SIZE.
HDR_SIZE     == 16 + 8 * NumBuckets
REC_HDR_SIZE == 20

ASSUME Writers \cap Readers = {}
ASSUME NumBuckets \in Nat \ {0} /\ Faults \in BOOLEAN
ASSUME \A v \in Values : v \in DOMAIN ValueLen /\ ValueLen[v] \in Nat \ {0}
\* Every offset, length and id fits in the low byte of its field, so an
\* 8-byte little-endian write of an offset is that byte followed by zeros.
\* With at most 3 inserts no record is ever written after the zero bytes
\* db_insert's patch may leave past the end of the file (see PatchTail), so
\* a header read at an offset where no record starts is a short read.
ASSUME /\ MaxIds \in 0..3
       /\ HDR_SIZE + MaxIds * (REC_HDR_SIZE + 8
              + Max({ValueLen[v] : v \in Values})) < 256

VARIABLES
    meta_id,     \* header.id, the next id to assign (mapped, shared)
    buckets,     \* bucket table: index -> offset of the chain head, or DBID_FREE
    log,         \* offset -> the record that starts there
    eof,         \* the file size in bytes
    wlock,       \* the writer holding the rwlock (a set of at most one)
    rlock,       \* the readers holding the rwlock
    pc,          \* thread -> where it is in db_insert / db_get
    wval,        \* writer -> the value it inserts
    wid,         \* writer -> the id it was given
    wpos,        \* writer -> the offset its record is written at
    ruri,        \* reader -> the target of the GET it serves
    acked,       \* history: id -> [val, at], for every db_insert that returned OK
    got          \* history: reader -> [uri, status, val] of its last response

vars == <<meta_id, buckets, log, eof, wlock, rlock, pc, wval, wid, wpos, ruri,
          acked, got>>

Threads == Writers \cup Readers
Buckets == 0..NumBuckets-1
Ids     == 0..MaxIds

\* DBID_FREE is all ones: an empty bucket, or the end of a chain.
DBID_FREE == -1

Record == [vlen : Nat, id : Ids, next : Nat \cup {DBID_FREE}, len : Nat,
           val : Values \cup {Clobbered}]

\* get_file_size: fstat's st_size, the offset the next record is written at.
\* (Variant: the offset the last record was written at.)
FileEndLast == IF DOMAIN log = {} THEN eof ELSE Max(DOMAIN log)
FileEnd == eof

\* The bucket of an id.
BucketIndex(id) == id % NumBuckets

\* Whether every record header of the chain from offset o can be read
\* (pread of REC_HDR_SIZE bytes returns them all).
RECURSIVE ChainReadable(_)
ChainReadable(o) ==
    /\ o \in DOMAIN log
    /\ log[o].next = DBID_FREE \/ ChainReadable(log[o].next)

\* The last record of the chain from offset o (db_insert's walk).
RECURSIVE ChainTail(_)
ChainTail(o) == IF log[o].next = DBID_FREE THEN o ELSE ChainTail(log[o].next)

\* What db_get copies out of the record at o: vlen bytes after the header.
\* A vlen of 0 gives malloc(0), which glibc answers with a live pointer,
\* and a pread of 0 bytes that succeeds: an empty value.
RecordValue(o) == IF log[o].vlen = 0 THEN Empty ELSE log[o].val

\* db_get's walk: the value of the record with this id on the chain from o.
RECURSIVE ChainFind(_, _)
ChainFind(o, id) ==
    IF o \notin DOMAIN log THEN NotFound
    ELSE IF log[o].id = id THEN RecordValue(o)
    ELSE IF log[o].next = DBID_FREE THEN NotFound
    ELSE ChainFind(log[o].next, id)

Lookup(id) ==
    LET head == buckets[BucketIndex(id)]
    IN  IF head = DBID_FREE THEN NotFound ELSE ChainFind(head, id)

\* The pwrite of pos (8 bytes) at offsetof(struct record, offset) of the
\* tail t, which is REC_HDR_SIZE: the first bytes of t's value, not its
\* next field.  Bytes beyond t's L value bytes land on the record after
\* it in the file: on its vlen (bytes 0..3) when L < 8, and on its id
\* (bytes 4..11) when L < 4; they all receive zero bytes of pos.  With no
\* record there, the write extends the file.
PatchTail(t, pos) ==
    LET L == log[t].len
        s == t + REC_HDR_SIZE + L
    IN  /\ log' = [o \in DOMAIN log |->
                    IF o = t THEN [log[o] EXCEPT !.val = Clobbered]
                    ELSE IF o = s THEN [log[o] EXCEPT !.vlen = IF L < 8 THEN 0 ELSE @,
                                                      !.id   = IF L < 4 THEN 0 ELSE @]
                    ELSE log[o]]
        /\ eof' = Max({eof, t + REC_HDR_SIZE + 8})

\* write_record: one pwrite of the header and the value at pos.
WriteRecord(pos, id, v) ==
    /\ log' = (pos :> [vlen |-> ValueLen[v], id |-> id, next |-> DBID_FREE,
                       len |-> ValueLen[v], val |-> v]) @@ log
    /\ eof' = Max({eof, pos + REC_HDR_SIZE + ValueLen[v]})

-----------------------------------------------------------------------------
(* db_insert *)

\* The `out:` label: unlock and return.
InsertReturn(w) ==
    /\ wlock' = wlock \ {w}
    /\ pc' = [pc EXCEPT ![w] = "idle"]

\* pthread_rwlock_wrlock.  (Variant: without waiting for other holders.)
InsertLockNoExclusion(w, v) ==
    /\ pc[w] = "idle"
    /\ meta_id < MaxIds
    /\ wlock' = wlock \cup {w}
    /\ pc' = [pc EXCEPT ![w] = "alloc"]
    /\ wval' = [wval EXCEPT ![w] = v]
    /\ UNCHANGED <<meta_id, buckets, log, eof, rlock, wid, wpos, ruri, acked, got>>
InsertLock(w, v) ==
    /\ pc[w] = "idle"
    /\ meta_id < MaxIds
    /\ wlock = {} /\ rlock = {}
    /\ wlock' = {w}
    /\ pc' = [pc EXCEPT ![w] = "alloc"]
    /\ wval' = [wval EXCEPT ![w] = v]
    /\ UNCHANGED <<meta_id, buckets, log, eof, rlock, wid, wpos, ruri, acked, got>>

\* Take the id, find the bucket and the file size, and link the new record
\* in: an empty bucket is pointed at it; otherwise the chain is walked to
\* its tail and the tail is patched (PatchTail).
InsertAlloc(w) ==
    LET id     == meta_id
        index  == BucketIndex(id)
        pos    == FileEnd
        offset == buckets[index]
    IN
    /\ pc[w] = "alloc"
    /\ meta_id' = meta_id + 1
    /\ \/ /\ offset = DBID_FREE
          /\ buckets' = [buckets EXCEPT ![index] = pos]
          /\ pc' = [pc EXCEPT ![w] = "write"]
          /\ UNCHANGED <<log, eof, wlock>>
       \/ /\ offset # DBID_FREE
          /\ ChainReadable(offset)
          /\ PatchTail(ChainTail(offset), pos)
          /\ pc' = [pc EXCEPT ![w] = "write"]
          /\ UNCHANGED <<buckets, wlock>>
       \/ /\ offset # DBID_FREE
          \* a pread of the walk comes back short, or the patch pwrite fails
          /\ ~ChainReadable(offset) \/ Faults
          /\ InsertReturn(w)
          /\ UNCHANGED <<buckets, log, eof>>
    /\ wid' = [wid EXCEPT ![w] = id]
    /\ wpos' = [wpos EXCEPT ![w] = pos]
    /\ UNCHANGED <<rlock, wval, ruri, acked, got>>

\* write_record at the offset taken in InsertAlloc, then unlock.
InsertWrite(w) ==
    /\ pc[w] = "write"
    /\ \/ /\ WriteRecord(wpos[w], wid[w], wval[w])
          /\ acked' = acked @@ (wid[w] :> [val |-> wval[w], at |-> wpos[w]])
       \/ /\ Faults  \* malloc or pwrite fails: nothing is written
          /\ UNCHANGED <<log, eof, acked>>
    /\ InsertReturn(w)
    /\ UNCHANGED <<meta_id, buckets, rlock, wval, wid, wpos, ruri, got>>

-----------------------------------------------------------------------------
(* GET: match_route, get_callback, db_get *)

\* The routes main registers, in order: GET "/" exactly is the index page,
\* any other GET target starting with "/" goes to get_callback.
Routes == <<[match |-> "exact",  uri |-> <<"/">>, cb |-> "index"],
            [match |-> "prefix", uri |-> <<"/">>, cb |-> "get"]>>

\* match_route for GET: an exact route of the same length is taken at once;
\* otherwise the first of the longest prefix routes, or none (404).
MatchRoute(u) ==
    LET exact  == {i \in DOMAIN Routes : Routes[i].match = "exact"
                                        /\ Routes[i].uri = u}
        prefix == {i \in DOMAIN Routes : Routes[i].match = "prefix"
                                        /\ IsPrefix(Routes[i].uri, u)}
        longest  == {i \in prefix : \A j \in prefix :
                        Len(Routes[j].uri) <= Len(Routes[i].uri)}
    IN  IF exact # {} THEN Routes[Min(exact)].cb
        ELSE IF prefix # {} THEN Routes[Min(longest)].cb
        ELSE "none"

DigitChar == <<"0", "1", "2", "3", "4", "5", "6", "7", "8", "9">>
Digits == ToSet(DigitChar)
DigitValue(c) == CHOOSE d \in 0..9 : DigitChar[d+1] = c

\* get_callback's check of the target after the leading '/': digits, where
\* a '/' is let through as the last character of a target longer than 2.
\* (Variant: without the length test, so that "//" passes.)
UriValidNoLen(u) ==
    \A i \in 2..Len(u) : u[i] \in Digits \/ (u[i] = "/" /\ i = Len(u))
UriValid(u) ==
    \A i \in 2..Len(u) : u[i] \in Digits \/ (u[i] = "/" /\ Len(u) > 2 /\ i = Len(u))

\* strtoull(uri+1): the digits from position i on, up to the first other.
RECURSIVE Strtoull(_, _, _)
Strtoull(u, i, acc) ==
    IF i <= Len(u) /\ u[i] \in Digits
    THEN Strtoull(u, i + 1, 10 * acc + DigitValue(u[i]))
    ELSE acc
ParseId(u) == Strtoull(u, 2, 0)

\* pthread_rwlock_rdlock in db_get, for a GET that match_route gives to
\* get_callback and whose target passes the check.
\* (Variant: without waiting for the writer.)
GetLockNoWait(r, u) ==
    /\ pc[r] = "idle"
    /\ MatchRoute(u) = "get" /\ UriValid(u)
    /\ rlock' = rlock \cup {r}
    /\ pc' = [pc EXCEPT ![r] = "get"]
    /\ ruri' = [ruri EXCEPT ![r] = u]
    /\ UNCHANGED <<meta_id, buckets, log, eof, wlock, wval, wid, wpos, acked, got>>
GetLock(r, u) ==
    /\ pc[r] = "idle"
    /\ MatchRoute(u) = "get" /\ UriValid(u)
    /\ wlock = {}
    /\ rlock' = rlock \cup {r}
    /\ pc' = [pc EXCEPT ![r] = "get"]
    /\ ruri' = [ruri EXCEPT ![r] = u]
    /\ UNCHANGED <<meta_id, buckets, log, eof, wlock, wval, wid, wpos, acked, got>>

\* A GET answered without the database: the index page for "/", 404 from
\* get_callback for a target that fails the check, or route_404.
GetNoDb(r, u) ==
    /\ pc[r] = "idle"
    /\ ~(MatchRoute(u) = "get" /\ UriValid(u))
    /\ got' = [got EXCEPT ![r] = [uri |-> u, val |-> NotFound,
                                  status |-> IF MatchRoute(u) = "index" THEN 200 ELSE 404]]
    /\ UNCHANGED <<meta_id, buckets, log, eof, wlock, rlock, pc, wval, wid, wpos,
                   ruri, acked>>

\* get_callback's response to db_get's result: 200 with it, 404 on NULL.
GetAnswer(u, v) == [uri |-> u, val |-> v, status |-> IF v = NotFound THEN 404 ELSE 200]

\* db_get of strtoull(uri+1): walk the bucket's chain for the id, copy the
\* value out, unlock, and answer.
Get(r) ==
    LET answer(v) == GetAnswer(ruri[r], v) IN
    /\ pc[r] = "get"
    /\ \/ got' = [got EXCEPT ![r] = answer(Lookup(ParseId(ruri[r])))]
       \/ /\ Faults  \* a pread or the malloc fails: NULL
          /\ got' = [got EXCEPT ![r] = answer(NotFound)]
    /\ rlock' = rlock \ {r}
    /\ pc' = [pc EXCEPT ![r] = "idle"]
    /\ UNCHANGED <<meta_id, buckets, log, eof, wlock, wval, wid, wpos, ruri, acked>>

-----------------------------------------------------------------------------
(* The process ends and starts again *)

\* The process is killed, or main's shutdown calls close_db, in the middle
\* of any insert or get, and a new process calls open_db on the existing
\* file: it reads the header (id, num_buckets) and maps header and buckets
\* again.  The mapping is MAP_SHARED and the records went out with pwrite,
\* so everything written before the end is in the file (a process end,
\* not a power loss: the spec promises no durability across that).  The
\* new threads start idle and no lock is held.
Restart ==
    /\ Faults
    /\ pc' = [t \in Threads |-> "idle"]
    /\ wlock' = {}
    /\ rlock' = {}
    /\ UNCHANGED <<meta_id, buckets, log, eof, wval, wid, wpos, ruri, acked, got>>

-----------------------------------------------------------------------------

\* open_db on a path that does not exist: id 0, every bucket empty.
Init ==
    /\ meta_id = 0
    /\ buckets = [b \in Buckets |-> DBID_FREE]
    /\ log = <<>>
    /\ eof = HDR_SIZE
    /\ wlock = {}
    /\ rlock = {}
    /\ pc = [t \in Threads |-> "idle"]
    /\ wval = [w \in Writers |-> CHOOSE v \in Values : TRUE]
    /\ wid = [w \in Writers |-> 0]
    /\ wpos = [w \in Writers |-> 0]
    /\ ruri = [r \in Readers |-> <<"/">>]
    /\ acked = <<>>
    /\ got = [r \in Readers |-> [uri |-> <<"/">>, status |-> 200, val |-> NotFound]]

Next ==
    \/ \E w \in Writers, v \in Values : InsertLock(w, v)
    \/ \E w \in Writers : InsertAlloc(w) \/ InsertWrite(w)
    \/ \E r \in Readers, u \in Uris : GetLock(r, u) \/ GetNoDb(r, u)
    \/ \E r \in Readers : Get(r)
    \/ Restart

Spec == Init /\ [][Next]_vars

-----------------------------------------------------------------------------
(* Properties *)

TypeOK ==
    /\ meta_id \in 0..MaxIds
    /\ buckets \in [Buckets -> Nat \cup {DBID_FREE}]
    /\ DOMAIN log \subseteq HDR_SIZE..eof /\ \A o \in DOMAIN log : log[o] \in Record
    /\ eof \in Nat
    /\ wlock \subseteq Writers /\ Cardinality(wlock) <= 1 /\ rlock \subseteq Readers
    /\ pc \in [Threads -> {"idle", "alloc", "write", "get"}]
    /\ DOMAIN acked \subseteq Ids
    /\ \A i \in DOMAIN acked : acked[i] \in [val : Values, at : Nat]
    /\ ruri \in [Readers -> Uris \cup {<<"/">>}]
    /\ got \in [Readers -> [uri : Uris \cup {<<"/">>}, status : {200, 404},
                             val : Values \cup {NotFound, Empty, Clobbered}]]

\* The rwlock keeps a reader away from a chain a writer is still extending:
\* every record on the chain a reader in db_get walks has been written.
ReadersSeeCompleteChains ==
    \A r \in Readers :
        pc[r] = "get" =>
            LET head == buckets[BucketIndex(ParseId(ruri[r]))]
            IN  head # DBID_FREE => ChainReadable(head)

\* Outside the one record an insert is about to write, every bucket is
\* empty or points at a written record whose id hashes to that bucket.
BucketHeadsConsistent ==
    \A b \in Buckets :
        LET head == buckets[b]
        IN  /\ head # DBID_FREE
            /\ ~\E w \in Writers : pc[w] = "write" /\ wpos[w] = head
            => /\ head \in DOMAIN log
               /\ BucketIndex(log[head].id) = b

\* No insert writes its record over one db_insert returned OK for: the
\* record at the offset of every acknowledged id still has that value's
\* length and that value, or the value's first bytes patched by a later
\* insert of the same bucket.  Two writers must never both take the file
\* size as their position, and the file size must cover every record.
AckedRecordsInPlace ==
    \A id \in DOMAIN acked :
        LET o == acked[id].at
        IN  /\ o \in DOMAIN log
            /\ log[o].len = ValueLen[acked[id].val]
            /\ log[o].val \in {acked[id].val, Clobbered}

\* The target "/<id>" of spec section 8, <id> as post_callback prints it
\* (%lu), with or without one trailing '/'.
RECURSIVE Decimal(_)
Decimal(n) == IF n < 10 THEN <<DigitChar[n+1]>>
              ELSE Decimal(n \div 10) \o <<DigitChar[(n % 10) + 1]>>
Names(u, id) == u \in {<<"/">> \o Decimal(id), <<"/">> \o Decimal(id) \o <<"/">>}

\* A GET is answered with a stored value only when its target names an id
\* db_insert returned OK for with that value: match_route, get_callback's
\* check and strtoull must agree with the id POST printed, and db_get must
\* not return another id's record (nor, after a failed or torn insert and
\* a restart, a record no insert completed).
NoPhantomRead ==
    \A r \in Readers :
        got[r].val \in Values =>
            \E id \in DOMAIN acked : Names(got[r].uri, id) /\ acked[id].val = got[r].val

\* Refinement: the engine implements KVStore, the id counter of KVStore
\* standing still while an insert has taken its id but not yet written.
KV == INSTANCE KVStore WITH
        store  <- [i \in Ids |-> IF i \in DOMAIN acked THEN acked[i].val ELSE NotFound],
        nextId <- meta_id - Cardinality({w \in Writers : pc[w] = "write"}),
        result <- [r \in Readers |-> got[r].val]

KVSpec == KV!Spec

=============================================================================
