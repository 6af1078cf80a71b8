---------------------------- MODULE DecodeCache ----------------------------
(***************************************************************************)
(* The cache of decoded chunks that data connections share:                *)
(* crates/aex-core/src/backends/decode_cache.rs.                           *)
(*                                                                         *)
(* A step is one acquisition of the lock over Lru, or what a reader does   *)
(* between two of them.  Buffers have an identity, and what is in them is  *)
(* the chunk last decoded into them: an evicted chunk's buffer is lent to  *)
(* the next decode, and must not be one that somebody still reads.         *)
(***************************************************************************)
EXTENDS Vecs, FiniteSets, FiniteSetsExt

CONSTANTS
  Readers,   \* threads of data connections
  Keys,      \* ChunkKey: a chunk of a dataset
  Size,      \* the decoded bytes of each
  Capacity,  \* DecodeCache.capacity
  MaxSpares, \* MAX_SPARES
  Buffers,   \* bound: buffers there is memory for
  NoBuffer,  \* a reader without one
  NoKey      \* in a buffer whose content is undefined

ASSUME CacheAssumption ==
  /\ Size \in [Keys -> Nat]
  /\ Capacity \in Nat
  /\ MaxSpares \in Nat
  /\ NoBuffer \notin Buffers
  /\ NoKey \notin Keys

VARIABLES
  entries,  \* Lru.entries, each <<key, buffer>>, least recently used first
  bytes,    \* Lru.bytes
  spare,    \* Lru.spare
  pc,       \* what each reader is about to do
  key,      \* the chunk it wants
  buffer,   \* the buffer it decodes into, or its handle on a decoded chunk
  content   \* the chunk that was decoded into each buffer

vars == <<entries, bytes, spare, pc, key, buffer, content>>

Labels == {"idle", "get", "spare", "decode", "insert", "copy"}

TypeOK ==
  /\ entries \in Seq(Keys \X Buffers)
  /\ bytes \in Nat
  /\ spare \in Seq(Buffers)
  /\ pc \in [Readers -> Labels]
  /\ key \in [Readers -> Keys \cup {NoKey}]
  /\ buffer \in [Readers -> Buffers \cup {NoBuffer}]
  /\ content \in [Buffers -> Keys \cup {NoKey}]

Init ==
  /\ entries = << >>
  /\ bytes = 0
  /\ spare = << >>
  /\ pc = [r \in Readers |-> "idle"]
  /\ key = [r \in Readers |-> NoKey]
  /\ buffer = [r \in Readers |-> NoBuffer]
  /\ content = [b \in Buffers |-> NoKey]

---------------------------------------------------------------------------

Cached(b)  == \E i \in DOMAIN entries : entries[i][2] = b
Spare(b)   == \E i \in DOMAIN spare : spare[i] = b
Held(b)    == \E r \in Readers : buffer[r] = b

\* Freed, or never allocated.
Unused == {b \in Buffers : ~Cached(b) /\ ~Spare(b) /\ ~Held(b)}

\* read_into is called for a chunk.
Call(r) ==
  /\ pc[r] = "idle"
  /\ pc' = [pc EXCEPT ![r] = "get"]
  /\ \E k \in Keys : key' = [key EXCEPT ![r] = k]
  /\ UNCHANGED <<entries, bytes, spare, buffer, content>>

\* get: a hit becomes the most recently used, and its handle is cloned.
Get(r) ==
  /\ pc[r] = "get"
  /\ LET at == {i \in DOMAIN entries : entries[i][1] = key[r]} IN
     \/ /\ at = {}
        /\ pc' = [pc EXCEPT ![r] = "spare"]
        /\ UNCHANGED <<entries, buffer>>
     \/ /\ at # {}
        /\ entries' = Append(RemoveAt(entries, Min(at)), entries[Min(at)])
        /\ buffer' = [buffer EXCEPT ![r] = entries[Min(at)][2]]
        /\ pc' = [pc EXCEPT ![r] = "copy"]
  /\ UNCHANGED <<bytes, spare, key, content>>

\* take_spare: an evicted chunk's buffer, or a new one.  What the decoder
\* writes into it makes what it held undefined.
TakeSpare(r) ==
  /\ pc[r] = "spare"
  /\ \E b \in Buffers :
       /\ IF spare # << >>
          THEN b = Last(spare) /\ spare' = Front(spare)
          ELSE Unused # {} /\ b = (CHOOSE u \in Unused : TRUE) /\ UNCHANGED spare
       /\ buffer' = [buffer EXCEPT ![r] = b]
       /\ content' = [content EXCEPT ![b] = NoKey]
  /\ pc' = [pc EXCEPT ![r] = "decode"]
  /\ UNCHANGED <<entries, bytes, key>>

\* The decoder fills the buffer it was lent or, dropping that, another; or it
\* fails, and drops it too.
Decode(r) ==
  /\ pc[r] = "decode"
  /\ \/ /\ content' = [content EXCEPT ![buffer[r]] = key[r]]
        /\ pc' = [pc EXCEPT ![r] = "insert"]
        /\ UNCHANGED <<key, buffer>>
     \/ /\ Unused # {}
        /\ LET b == CHOOSE u \in Unused : TRUE IN
           /\ buffer' = [buffer EXCEPT ![r] = b]
           /\ content' = [content EXCEPT ![b] = key[r]]
        /\ pc' = [pc EXCEPT ![r] = "insert"]
        /\ UNCHANGED key
     \/ /\ pc' = [pc EXCEPT ![r] = "idle"]
        /\ key' = [key EXCEPT ![r] = NoKey]
        /\ buffer' = [buffer EXCEPT ![r] = NoBuffer]
        /\ UNCHANGED content
  /\ UNCHANGED <<entries, bytes, spare>>

\* The decoded bytes of entries.
Bytes(es) ==
  LET upTo[n \in 0 .. Len(es)] == IF n = 0 THEN 0 ELSE upTo[n - 1] + Size[es[n][1]]
  IN  upTo[Len(es)]

\* How many entries go, oldest first, before total fits.
Evictions(es, total) ==
  Min({n \in 0 .. Len(es) : total - Bytes(SubSeq(es, 1, n)) <= Capacity})

\* Mutant: a buffer is lent again with readers still at it.
EvenHeld(b) == TRUE

\* Arc::into_inner: nobody else has a handle on it.
Unread(b) == ~Held(b)

\* Mutant: the bytes of what was evicted are not given back.
NeverLess(total, gone) == total

\* Mutant: they are given back twice.
LessTwice(total, gone) == total - 2 * Bytes(gone)

Less(total, gone) == total - Bytes(gone)

\* Another thread decoded it too.
Raced(k) == \E i \in DOMAIN entries : entries[i][1] = k

Insert(r) ==
  /\ pc[r] = "insert"
  /\ pc' = [pc EXCEPT ![r] = "copy"]
  /\ IF Capacity = 0 \/ Size[key[r]] > Capacity \/ Raced(key[r])
     THEN UNCHANGED <<entries, bytes, spare>>
     ELSE LET all == Append(entries, <<key[r], buffer[r]>>)
              total == bytes + Size[key[r]]
              n == Evictions(all, total)
              gone == SubSeq(all, 1, n)
              back == Retain([i \in 1 .. n |-> gone[i][2]], {b \in Buffers : Unread(b)})
          IN  /\ entries' = SubSeq(all, n + 1, Len(all))
              /\ bytes' = Less(total, gone)
              /\ spare' = spare \o SubSeq(back, 1, Min({Len(back), MaxSpares - Len(spare)}))
  /\ UNCHANGED <<key, buffer, content>>

\* The copy is made and the handle dropped.
Copy(r) ==
  /\ pc[r] = "copy"
  /\ pc' = [pc EXCEPT ![r] = "idle"]
  /\ key' = [key EXCEPT ![r] = NoKey]
  /\ buffer' = [buffer EXCEPT ![r] = NoBuffer]
  /\ UNCHANGED <<entries, bytes, spare, content>>

Next ==
  \E r \in Readers :
    Call(r) \/ Get(r) \/ TakeSpare(r) \/ Decode(r) \/ Insert(r) \/ Copy(r)

Spec == Init /\ [][Next]_vars

---------------------------------------------------------------------------
(* Properties.                                                             *)

\* What a reader copies out is the chunk it asked for, whoever decoded it and
\* whatever was evicted or decoded since: no buffer is lent to a decode while
\* a reader or the cache still has a handle on it.
ChunksIntact ==
  /\ \A r \in Readers : pc[r] \in {"insert", "copy"} => content[buffer[r]] = key[r]
  /\ \A i \in DOMAIN entries : content[entries[i][2]] = entries[i][1]

\* The bytes counted are those of the chunks held, so that evictions go on
\* making room, and they are within the capacity.
BytesExact == bytes = Bytes(entries) /\ bytes <= Capacity

---------------------------------------------------------------------------
(* The inductive invariant, in parts.                                      *)

\* A reader that wants a chunk knows which, and has a buffer from take_spare on.
Wanting(r) ==
  /\ pc[r] # "idle" => key[r] \in Keys
  /\ buffer[r] = NoBuffer <=> pc[r] \in {"idle", "get", "spare"}

\* A buffer that is decoded into, or has been, is the reader's own until the
\* cache has taken it.
Private(r) ==
  pc[r] \in {"decode", "insert"} =>
    /\ ~Cached(buffer[r])
    /\ \A other \in Readers \ {r} : buffer[other] # buffer[r]

\* No buffer is the home of two chunks, and a spare one is nobody's.
Apart ==
  /\ \A i, j \in DOMAIN entries : entries[i][2] = entries[j][2] => i = j
  /\ IsInjective(spare) /\ Len(spare) <= MaxSpares
  /\ \A i \in DOMAIN spare : ~Cached(spare[i]) /\ ~Held(spare[i])

\* The inductive invariant that CacheProofs proves.
IInv ==
  /\ TypeOK
  /\ \A r \in Readers : Wanting(r) /\ Private(r)
  /\ Apart
  /\ ChunksIntact
  /\ BytesExact
=============================================================================
