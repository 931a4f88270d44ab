-------------------------------- MODULE Blob --------------------------------
(***************************************************************************)
(* A blob of src/src/mrpc_blob.c: a reference-counted large payload kept   *)
(* in a backing file, with its state EMPTY -> INCOMPLETE -> COMPLETE, and  *)
(* the read and write streams mrpc_blob_open_stream hands out. Holders are *)
(* fibers that own references to one blob; each opens, uses and deletes    *)
(* its streams. The ff_file calls are I/O and suspend the calling fiber:   *)
(* ff_file_open is a step of its own, so two fibers may both pass the      *)
(* state assertion of mrpc_blob_open_stream before either opens the file.  *)
(* The other file calls take effect in one step with the code around them: *)
(* nothing another holder can do reads or writes what they change in       *)
(* between. File contents are sequences of byte marks: the id of the       *)
(* stream that wrote the byte, or Hole for a byte never written.           *)
(***************************************************************************)
EXTENDS Naturals, Sequences, FiniteSets, Functions

CONSTANTS
  Holders,      \* fibers holding references to the blob
  Creator,      \* the holder that called mrpc_blob_create
  Writers,      \* the holders that open the blob for writing
  Sizes,        \* sizes the blob is created with
  ChunkLens,    \* lengths of single stream reads and writes
  MaxStreams,   \* bound: streams opened on the blob
  MaxShares,    \* bound: mrpc_blob_inc_ref calls handing a reference on
  DebugBuild,   \* TRUE: a failed ff_assert aborts
  FileMayFail   \* TRUE: ff_file_open, write, erase and move may fail

ASSUME /\ Creator \in Holders /\ Writers \subseteq Holders
       /\ Sizes \subseteq Nat /\ ChunkLens \subseteq Nat
       /\ DebugBuild \in BOOLEAN /\ FileMayFail \in BOOLEAN

Sids == 1..MaxStreams
Hole == 0
Paths == {"tmp", "dst"}   \* the temporary file path, and a mrpc_blob_move target

VARIABLES
  alive,         \* the struct mrpc_blob has not been freed
  refCnt,        \* blob->ref_cnt
  size,          \* blob->size
  state,         \* blob->state
  path,          \* blob->file_path
  disk,          \* contents of the files at Paths
  onDisk,        \* the paths a file exists at
  refs,          \* references each holder owns
  strm,          \* the blob_stream_data of each stream
  opening,       \* the mode a holder's open waits in ff_file_open for, or "none"
  shares,        \* inc_ref calls made
  failedAsserts

vars == <<alive, refCnt, size, state, path, disk, onDisk, refs, strm, opening,
          shares, failedAsserts>>

NoStream == [st |-> "unused", owner |-> Creator, mode |-> "read", pos |-> 0]

Fatal == DebugBuild /\ failedAsserts # {}

Check(cond, site) ==
  failedAsserts' = IF cond THEN failedAsserts ELSE failedAsserts \cup {site}

Outcomes == IF FileMayFail THEN BOOLEAN ELSE {TRUE}

\* file f with bytes pos+1..pos+len written by stream b, a gap left as holes
WriteAt(f, pos, len, b) ==
  [i \in 1..IF Len(f) > pos + len THEN Len(f) ELSE pos + len |->
     IF i > pos /\ i <= pos + len THEN b
     ELSE IF i <= Len(f) THEN f[i] ELSE Hole]

-----------------------------------------------------------------------------
\* defect variant of DeleteBlob: only a COMPLETE blob's file is erased
DeleteBlobCompleteOnly ==
  /\ alive' = FALSE
  /\ \E ok \in Outcomes :
       onDisk' = IF state = "complete" /\ ok THEN onDisk \ {path} ELSE onDisk

(* delete_blob: the backing file is erased unless the blob is EMPTY; a    *)
(* failed erase is only logged; the struct is freed.                       *)
DeleteBlob ==
  /\ alive' = FALSE
  /\ \E ok \in Outcomes :
       onDisk' = IF state # "empty" /\ ok THEN onDisk \ {path} ELSE onDisk

\* mrpc_blob_dec_ref: delete_blob when the count reaches 0
DecRefBlob ==
  /\ Check(refCnt > 0, "dec_ref_positive")
  /\ refCnt' = refCnt - 1
  /\ IF refCnt - 1 = 0 THEN DeleteBlob ELSE UNCHANGED <<alive, onDisk>>

\* a holder drops one of its references
DecRef(h) ==
  /\ ~Fatal /\ refs[h] > 0 /\ opening[h] = "none"
  /\ refs' = [refs EXCEPT ![h] = @ - 1]
  /\ DecRefBlob
  /\ UNCHANGED <<size, state, path, disk, strm, opening, shares>>

\* defect variant of IncRef: the count is not incremented
IncRefNoCount(h, h2) ==
  /\ ~Fatal /\ refs[h] > 0 /\ opening[h] = "none" /\ shares < MaxShares
  /\ Check(refCnt > 0, "inc_ref_positive")
  /\ refs' = [refs EXCEPT ![h2] = @ + 1]
  /\ shares' = shares + 1
  /\ UNCHANGED <<refCnt, alive, size, state, path, disk, onDisk, strm, opening,
                 failedAsserts>>

\* mrpc_blob_inc_ref: a holder takes a new reference and hands it to h2
IncRef(h, h2) ==
  /\ ~Fatal /\ refs[h] > 0 /\ opening[h] = "none" /\ shares < MaxShares
  /\ Check(refCnt > 0, "inc_ref_positive")
  /\ refCnt' = refCnt + 1
  /\ refs' = [refs EXCEPT ![h2] = @ + 1]
  /\ shares' = shares + 1
  /\ UNCHANGED <<alive, size, state, path, disk, onDisk, strm, opening>>

-----------------------------------------------------------------------------
(* mrpc_blob_open_stream: the state assertion of the mode, then           *)
(* ff_file_open suspends the fiber.                                        *)
OpenStream(h, mode) ==
  /\ ~Fatal /\ refs[h] > 0 /\ opening[h] = "none"
  /\ mode = "write" => h \in Writers
  /\ \E sid \in Sids : strm[sid].st = "unused"
  /\ Check(IF mode = "read" THEN state = "complete" ELSE state = "empty",
           "open_state")
  /\ opening' = [opening EXCEPT ![h] = mode]
  /\ UNCHANGED <<alive, refCnt, size, state, path, disk, onDisk, refs, strm,
                 shares>>

\* ff_file_open returns: on failure the open returns NULL; opening for
\* writing creates or truncates the file and makes the blob INCOMPLETE;
\* the stream takes a reference to the blob
OpenFile(h) ==
  LET mode == opening[h]
      sid == CHOOSE i \in Sids : strm[i].st = "unused"
  IN
  /\ ~Fatal /\ mode # "none" /\ \E i \in Sids : strm[i].st = "unused"
  /\ opening' = [opening EXCEPT ![h] = "none"]
  /\ \E ok \in Outcomes :
       IF ok /\ (mode = "write" \/ path \in onDisk)
       THEN /\ strm' = [strm EXCEPT ![sid] =
                          [st |-> "open", owner |-> h, mode |-> mode, pos |-> 0]]
            /\ Check(refCnt > 0, "inc_ref_positive")
            /\ refCnt' = refCnt + 1
            /\ IF mode = "write"
               THEN /\ disk' = [disk EXCEPT ![path] = <<>>]
                    /\ onDisk' = onDisk \cup {path}
                    /\ state' = "incomplete"
               ELSE UNCHANGED <<disk, onDisk, state>>
       ELSE UNCHANGED <<strm, refCnt, disk, onDisk, state, failedAsserts>>
  /\ UNCHANGED <<alive, size, path, refs, shares>>

-----------------------------------------------------------------------------
(* The blob stream's vtable, called by the stream's owner.                 *)

OwnsOpen(h, sid) == strm[sid].st = "open" /\ strm[sid].owner = h

\* read_from_blob_stream: a read within the blob advances the position
ReadStream(h, sid, len) ==
  /\ ~Fatal /\ OwnsOpen(h, sid) /\ opening[h] = "none"
  /\ strm[sid].mode = "read"
  /\ Check(state = "complete" /\ strm[sid].pos <= size, "read_state")
  /\ strm' = IF len <= size - strm[sid].pos
             THEN [strm EXCEPT ![sid].pos = @ + len] ELSE strm
  /\ UNCHANGED <<alive, refCnt, size, state, path, disk, onDisk, refs, opening,
                 shares>>

\* defect variant of WriteStream: COMPLETE one byte before the size
WriteStreamEarlyComplete(h, sid, len) ==
  LET pos == strm[sid].pos
      fits == len <= size - pos
      pos2 == IF fits THEN pos + len ELSE pos
  IN
  /\ ~Fatal /\ OwnsOpen(h, sid) /\ opening[h] = "none"
  /\ strm[sid].mode = "write"
  /\ Check(state = "incomplete" /\ pos <= size, "write_state")
  /\ \E ok \in Outcomes :
       disk' = IF fits /\ ok THEN [disk EXCEPT ![path] = WriteAt(@, pos, len, sid)]
               ELSE disk
  /\ strm' = [strm EXCEPT ![sid].pos = pos2]
  /\ state' = IF pos2 + 1 >= size THEN "complete" ELSE state
  /\ UNCHANGED <<alive, refCnt, size, path, onDisk, refs, opening, shares>>

\* write_to_blob_stream: a write within the blob goes to the file and
\* advances the position whatever ff_file_write returns; reaching the size
\* makes the blob COMPLETE
WriteStream(h, sid, len) ==
  LET pos == strm[sid].pos
      fits == len <= size - pos
      pos2 == IF fits THEN pos + len ELSE pos
  IN
  /\ ~Fatal /\ OwnsOpen(h, sid) /\ opening[h] = "none"
  /\ strm[sid].mode = "write"
  /\ Check(state = "incomplete" /\ pos <= size, "write_state")
  /\ \E ok \in Outcomes :
       disk' = IF fits /\ ok THEN [disk EXCEPT ![path] = WriteAt(@, pos, len, sid)]
               ELSE disk
  /\ strm' = [strm EXCEPT ![sid].pos = pos2]
  /\ state' = IF pos2 = size THEN "complete" ELSE state
  /\ UNCHANGED <<alive, refCnt, size, path, onDisk, refs, opening, shares>>

\* flush_blob_stream: asserts a write stream of an INCOMPLETE blob
FlushStream(h, sid) ==
  /\ ~Fatal /\ OwnsOpen(h, sid) /\ opening[h] = "none"
  /\ strm[sid].mode = "write"
  /\ Check(state = "incomplete", "flush_state")
  /\ UNCHANGED <<alive, refCnt, size, state, path, disk, onDisk, refs, strm,
                 opening, shares>>

\* defect variant of DeleteStream: the stream's reference is kept
DeleteStreamKeepRef(h, sid) ==
  /\ ~Fatal /\ OwnsOpen(h, sid) /\ opening[h] = "none"
  /\ strm' = [strm EXCEPT ![sid].st = "closed"]
  /\ UNCHANGED <<alive, refCnt, onDisk, failedAsserts, size, state, path, disk,
                 refs, opening, shares>>

\* delete_blob_stream: close the file, release the stream's reference
DeleteStream(h, sid) ==
  /\ ~Fatal /\ OwnsOpen(h, sid) /\ opening[h] = "none"
  /\ strm' = [strm EXCEPT ![sid].st = "closed"]
  /\ DecRefBlob
  /\ UNCHANGED <<size, state, path, disk, refs, opening, shares>>

-----------------------------------------------------------------------------
(* mrpc_blob_move: the sole owner of a COMPLETE blob moves its file; on   *)
(* success the blob's file path becomes the new path. The blob is moved at *)
(* most once (one target path).                                            *)
Move(h) ==
  /\ ~Fatal /\ refs[h] > 0 /\ opening[h] = "none" /\ path = "tmp"
  /\ Check(state = "complete" /\ refCnt = 1, "move_state")
  /\ \E ok \in Outcomes :
       IF ok /\ path \in onDisk
       THEN /\ disk' = [disk EXCEPT !["dst"] = disk[path]]
            /\ onDisk' = (onDisk \ {path}) \cup {"dst"}
            /\ path' = "dst"
       ELSE UNCHANGED <<disk, onDisk, path>>
  /\ UNCHANGED <<alive, refCnt, size, state, refs, strm, opening, shares>>

-----------------------------------------------------------------------------
(* mrpc_blob_create(size) by the creator: one reference, EMPTY, a fresh   *)
(* temporary file path with no file yet.                                   *)
Init ==
  /\ alive = TRUE
  /\ refCnt = 1
  /\ size \in Sizes
  /\ state = "empty"
  /\ path = "tmp"
  /\ disk = [p \in Paths |-> <<>>]
  /\ onDisk = {}
  /\ refs = [h \in Holders |-> IF h = Creator THEN 1 ELSE 0]
  /\ strm = [sid \in Sids |-> NoStream]
  /\ opening = [h \in Holders |-> "none"]
  /\ shares = 0
  /\ failedAsserts = {}

Next ==
  \/ \E h \in Holders :
       \/ DecRef(h) \/ Move(h) \/ OpenFile(h)
       \/ \E h2 \in Holders : IncRef(h, h2)
       \/ \E mode \in {"read", "write"} : OpenStream(h, mode)
       \/ \E sid \in Sids :
            \/ FlushStream(h, sid) \/ DeleteStream(h, sid)
            \/ \E len \in ChunkLens : ReadStream(h, sid, len) \/ WriteStream(h, sid, len)

Spec == Init /\ [][Next]_vars

-----------------------------------------------------------------------------
(* Properties.                                                             *)

OpenStreams == {sid \in Sids : strm[sid].st = "open"}

TypeOK ==
  /\ alive \in BOOLEAN /\ refCnt \in Nat /\ size \in Sizes
  /\ state \in {"empty", "incomplete", "complete"} /\ path \in Paths
  /\ onDisk \subseteq Paths /\ \A p \in Paths : disk[p] \in Seq(0..MaxStreams)
  /\ refs \in [Holders -> Nat]
  /\ \A sid \in Sids : strm[sid].st \in {"unused", "open", "closed"}
                       /\ strm[sid].owner \in Holders /\ strm[sid].pos \in Nat
  /\ opening \in [Holders -> {"none", "read", "write"}]

\* the references the holders own and the open streams hold
Owners == FoldFunction(LAMBDA n, acc : n + acc, 0, refs) + Cardinality(OpenStreams)

(* ref_cnt counts exactly the references holders own and open streams     *)
(* hold, and the blob is freed exactly when the last of them is released:  *)
(* nobody holds a reference to a freed blob. An open that forgets its     *)
(* inc_ref, or a stream delete that forgets its dec_ref, breaks it.        *)
RefCntIsOwners ==
  IF alive THEN refCnt = Owners ELSE Owners = 0

(* The temporary backing file exists only while the blob lives: delete_blob *)
(* erases it whatever state past EMPTY the blob has reached, and once.     *)
TempFileErased == ~alive => "tmp" \notin onDisk

(* A COMPLETE blob's file holds exactly size bytes, every one written by   *)
(* a write stream: readers opened on a COMPLETE blob read what was written. *)
CompleteMeansWritten ==
  state = "complete" /\ path \in onDisk =>
    /\ Len(disk[path]) = size
    /\ \A i \in 1..Len(disk[path]) : disk[path][i] # Hole

(* A file moved out by mrpc_blob_move is no longer the blob's temporary    *)
(* file, and survives the blob.                                             *)
MovedFileKept == path = "dst" => "dst" \in onDisk

=============================================================================
