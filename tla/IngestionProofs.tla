-------------------------- MODULE IngestionProofs ---------------------------
(***************************************************************************)
(* Proofs about Ingestion, for any number of files, requests and failures: *)
(* a record never points at an object that is not there, and what the      *)
(* uploader reports as a success has an image.  A key has one owner, so    *)
(* that neither a conversion that comes late nor the wipe of other records *)
(* takes it away; an upload that is heard works on its file's record.      *)
(***************************************************************************)
EXTENDS Ingestion, SequenceTheorems, FiniteSetTheorems, TLAPS

AnyKey == [n : Nat, ext : {"tif", "pdf", "none"}]

ImageRow == [f : Files, ref : AnyKey, last : Nat, wiped : BOOLEAN]

Served == [op : {"none", "upload", "view"}, f : Files \cup {"none"}, key : AnyKey,
           img : Nat, pc : {"free", "put", "commit"}, heard : BOOLEAN]

Typed ==
    /\ images \in Seq(ImageRow)
    /\ slot \in [Slots -> Served]
    /\ uploads \in Nat
    /\ backfill.todo \in SUBSET ((DOMAIN images) \X AnyKey)
    /\ wipe.rows \in SUBSET (DOMAIN images) /\ wipe.keys \in SUBSET AnyKey

\* What a request works on at each point.
InService ==
    \A q \in Slots :
        /\ slot[q].op = "upload" => /\ slot[q].key.n \in 1 .. uploads
                                    /\ slot[q].img = 0 \/ slot[q].img \in DOMAIN images
                                    /\ slot[q].f \in Files
                                    /\ slot[q].pc = "put" => slot[q].img = 0
        /\ slot[q].op = "view" => slot[q].img \in DOMAIN images
        /\ slot[q].pc # "free" => slot[q].op # "none"
        /\ slot[q].pc = "put" => slot[q].op = "upload"

\* No two uploads share a key.
OwnKeys ==
    \A p, q \in Slots :
        p # q /\ slot[p].op = "upload" /\ slot[q].op = "upload" =>
            slot[p].key.n # slot[q].key.n

\* What is or will be pointed at is in the bucket; the wipe deletes objects
\* only when the records are gone.
Stored ==
    /\ \A k \in DOMAIN images :
           ~images[k].wiped /\ images[k].ref # NoKey => images[k].ref \in objects
    /\ \A q \in Slots :
           slot[q].pc = "commit" /\ (slot[q].img = 0 \/ ~images[slot[q].img].wiped) =>
               slot[q].key \in objects
    /\ wipe.pc = "deleted" => \A k \in wipe.rows : images[k].wiped

\* Every key has one owner: owner gives for a key's number the record that it
\* is of, and 0 while there is none.
Owned(owner) ==
    /\ \A n \in Nat : n > uploads => owner[n] = 0
    /\ \A k \in DOMAIN images : images[k].ref # NoKey => owner[images[k].ref.n] = k
    /\ \A q \in Slots : slot[q].op # "none" => owner[slot[q].key.n] = slot[q].img
    /\ \A item \in backfill.todo : owner[item[2].n] = item[1]
    /\ \A key \in wipe.keys : owner[key.n] \in wipe.rows

OwnedInv(owner) == Typed /\ InService /\ OwnKeys /\ Stored /\ Owned(owner)

IngestInv == \E owner \in [Nat -> Nat] : OwnedInv(owner)

-----------------------------------------------------------------------------
(* Keys, rows and slots.                                                   *)

LEMMA KeyTypes ==
    /\ NoKey \in AnyKey /\ OldTiff \in AnyKey /\ OldTiff # NoKey
    /\ Free \in Served
    /\ \A n \in Nat, f \in Files : ImageKey(n, f) \in AnyKey /\ ImageKey(n, f).n = n
    /\ \A key \in AnyKey :
           /\ Derived(key) \in AnyKey /\ Derived(key).n = key.n
           /\ key.ext = "tif" => key # NoKey
BY DEF NoKey, OldTiff, AnyKey, Free, Served, ImageKey, Derived

LEMMA ConvertedType ==
    ASSUME NEW key \in AnyKey, NEW f
    PROVE  /\ Converted(key, f) \in AnyKey /\ Converted(key, f).n = key.n
           /\ Converted(key, f) # key => key.ext = "tif" /\ Converted(key, f) = Derived(key)
BY KeyTypes DEF Converted

\* A row rewritten in place.
LEMMA RowRewritten ==
    ASSUME images \in Seq(ImageRow), NEW k \in DOMAIN images, NEW row \in ImageRow
    PROVE  /\ [images EXCEPT ![k] = row] \in Seq(ImageRow)
           /\ DOMAIN [images EXCEPT ![k] = row] = DOMAIN images
           /\ [images EXCEPT ![k] = row][k] = row
           /\ \A i \in DOMAIN images : i # k => [images EXCEPT ![k] = row][i] = images[i]
<1>1. k \in 1 .. Len(images)
    BY LenProperties
<1> QED BY <1>1, ExceptSeq

\* A row added.
LEMMA RowAdded ==
    ASSUME images \in Seq(ImageRow), NEW row \in ImageRow
    PROVE  /\ Append(images, row) \in Seq(ImageRow)
           /\ DOMAIN Append(images, row) = DOMAIN images \cup {Len(images) + 1}
           /\ \A i \in DOMAIN images : Append(images, row)[i] = images[i]
           /\ Append(images, row)[Len(images) + 1] = row
           /\ Len(images) + 1 \in Nat /\ Len(images) + 1 \notin DOMAIN images
           /\ DOMAIN images \subseteq Nat \ {0}
<1>1. DOMAIN images = 1 .. Len(images) /\ Len(images) \in Nat
    BY LenProperties
<1>2. /\ Append(images, row) \in Seq(ImageRow)
      /\ Len(Append(images, row)) = Len(images) + 1
      /\ \A i \in 1 .. Len(images) : Append(images, row)[i] = images[i]
      /\ Append(images, row)[Len(images) + 1] = row
    BY <1>1, AppendProperties
<1>3. DOMAIN Append(images, row) = 1 .. Len(images) + 1
    BY <1>2, LenProperties
<1> QED BY <1>1, <1>2, <1>3

LEMMA RecordNumbers ==
    ASSUME images \in Seq(ImageRow)
    PROVE  /\ DOMAIN images \subseteq Nat \ {0}
           /\ \A k \in DOMAIN images : images[k] \in ImageRow
<1>1. DOMAIN images = 1 .. Len(images) /\ Len(images) \in Nat
    BY LenProperties
<1> QED BY <1>1, ElementOfSeq

\* A slot that is given up.
LEMMA SlotFreed ==
    ASSUME NEW owner \in [Nat -> Nat], OwnedInv(owner), NEW q \in Slots,
           slot' = [slot EXCEPT ![q] = Free], objects \subseteq objects',
           UNCHANGED <<images, uploads, backfill, wipe>>
    PROVE  OwnedInv(owner)'
<1>1. /\ slot' \in [Slots -> Served] /\ slot'[q] = Free
      /\ \A p \in Slots \ {q} : slot'[p] = slot[p]
    BY KeyTypes DEF OwnedInv, Typed
<1>2. Free.op = "none" /\ Free.pc = "free"
    BY DEF Free
<1>3. Typed'
    BY <1>1 DEF OwnedInv, Typed
<1>4. InService'
    BY <1>1, <1>2 DEF OwnedInv, InService
<1>5. OwnKeys'
    BY <1>1, <1>2 DEF OwnedInv, OwnKeys
<1>6. Stored'
    BY <1>1, <1>2 DEF OwnedInv, Stored
<1>7. Owned(owner)'
    BY <1>1, <1>2 DEF OwnedInv, Owned
<1> QED BY <1>3, <1>4, <1>5, <1>6, <1>7 DEF OwnedInv

\* A live record pointed at a key of its own that is in the bucket; who asked
\* for it may be done.
LEMMA RecordRepointed ==
    ASSUME NEW owner \in [Nat -> Nat], OwnedInv(owner),
           NEW k \in DOMAIN images, NEW row \in ImageRow, ~images[k].wiped,
           images' = [images EXCEPT ![k] = row], row.wiped = images[k].wiped,
           owner[row.ref.n] = k, row.ref \in objects', objects \subseteq objects',
           UNCHANGED <<uploads, wipe>>,
           slot' \in [Slots -> Served],
           \A q \in Slots : slot'[q] = slot[q] \/ slot'[q] = Free,
           backfill'.todo \subseteq backfill.todo
    PROVE  OwnedInv(owner)'
<1>1. /\ images' \in Seq(ImageRow) /\ DOMAIN images' = DOMAIN images
      /\ images'[k] = row /\ \A i \in DOMAIN images : i # k => images'[i] = images[i]
    BY RowRewritten DEF OwnedInv, Typed
<1>2. \A i \in DOMAIN images : images'[i].wiped <=> images[i].wiped
    BY <1>1
<1>a. Free.op = "none" /\ Free.pc = "free"
    BY DEF Free
<1>3. Typed'
    BY <1>1 DEF OwnedInv, Typed
<1>4. InService' /\ OwnKeys'
  <2>1. \A q \in Slots : slot'[q].op # "none" \/ slot'[q].pc # "free" => slot'[q] = slot[q]
      BY <1>a
  <2>2. InService'
    <3> SUFFICES ASSUME NEW q \in Slots, slot'[q].op # "none" \/ slot'[q].pc # "free"
                 PROVE  /\ slot'[q].op = "upload" =>
                               /\ slot'[q].key.n \in 1 .. uploads
                               /\ slot'[q].img = 0 \/ slot'[q].img \in DOMAIN images'
                               /\ slot'[q].f \in Files
                               /\ slot'[q].pc = "put" => slot'[q].img = 0
                        /\ slot'[q].op = "view" => slot'[q].img \in DOMAIN images'
                        /\ slot'[q].pc # "free" => slot'[q].op # "none"
                        /\ slot'[q].pc = "put" => slot'[q].op = "upload"
        BY DEF InService
    <3>1. slot'[q] = slot[q]
        BY <2>1
    <3>2. slot[q].img \in DOMAIN images => slot[q].img \in DOMAIN images'
        BY <1>1
    <3> QED BY <3>1, <3>2 DEF OwnedInv, InService
  <2>3. OwnKeys'
    <3> SUFFICES ASSUME NEW p \in Slots, NEW q \in Slots, p # q,
                        slot'[p].op = "upload", slot'[q].op = "upload"
                 PROVE  slot'[p].key.n # slot'[q].key.n
        BY DEF OwnKeys
    <3>1. slot'[p] = slot[p] /\ slot'[q] = slot[q]
        BY <2>1
    <3> QED BY <3>1 DEF OwnedInv, OwnKeys
  <2> QED BY <2>2, <2>3
<1>5. Stored'
  <2>1. \A i \in DOMAIN images' :
            ~images'[i].wiped /\ images'[i].ref # NoKey => images'[i].ref \in objects'
      BY <1>1 DEF OwnedInv, Stored
  <2>2. \A q \in Slots :
            slot'[q].pc = "commit" /\ (slot'[q].img = 0 \/ ~images'[slot'[q].img].wiped) =>
                slot'[q].key \in objects'
    <3> SUFFICES ASSUME NEW q \in Slots, slot'[q].pc = "commit",
                        slot'[q].img = 0 \/ ~images'[slot'[q].img].wiped
                 PROVE  slot'[q].key \in objects'
        OBVIOUS
    <3>1. slot'[q] = slot[q]
        BY <1>a
    <3>2. slot[q].img = 0 \/ slot[q].img \in DOMAIN images
        BY <3>1 DEF OwnedInv, InService, Typed, Served
    <3>3. slot[q].img = 0 \/ ~images[slot[q].img].wiped
        BY <1>2, <3>1, <3>2
    <3> QED BY <3>1, <3>3 DEF OwnedInv, Stored
  <2>3. wipe.pc = "deleted" => \A i \in wipe.rows : images'[i].wiped
      BY <1>2 DEF OwnedInv, Stored, Typed
  <2> QED BY <2>1, <2>2, <2>3 DEF Stored
<1>6. Owned(owner)'
    BY <1>1, <1>a DEF OwnedInv, Owned
<1> QED BY <1>3, <1>4, <1>5, <1>6 DEF OwnedInv

\* A record made with a key that had no record yet, or with none.
LEMMA RecordMade ==
    ASSUME NEW owner \in [Nat -> Nat], OwnedInv(owner), NEW owner2 \in [Nat -> Nat],
           NEW row \in ImageRow, images' = Append(images, row),
           row.ref # NoKey => row.ref \in objects /\ owner2[row.ref.n] = Len(images) + 1,
           \A n \in Nat : n > uploads => owner2[n] = 0,
           \A n \in Nat : \/ owner2[n] = owner[n]
                          \/ owner[n] = 0 /\ n = row.ref.n,
           UNCHANGED <<objects, uploads, wipe, backfill>>,
           slot' \in [Slots -> Served],
           \A q \in Slots : slot'[q] = slot[q] \/ slot'[q] = Free,
           \A q \in Slots : slot'[q].op # "none" =>
                                owner2[slot[q].key.n] = owner[slot[q].key.n]
    PROVE  OwnedInv(owner2)'
<1>1. /\ images' \in Seq(ImageRow) /\ DOMAIN images' = DOMAIN images \cup {Len(images) + 1}
      /\ \A i \in DOMAIN images : images'[i] = images[i]
      /\ images'[Len(images) + 1] = row
      /\ DOMAIN images \subseteq Nat \ {0}
    BY RowAdded DEF OwnedInv, Typed
<1>2. Free.op = "none" /\ Free.pc = "free"
    BY DEF Free
<1>3. Typed'
    BY <1>1 DEF OwnedInv, Typed
<1>4. InService' /\ OwnKeys'
  <2>1. \A q \in Slots : slot'[q].op # "none" \/ slot'[q].pc # "free" => slot'[q] = slot[q]
      BY <1>2
  <2>2. InService'
    <3> SUFFICES ASSUME NEW q \in Slots, slot'[q].op # "none" \/ slot'[q].pc # "free"
                 PROVE  /\ slot'[q].op = "upload" =>
                               /\ slot'[q].key.n \in 1 .. uploads
                               /\ slot'[q].img = 0 \/ slot'[q].img \in DOMAIN images'
                               /\ slot'[q].f \in Files
                               /\ slot'[q].pc = "put" => slot'[q].img = 0
                        /\ slot'[q].op = "view" => slot'[q].img \in DOMAIN images'
                        /\ slot'[q].pc # "free" => slot'[q].op # "none"
                        /\ slot'[q].pc = "put" => slot'[q].op = "upload"
        BY DEF InService
    <3>1. slot'[q] = slot[q]
        BY <2>1
    <3>2. slot[q].img \in DOMAIN images => slot[q].img \in DOMAIN images'
        BY <1>1
    <3> QED BY <3>1, <3>2 DEF OwnedInv, InService
  <2>3. OwnKeys'
    <3> SUFFICES ASSUME NEW p \in Slots, NEW q \in Slots, p # q,
                        slot'[p].op = "upload", slot'[q].op = "upload"
                 PROVE  slot'[p].key.n # slot'[q].key.n
        BY DEF OwnKeys
    <3>1. slot'[p] = slot[p] /\ slot'[q] = slot[q]
        BY <2>1
    <3> QED BY <3>1 DEF OwnedInv, OwnKeys
  <2> QED BY <2>2, <2>3
<1>5. Stored'
  <2>1. \A i \in DOMAIN images' :
            ~images'[i].wiped /\ images'[i].ref # NoKey => images'[i].ref \in objects'
      BY <1>1 DEF OwnedInv, Stored
  <2>2. \A q \in Slots :
            slot'[q].pc = "commit" /\ (slot'[q].img = 0 \/ ~images'[slot'[q].img].wiped) =>
                slot'[q].key \in objects'
    <3> SUFFICES ASSUME NEW q \in Slots, slot'[q].pc = "commit",
                        slot'[q].img = 0 \/ ~images'[slot'[q].img].wiped
                 PROVE  slot'[q].key \in objects'
        OBVIOUS
    <3>1. slot'[q] = slot[q]
        BY <1>2
    <3>2. slot[q].img = 0 \/ slot[q].img \in DOMAIN images
        BY <3>1 DEF OwnedInv, InService, Typed, Served
    <3>3. slot[q].img = 0 \/ ~images[slot[q].img].wiped
        BY <1>1, <3>1, <3>2
    <3> QED BY <3>1, <3>3 DEF OwnedInv, Stored
  <2>3. wipe.pc = "deleted" => \A i \in wipe.rows : images'[i].wiped
      BY <1>1 DEF OwnedInv, Stored, Typed
  <2> QED BY <2>1, <2>2, <2>3 DEF Stored
<1>6. Owned(owner2)'
  <2>1. \A k \in DOMAIN images : images[k] \in ImageRow
      BY RecordNumbers DEF OwnedInv, Typed
  <2>2. \A k \in DOMAIN images : images[k].ref # NoKey => owner2[images[k].ref.n] = k
      BY <1>1, <2>1 DEF OwnedInv, Owned, ImageRow, AnyKey
  <2>3. \A k \in DOMAIN images' : images'[k].ref # NoKey => owner2[images'[k].ref.n] = k
      BY <1>1, <2>2
  <2>4. \A p \in Slots : slot'[p].op # "none" => owner2[slot'[p].key.n] = slot'[p].img
      BY <1>2 DEF OwnedInv, Owned
  <2>5. \A item \in backfill.todo : owner2[item[2].n] = item[1]
    <3> SUFFICES ASSUME NEW item \in backfill.todo PROVE owner2[item[2].n] = item[1]
        OBVIOUS
    <3>1. item \in (DOMAIN images) \X AnyKey /\ owner[item[2].n] = item[1]
        BY DEF OwnedInv, Owned, Typed
    <3>2. item[1] \in DOMAIN images /\ item[2] \in AnyKey
        BY <3>1
    <3>3. owner[item[2].n] # 0 /\ item[2].n \in Nat
        BY <1>1, <3>1, <3>2 DEF AnyKey
    <3> QED BY <3>1, <3>3
  <2>6. \A key \in wipe.keys : owner2[key.n] \in wipe.rows
    <3> SUFFICES ASSUME NEW key \in wipe.keys PROVE owner2[key.n] \in wipe.rows
        OBVIOUS
    <3>1. owner[key.n] \in wipe.rows /\ owner[key.n] # 0 /\ key.n \in Nat
        BY <1>1 DEF OwnedInv, Owned, Typed, AnyKey
    <3> QED BY <3>1
  <2> QED BY <2>3, <2>4, <2>5, <2>6 DEF Owned
<1> QED BY <1>3, <1>4, <1>5, <1>6 DEF OwnedInv

\* Steps that move no key and no record.
LEMMA NothingMoves ==
    ASSUME NEW owner \in [Nat -> Nat], OwnedInv(owner),
           objects \subseteq objects', UNCHANGED <<images, uploads, wipe>>,
           backfill'.todo \subseteq backfill.todo,
           slot' \in [Slots -> Served],
           \A q \in Slots : /\ slot'[q].op = slot[q].op /\ slot'[q].key = slot[q].key
                            /\ slot'[q].img = slot[q].img /\ slot'[q].pc = slot[q].pc
                            /\ slot'[q].f = slot[q].f
    PROVE  OwnedInv(owner)'
<1>1. Typed'
    BY DEF OwnedInv, Typed
<1>2. InService'
    BY DEF OwnedInv, InService
<1>4. OwnKeys'
    BY DEF OwnedInv, OwnKeys
<1>5. Stored'
    BY DEF OwnedInv, Stored
<1>3. Owned(owner)'
    BY DEF OwnedInv, Owned
<1> QED BY <1>1, <1>2, <1>3, <1>4, <1>5 DEF OwnedInv

\* A slot that takes up a key that is its own, or whose owner it works on.
LEMMA SlotTaken ==
    ASSUME NEW owner \in [Nat -> Nat], OwnedInv(owner), NEW owner2 \in [Nat -> Nat],
           NEW q \in Slots, NEW s \in Served, slot' = [slot EXCEPT ![q] = s],
           UNCHANGED <<images, backfill, wipe>>,
           objects \subseteq objects', uploads' \in Nat, uploads' >= uploads,
           \A n \in Nat : n > uploads' => owner2[n] = 0,
           \A n \in Nat : \/ owner2[n] = owner[n]
                          \/ owner[n] = 0 /\ s.op = "upload" /\ n = s.key.n,
           owner2[s.key.n] = s.img,
           s.op = "upload" =>
               /\ s.key.n \in 1 .. uploads'
               /\ s.img = 0 \/ s.img \in DOMAIN images
               /\ s.f \in Files
               /\ s.pc = "put" => s.img = 0
               /\ \A p \in Slots \ {q} : slot[p].op = "upload" => slot[p].key.n # s.key.n,
           s.op = "view" => s.img \in DOMAIN images /\ s.pc = "commit",
           s.op # "none",
           s.pc = "commit" /\ (s.img = 0 \/ ~images[s.img].wiped) => s.key \in objects'
    PROVE  OwnedInv(owner2)'
<1>1. /\ slot' \in [Slots -> Served] /\ slot'[q] = s
      /\ \A p \in Slots \ {q} : slot'[p] = slot[p]
    BY DEF OwnedInv, Typed
<1>2. Typed'
    BY <1>1 DEF OwnedInv, Typed
<1>3. InService'
  <2>1. \A n \in 1 .. uploads : n \in 1 .. uploads'
    <3>1. uploads \in Nat
        BY DEF OwnedInv, Typed
    <3> QED BY <3>1
  <2>2. s.op \in {"upload", "view"}
      BY DEF Served
  <2> QED BY <1>1, <2>1, <2>2 DEF OwnedInv, InService
<1>4. OwnKeys'
    BY <1>1 DEF OwnedInv, OwnKeys
<1>5. Stored'
    BY <1>1 DEF OwnedInv, Stored
<1>6. Owned(owner2)'
  <2>1. DOMAIN images \subseteq Nat \ {0} /\ \A k \in DOMAIN images : images[k] \in ImageRow
      BY RecordNumbers DEF OwnedInv, Typed
  <2>2. \A k \in DOMAIN images : images[k].ref # NoKey => owner2[images[k].ref.n] = k
      BY <2>1 DEF OwnedInv, Owned, ImageRow, AnyKey
  <2>3. ASSUME NEW p \in Slots, slot'[p].op # "none" PROVE owner2[slot'[p].key.n] = slot'[p].img
    <3>1. CASE p = q
        BY <1>1, <3>1
    <3>2. CASE p # q
      <4>1. slot'[p] = slot[p] /\ slot[p] \in Served /\ owner[slot[p].key.n] = slot[p].img
          BY <1>1, <2>3, <3>2 DEF OwnedInv, Owned, Typed
      <4>2. CASE slot[p].op = "upload"
          BY <3>2, <4>1, <4>2 DEF Served, AnyKey
      <4>3. CASE slot[p].op = "view"
          BY <2>1, <4>1, <4>3 DEF OwnedInv, InService, Served, AnyKey
      <4> QED BY <2>3, <4>1, <4>2, <4>3 DEF Served
    <3> QED BY <3>1, <3>2
  <2>4. \A item \in backfill.todo : owner2[item[2].n] = item[1]
    <3> SUFFICES ASSUME NEW item \in backfill.todo PROVE owner2[item[2].n] = item[1]
        OBVIOUS
    <3>1. item \in (DOMAIN images) \X AnyKey /\ owner[item[2].n] = item[1]
        BY DEF OwnedInv, Owned, Typed
    <3>2. item[1] \in DOMAIN images /\ item[2] \in AnyKey
        BY <3>1
    <3>3. owner[item[2].n] # 0 /\ item[2].n \in Nat
        BY <2>1, <3>1, <3>2 DEF AnyKey
    <3> QED BY <3>1, <3>3
  <2>5. \A key \in wipe.keys : owner2[key.n] \in wipe.rows
    <3> SUFFICES ASSUME NEW key \in wipe.keys PROVE owner2[key.n] \in wipe.rows
        OBVIOUS
    <3>1. owner[key.n] \in wipe.rows /\ owner[key.n] # 0 /\ key.n \in Nat
        BY <2>1 DEF OwnedInv, Owned, Typed, AnyKey
    <3> QED BY <3>1
  <2> QED BY <2>2, <2>3, <2>4, <2>5 DEF Owned
<1> QED BY <1>2, <1>3, <1>4, <1>5, <1>6 DEF OwnedInv

-----------------------------------------------------------------------------
(* The uploader and the requests.                                          *)

LEMMA SendInv ==
    ASSUME NEW owner \in [Nat -> Nat], OwnedInv(owner),
           NEW f \in Files, NEW q \in Slots, Send(f, q)
    PROVE  OwnedInv(owner)'
<1> DEFINE s == [op |-> "upload", f |-> f, key |-> ImageKey(uploads + 1, f),
                 img |-> 0, pc |-> "put", heard |-> TRUE]
<1>1. uploads \in Nat
    BY DEF OwnedInv, Typed
<1>2. s \in Served /\ s.key.n = uploads + 1
    BY <1>1, KeyTypes DEF Served
<1>3. /\ slot' = [slot EXCEPT ![q] = s] /\ uploads' = uploads + 1
      /\ UNCHANGED <<objects, images, backfill, wipe>>
    BY DEF Send, Scripts
<1>4. /\ s.op = "upload" /\ s.img = 0 /\ s.pc = "put" /\ s.f \in Files
    OBVIOUS
<1> HIDE DEF s
<1>5. owner[s.key.n] = 0 /\ \A n \in Nat : n > uploads' => owner[n] = 0
    BY <1>1, <1>2, <1>3 DEF OwnedInv, Owned
<1>6. \A p \in Slots \ {q} : slot[p].op = "upload" => slot[p].key.n # s.key.n
    BY <1>1, <1>2 DEF OwnedInv, InService
<1>7. s.key.n \in 1 .. uploads' /\ uploads' \in Nat /\ uploads' >= uploads
    BY <1>1, <1>2, <1>3
<1> QED BY <1>2, <1>3, <1>4, <1>5, <1>6, <1>7, SlotTaken

LEMMA PutInv ==
    ASSUME NEW owner \in [Nat -> Nat], OwnedInv(owner),
           NEW q \in Slots, PutFindConvert(q)
    PROVE  IngestInv'
<1> DEFINE s == slot[q]
           found == Matching(s.f)
<1>1. /\ s \in Served /\ s.pc = "put" /\ s.op = "upload" /\ s.img = 0 /\ s.f \in Files
      /\ s.key.n \in 1 .. uploads /\ owner[s.key.n] = 0 /\ uploads \in Nat
    BY DEF PutFindConvert, OwnedInv, Typed, InService, Owned
<1>2. UNCHANGED <<images, uploads, backfill, wipe>>
    BY DEF PutFindConvert, Scripts
<1>3. CASE Cardinality(found) > 1
  <2>1. slot' = [slot EXCEPT ![q] = Free] /\ objects \subseteq objects'
      BY <1>3 DEF PutFindConvert, RaisesOnTwo, Answers
  <2>2. OwnedInv(owner)'
      BY <1>2, <2>1, SlotFreed
  <2> QED BY <2>2 DEF IngestInv
<1>4. CASE ~(Cardinality(found) > 1)
  <2>1. PICK key \in {s.key, Converted(s.key, s.f)} :
            /\ objects' = objects \cup {s.key, key}
            /\ slot' = [slot EXCEPT ![q].pc = "commit", ![q].key = key,
                                    ![q].img = IF found = {} THEN 0
                                               ELSE CHOOSE k \in found : TRUE]
      BY <1>4 DEF PutFindConvert
  <2> DEFINE img == IF found = {} THEN 0 ELSE CHOOSE k \in found : TRUE
             t == [s EXCEPT !.pc = "commit", !.key = key, !.img = img]
  <2>2. key \in AnyKey /\ key.n = s.key.n /\ s.key.n \in Nat
      BY <1>1, ConvertedType DEF Served, AnyKey
  <2>3. found \subseteq DOMAIN images
      BY DEF Matching
  <2>4. img = 0 \/ img \in DOMAIN images
      BY <2>3
  <2>5. img \in Nat
      BY <2>4, RecordNumbers DEF OwnedInv, Typed
  <2> HIDE DEF img
  <2>6. slot' = [slot EXCEPT ![q] = t]
      BY <2>1 DEF img
  <2>7. /\ t \in Served /\ t.op = "upload" /\ t.pc = "commit" /\ t.img = img /\ t.key = key
        /\ t.f \in Files
      BY <1>1, <2>2, <2>5 DEF Served
  <2> HIDE DEF t
  <2>8. PICK owner2 \in [Nat -> Nat] :
            /\ owner2[t.key.n] = t.img
            /\ \A n \in Nat : n # s.key.n => owner2[n] = owner[n]
    <3>1. [owner EXCEPT ![s.key.n] = img] \in [Nat -> Nat]
        BY <2>5
    <3> WITNESS [owner EXCEPT ![s.key.n] = img] \in [Nat -> Nat]
    <3> QED BY <2>2, <2>5, <2>7
  <2>9. \A n \in Nat : n > uploads' => owner2[n] = 0
      BY <1>1, <1>2, <2>8 DEF OwnedInv, Owned
  <2>10. \A p \in Slots \ {q} : slot[p].op = "upload" => slot[p].key.n # t.key.n
      BY <1>1, <2>2, <2>7 DEF OwnedInv, OwnKeys
  <2>11. \A n \in Nat : \/ owner2[n] = owner[n]
                        \/ owner[n] = 0 /\ t.op = "upload" /\ n = t.key.n
      BY <1>1, <2>2, <2>7, <2>8
  <2>12. t.key \in objects' /\ objects \subseteq objects'
      BY <2>1, <2>7
  <2>13. t.key.n \in 1 .. uploads' /\ uploads' \in Nat /\ uploads' >= uploads
      BY <1>1, <1>2, <2>2, <2>7
  <2>14. /\ t.op # "none" /\ t.op # "view" /\ t.pc # "put"
         /\ t.img = 0 \/ t.img \in DOMAIN images
      BY <2>4, <2>7
  <2>15. OwnedInv(owner2)'
    <3> HIDE DEF s, found
    <3> QED BY <1>2, <2>6, <2>7, <2>8, <2>9, <2>10, <2>11, <2>12, <2>13, <2>14, SlotTaken
  <2> QED BY <2>8, <2>15 DEF IngestInv
<1> QED BY <1>3, <1>4

LEMMA BeginViewInv ==
    ASSUME NEW owner \in [Nat -> Nat], OwnedInv(owner),
           NEW q \in Slots, NEW k \in DOMAIN images, BeginView(q, k)
    PROVE  OwnedInv(owner)'
<1> DEFINE key == images[k].ref
           s == [op |-> "view", f |-> images[k].f, key |-> Derived(key),
                 img |-> k, pc |-> "commit", heard |-> FALSE]
<1>1. images[k] \in ImageRow /\ k \in Nat
    BY RecordNumbers DEF OwnedInv, Typed
<1>2. key \in AnyKey /\ key # NoKey
    BY <1>1, ConvertedType, KeyTypes DEF BeginView, ImageRow
<1>3. Derived(key) \in AnyKey /\ Derived(key).n = key.n
    BY <1>2, KeyTypes
<1>4. s \in Served /\ s.key.n = key.n
    BY <1>1, <1>3 DEF Served, ImageRow
<1>5. /\ slot' = [slot EXCEPT ![q] = s]
      /\ objects' = objects \cup {Derived(key)}
      /\ UNCHANGED <<images, uploads, backfill, wipe>>
    BY DEF BeginView, Scripts
<1>6. s.op = "view" /\ s.img = k /\ s.pc = "commit" /\ s.key = Derived(key)
    OBVIOUS
<1>7. owner[key.n] = k
    BY <1>2 DEF OwnedInv, Owned
<1> HIDE DEF s, key
<1>8. /\ uploads' \in Nat /\ uploads' >= uploads
      /\ \A n \in Nat : n > uploads' => owner[n] = 0
    BY <1>5 DEF OwnedInv, Typed, Owned
<1>9. s.key \in objects' /\ objects \subseteq objects'
    BY <1>5, <1>6
<1> QED BY <1>4, <1>5, <1>6, <1>7, <1>8, <1>9, SlotTaken

\* Answers gives the slot up.
LEMMA AnswersFrees ==
    ASSUME NEW owner \in [Nat -> Nat], OwnedInv(owner),
           NEW q \in Slots, NEW ok, Answers(q, ok)
    PROVE  /\ slot' = [slot EXCEPT ![q] = Free]
           /\ slot' \in [Slots -> Served]
           /\ slot'[q].op = "none"
           /\ \A p \in Slots : slot'[p] = slot[p] \/ slot'[p] = Free
<1>1. slot' = [slot EXCEPT ![q] = Free] /\ slot \in [Slots -> Served]
    BY DEF Answers, OwnedInv, Typed
<1> QED BY <1>1, KeyTypes DEF Free

LEMMA CommitUploadInv ==
    ASSUME NEW owner \in [Nat -> Nat], OwnedInv(owner),
           NEW q \in Slots, CommitUpload(q)
    PROVE  IngestInv'
<1> DEFINE s == slot[q]
<1>1. /\ s \in Served /\ s.pc = "commit" /\ s.op = "upload"
      /\ s.img = 0 \/ s.img \in DOMAIN images
      /\ s.key.n \in 1 .. uploads /\ owner[s.key.n] = s.img
      /\ uploads \in Nat /\ s.key \in AnyKey /\ s.key.n \in Nat
    BY DEF CommitUpload, OwnedInv, Typed, InService, Owned, Served, AnyKey
<1>2. UNCHANGED <<objects, uploads, backfill, wipe>>
    BY DEF CommitUpload, Scripts
<1>3. CASE s.img = 0
  <2> DEFINE row == Image(s.f, s.key)
  <2>1. images' = Append(images, row) /\ Answers(q, TRUE)
      BY <1>3 DEF CommitUpload
  <2>2. row \in ImageRow /\ row.ref = s.key
    <3>1. s.f \in Files
        BY <1>1 DEF OwnedInv, InService
    <3> QED BY <1>1, <3>1 DEF ImageRow, Image, AnyKey
  <2>3. s.key \in objects
      BY <1>1, <1>3 DEF OwnedInv, Stored
  <2>4. Len(images) + 1 \in Nat
      BY <2>2, RowAdded DEF OwnedInv, Typed
  <2>5. PICK owner2 \in [Nat -> Nat] :
            /\ owner2[s.key.n] = Len(images) + 1
            /\ \A n \in Nat : n # s.key.n => owner2[n] = owner[n]
    <3> DEFINE m == s.key.n
    <3>1. m \in Nat
        BY <1>1
    <3> HIDE DEF m, s
    <3>2. [owner EXCEPT ![m] = Len(images) + 1] \in [Nat -> Nat]
        BY <2>4
    <3>3. \E o \in [Nat -> Nat] : /\ o[m] = Len(images) + 1
                                   /\ \A n \in Nat : n # m => o[n] = owner[n]
        BY <3>1, <3>2
    <3> QED BY <3>3 DEF m
  <2>6. \A n \in Nat : n > uploads => owner2[n] = 0
    <3>1. \A n \in Nat : n > uploads => n # s.key.n /\ owner[n] = 0
        BY <1>1 DEF OwnedInv, Owned
    <3> QED BY <2>5, <3>1
  <2>7. \A n \in Nat : owner2[n] = owner[n] \/ (owner[n] = 0 /\ n = row.ref.n)
      BY <1>1, <1>3, <2>2, <2>5
  <2>8. /\ slot' \in [Slots -> Served] /\ slot'[q].op = "none"
        /\ \A p \in Slots : slot'[p] = slot[p] \/ slot'[p] = Free
      BY <2>1, AnswersFrees
  <2>9. ASSUME NEW p \in Slots, slot'[p].op # "none"
        PROVE  owner2[slot[p].key.n] = owner[slot[p].key.n]
    <3>0. Free.op = "none"
        BY DEF Free
    <3>1. p # q /\ slot[p] = slot'[p] /\ slot[p] \in Served
        BY <2>8, <2>9, <3>0 DEF OwnedInv, Typed
    <3>2. slot[p].key.n \in Nat /\ slot[p].op \in {"upload", "view"}
        BY <2>9, <3>1 DEF Served, AnyKey
    <3>3. slot[p].key.n # s.key.n
      <4>1. CASE slot[p].op = "upload"
          BY <1>1, <3>1, <4>1 DEF OwnedInv, OwnKeys
      <4>2. CASE slot[p].op = "view"
        <5>1. owner[slot[p].key.n] = slot[p].img /\ slot[p].img \in DOMAIN images
            BY <4>2 DEF OwnedInv, Owned, InService
        <5>2. 0 \notin DOMAIN images
            BY RecordNumbers DEF OwnedInv, Typed
        <5> QED BY <1>1, <1>3, <5>1, <5>2
      <4> QED BY <3>2, <4>1, <4>2
    <3> QED BY <2>5, <3>2, <3>3
  <2> HIDE DEF row
  <2>10. OwnedInv(owner2)'
    <3> HIDE DEF s
    <3> QED BY <1>2, <2>1, <2>2, <2>3, <2>5, <2>6, <2>7, <2>8, <2>9, RecordMade
  <2> QED BY <2>10 DEF IngestInv
<1>4. CASE s.img # 0
  <2>1. s.img \in DOMAIN images /\ images[s.img] \in ImageRow
      BY <1>1, <1>4, RecordNumbers DEF OwnedInv, Typed
  <2>2. CASE Live(s.img)
    <3> DEFINE row == [images[s.img] EXCEPT !.ref = s.key, !.last = s.key.n]
    <3>1. images' = [images EXCEPT ![s.img] = row] /\ Answers(q, TRUE)
      <4>1. /\ images' = [images EXCEPT ![s.img].ref = s.key, ![s.img].last = s.key.n]
            /\ Answers(q, Live(s.img))
          BY <1>4, <2>2 DEF CommitUpload
      <4>2. Answers(q, TRUE)
          BY <2>2, <4>1 DEF Answers
      <4> QED BY <2>1, <4>1, <4>2
    <3>2. /\ row \in ImageRow /\ row.ref = s.key /\ row.wiped = images[s.img].wiped
        BY <1>1, <2>1 DEF ImageRow, AnyKey
    <3>3. ~images[s.img].wiped /\ s.key \in objects
        BY <1>1, <2>2 DEF Live, OwnedInv, Stored
    <3>4. /\ slot' \in [Slots -> Served]
          /\ \A p \in Slots : slot'[p] = slot[p] \/ slot'[p] = Free
        BY <3>1, AnswersFrees
    <3> HIDE DEF row
    <3>5. OwnedInv(owner)'
        BY <1>1, <1>2, <2>1, <3>1, <3>2, <3>3, <3>4, RecordRepointed
    <3> QED BY <3>5 DEF IngestInv
  <2>3. CASE ~Live(s.img)
    <3>1. UNCHANGED images /\ Answers(q, Live(s.img))
        BY <1>4, <2>3 DEF CommitUpload
    <3>2. slot' = [slot EXCEPT ![q] = Free]
        BY <3>1 DEF Answers
    <3>3. OwnedInv(owner)'
        BY <1>2, <3>1, <3>2, SlotFreed
    <3> QED BY <3>3 DEF IngestInv
  <2> QED BY <2>2, <2>3
<1> QED BY <1>3, <1>4

LEMMA CommitViewInv ==
    ASSUME NEW owner \in [Nat -> Nat], OwnedInv(owner),
           NEW q \in Slots, CommitView(q)
    PROVE  OwnedInv(owner)'
<1> DEFINE s == slot[q]
<1>1. /\ s \in Served /\ s.pc = "commit" /\ s.img \in DOMAIN images
      /\ owner[s.key.n] = s.img /\ s.key \in AnyKey
    BY DEF CommitView, OwnedInv, Typed, InService, Owned, Served
<1>2. /\ UNCHANGED <<objects, uploads, backfill, wipe>>
      /\ images' = Repointed(s.img, s.key) /\ Answers(q, TRUE)
    BY DEF CommitView, Scripts
<1>3. images[s.img] \in ImageRow
    BY <1>1, RecordNumbers DEF OwnedInv, Typed
<1>4. CASE Live(s.img)
  <2> DEFINE row == [images[s.img] EXCEPT !.ref = s.key]
  <2>1. images' = [images EXCEPT ![s.img] = row]
      BY <1>2, <1>4 DEF Repointed
  <2>2. row \in ImageRow /\ row.ref = s.key /\ row.wiped = images[s.img].wiped
      BY <1>1, <1>3 DEF ImageRow
  <2>3. ~images[s.img].wiped /\ s.key \in objects
      BY <1>1, <1>4 DEF Live, OwnedInv, Stored
  <2>4. /\ slot' \in [Slots -> Served]
        /\ \A p \in Slots : slot'[p] = slot[p] \/ slot'[p] = Free
      BY <1>2, AnswersFrees
  <2> HIDE DEF row, s
  <2> QED BY <1>1, <1>2, <2>1, <2>2, <2>3, <2>4, RecordRepointed
<1>5. CASE ~Live(s.img)
  <2>1. UNCHANGED images
      BY <1>2, <1>5 DEF Repointed
  <2> QED BY <1>2, <2>1, SlotFreed DEF Answers
<1> QED BY <1>4, <1>5

LEMMA RaisesInInv ==
    ASSUME NEW owner \in [Nat -> Nat], OwnedInv(owner),
           NEW q \in Slots, RaisesIn(q)
    PROVE  OwnedInv(owner)'
BY SlotFreed DEF RaisesIn, Answers, Scripts

LEMMA IngestJsonInv ==
    ASSUME NEW owner \in [Nat -> Nat], OwnedInv(owner),
           NEW f \in Files, IngestJson(f)
    PROVE  OwnedInv(owner)'
<1> DEFINE row == Image(f, NoKey)
<1>1. row \in ImageRow /\ row.ref = NoKey
    BY KeyTypes DEF ImageRow, Image, NoKey
<1>2. /\ images' = Append(images, row)
      /\ UNCHANGED <<objects, uploads, wipe, backfill, slot>>
    BY DEF IngestJson, Scripts
<1>3. slot \in [Slots -> Served] /\ \A n \in Nat : n > uploads => owner[n] = 0
    BY DEF OwnedInv, Typed, Owned
<1> HIDE DEF row
<1> QED BY <1>1, <1>2, <1>3, RecordMade

\* The uploader's own steps: a request that is given up on goes on.
LEMMA UploaderInv ==
    ASSUME NEW owner \in [Nat -> Nat], OwnedInv(owner),
           \/ TokenExpires \/ RerunUploader
           \/ \E f \in Files : \/ Refresh(f) \/ RefusedAgain(f)
                               \/ RefreshFails(f) \/ TimesOutUpload(f)
    PROVE  OwnedInv(owner)'
<1>1. slot \in [Slots -> Served]
    BY DEF OwnedInv, Typed
<1>2. ASSUME UNCHANGED <<objects, images, slot, uploads, Scripts>>
      PROVE  OwnedInv(owner)'
    BY <1>1, <1>2, NothingMoves DEF Scripts
<1>3. CASE TokenExpires
    BY <1>2, <1>3 DEF TokenExpires
<1>4. ASSUME NEW p \in SUBSET Slots,
             slot' = [q \in Slots |-> IF q \in p THEN [slot[q] EXCEPT !.heard = FALSE]
                                      ELSE slot[q]],
             UNCHANGED <<objects, images, uploads, Scripts>>
      PROVE  OwnedInv(owner)'
  <2>1. slot' \in [Slots -> Served]
      BY <1>1, <1>4 DEF Served
  <2>2. \A q \in Slots : /\ slot'[q].op = slot[q].op /\ slot'[q].key = slot[q].key
                         /\ slot'[q].img = slot[q].img /\ slot'[q].pc = slot[q].pc
                         /\ slot'[q].f = slot[q].f
      BY <1>1, <1>4 DEF Served
  <2> QED BY <1>4, <2>1, <2>2, NothingMoves DEF Scripts
<1>5. CASE RerunUploader
  <2>1. /\ slot' = [q \in Slots |-> IF q \in Slots THEN [slot[q] EXCEPT !.heard = FALSE]
                                    ELSE slot[q]]
        /\ UNCHANGED <<objects, images, uploads, Scripts>>
      BY <1>5 DEF RerunUploader
  <2> QED BY <1>4, <2>1
<1>6. ASSUME NEW f \in Files, Refresh(f) \/ RefusedAgain(f) \/ RefreshFails(f)
      PROVE  OwnedInv(owner)'
    BY <1>2, <1>6 DEF Refresh, RefusedAgain, RefreshFails
<1>7. ASSUME NEW f \in Files, TimesOutUpload(f) PROVE OwnedInv(owner)'
  <2> DEFINE p == {q \in Slots : slot[q].f = f}
  <2>1. /\ slot' = [q \in Slots |-> IF q \in p THEN [slot[q] EXCEPT !.heard = FALSE]
                                    ELSE slot[q]]
        /\ UNCHANGED <<objects, images, uploads, Scripts>>
      BY <1>7 DEF TimesOutUpload
  <2>2. p \in SUBSET Slots
      OBVIOUS
  <2> HIDE DEF p
  <2>3. PICK r \in SUBSET Slots :
            slot' = [q \in Slots |-> IF q \in r THEN [slot[q] EXCEPT !.heard = FALSE]
                                     ELSE slot[q]]
      BY <2>1, <2>2
  <2> QED BY <1>4, <2>1, <2>3
<1> QED BY <1>3, <1>5, <1>6, <1>7

-----------------------------------------------------------------------------
(* The scripts.                                                            *)

LEMMA BackfillSelectInv ==
    ASSUME NEW owner \in [Nat -> Nat], OwnedInv(owner), BackfillSelect
    PROVE  OwnedInv(owner)'
<1>1. /\ UNCHANGED <<objects, images, slot, uploads, wipe>>
      /\ backfill'.todo = {<<k, images[k].ref>> : k \in StillTiff}
    BY DEF BackfillSelect
<1>2. \A k \in StillTiff : /\ k \in DOMAIN images /\ images[k].ref \in AnyKey
                           /\ owner[images[k].ref.n] = k
  <2> SUFFICES ASSUME NEW k \in StillTiff
               PROVE  /\ k \in DOMAIN images /\ images[k].ref \in AnyKey
                      /\ owner[images[k].ref.n] = k
      OBVIOUS
  <2>1. k \in DOMAIN images /\ images[k].ref.ext = "tif"
      BY DEF StillTiff
  <2>2. images[k].ref \in AnyKey
      BY <2>1, RecordNumbers DEF OwnedInv, Typed, ImageRow
  <2>3. images[k].ref # NoKey
      BY <2>1, <2>2, KeyTypes
  <2> QED BY <2>1, <2>2, <2>3 DEF OwnedInv, Owned
<1>3. Typed'
  <2>1. backfill'.todo \in SUBSET ((DOMAIN images) \X AnyKey)
      BY <1>1, <1>2
  <2> QED BY <1>1, <2>1 DEF OwnedInv, Typed
<1>4. InService' /\ OwnKeys' /\ Stored'
    BY <1>1 DEF OwnedInv, InService, OwnKeys, Stored
<1>5. \A item \in backfill'.todo : owner[item[2].n] = item[1]
    BY <1>1, <1>2
<1>6. Owned(owner)'
    BY <1>1, <1>5 DEF OwnedInv, Owned
<1> QED BY <1>3, <1>4, <1>6 DEF OwnedInv

LEMMA BackfillConvertInv ==
    ASSUME NEW owner \in [Nat -> Nat], OwnedInv(owner),
           NEW item \in backfill.todo, BackfillConvert(item[1], item[2])
    PROVE  OwnedInv(owner)'
<1> DEFINE k == item[1]
           key == Derived(item[2])
<1>1. /\ k \in DOMAIN images /\ item[2] \in AnyKey /\ owner[item[2].n] = k
      /\ slot \in [Slots -> Served]
    BY DEF OwnedInv, Typed, Owned
<1>2. key \in AnyKey /\ key.n = item[2].n
    BY <1>1, KeyTypes
<1>3. images[k] \in ImageRow
    BY <1>1, RecordNumbers DEF OwnedInv, Typed
<1>4. /\ objects' = objects \cup {key} /\ images' = Repointed(k, key)
      /\ UNCHANGED <<slot, uploads, wipe>>
      /\ backfill' = IF Live(k) THEN [backfill EXCEPT !.todo = @ \ {<<k, item[2]>>}]
                     ELSE [pc |-> "died", todo |-> {}]
    BY DEF BackfillConvert
<1>5. CASE Live(k)
  <2> DEFINE row == [images[k] EXCEPT !.ref = key]
  <2>1. images' = [images EXCEPT ![k] = row]
      BY <1>4, <1>5 DEF Repointed
  <2>2. row \in ImageRow /\ row.ref = key /\ row.wiped = images[k].wiped
      BY <1>2, <1>3 DEF ImageRow
  <2>3. ~images[k].wiped
      BY <1>5 DEF Live
  <2>4. backfill'.todo \subseteq backfill.todo
    <3>1. backfill' = [backfill EXCEPT !.todo = backfill.todo \ {<<k, item[2]>>}]
        BY <1>4, <1>5
    <3>2. backfill'.todo = backfill.todo \/ backfill'.todo = backfill.todo \ {<<k, item[2]>>}
        BY <3>1
    <3> QED BY <3>2
  <2> HIDE DEF row, k, key
  <2> QED BY <1>1, <1>2, <1>4, <2>1, <2>2, <2>3, <2>4, RecordRepointed
<1>6. CASE ~Live(k)
  <2>1. UNCHANGED images /\ backfill'.todo = {}
      BY <1>4, <1>6 DEF Repointed
  <2>2. objects \subseteq objects'
      BY <1>4
  <2> QED BY <1>1, <1>4, <2>1, <2>2, NothingMoves
<1> QED BY <1>5, <1>6

LEMMA BackfillRestInv ==
    ASSUME NEW owner \in [Nat -> Nat], OwnedInv(owner),
           \/ StartBackfill
           \/ \E item \in backfill.todo : BackfillPassesOver(item[1], item[2])
    PROVE  OwnedInv(owner)'
<1>1. slot \in [Slots -> Served]
    BY DEF OwnedInv, Typed
<1>2. CASE StartBackfill
  <2>1. backfill'.todo \subseteq backfill.todo
    <3>1. backfill' = [backfill EXCEPT !.pc = "batch"]
        BY <1>2 DEF StartBackfill
    <3> QED BY <3>1
  <2> QED BY <1>1, <1>2, <2>1, NothingMoves DEF StartBackfill
<1>3. ASSUME NEW item \in backfill.todo, BackfillPassesOver(item[1], item[2])
      PROVE  OwnedInv(owner)'
  <2>1. backfill'.todo \subseteq backfill.todo
    <3>1. backfill' = [backfill EXCEPT !.todo = backfill.todo \ {<<item[1], item[2]>>}]
        BY <1>3 DEF BackfillPassesOver
    <3>2. \/ backfill'.todo = backfill.todo
          \/ backfill'.todo = backfill.todo \ {<<item[1], item[2]>>}
        BY <3>1
    <3> QED BY <3>2
  <2> QED BY <1>1, <1>3, <2>1, NothingMoves DEF BackfillPassesOver
<1> QED BY <1>2, <1>3

LEMMA WipeScopeInv ==
    ASSUME NEW owner \in [Nat -> Nat], OwnedInv(owner), WipeScope \/ WipeGivenUp
    PROVE  OwnedInv(owner)'
<1>1. /\ UNCHANGED <<objects, images, slot, uploads, backfill>>
      /\ wipe'.pc # "deleted"
    BY DEF WipeScope, WipeGivenUp
<1>2. /\ wipe'.rows \in SUBSET (DOMAIN images) /\ wipe'.keys \in SUBSET AnyKey
      /\ \A key \in wipe'.keys : owner[key.n] \in wipe'.rows
  <2>1. CASE WipeGivenUp
      BY <2>1 DEF WipeGivenUp
  <2>2. CASE WipeScope
    <3> DEFINE rows == {k \in DOMAIN images : Live(k)}
    <3>1. wipe'.rows = rows /\ wipe'.keys = UNION {WipeKeys(k) : k \in rows}
        BY <2>2 DEF WipeScope
    <3>2. ASSUME NEW k \in rows, NEW key \in WipeKeys(k)
          PROVE  key \in AnyKey /\ owner[key.n] = k
      <4>1. /\ images[k].ref \in AnyKey /\ images[k].ref # NoKey
            /\ key \in AnyKey /\ key.n = images[k].ref.n
        <5>1. images[k].ref \in AnyKey
            BY RecordNumbers DEF OwnedInv, Typed, ImageRow
        <5>2. /\ images[k].ref # NoKey
              /\ key \in {images[k].ref, [images[k].ref EXCEPT !.ext = "tif"]}
            BY <3>2 DEF WipeKeys
        <5> QED BY <5>1, <5>2 DEF AnyKey
      <4> QED BY <4>1 DEF OwnedInv, Owned
    <3>3. ASSUME NEW key \in wipe'.keys
          PROVE  key \in AnyKey /\ owner[key.n] \in rows
      <4>1. PICK k \in rows : key \in WipeKeys(k)
          BY <3>1, <3>3
      <4> QED BY <3>2, <4>1
    <3> QED BY <3>1, <3>3
  <2> QED BY <2>1, <2>2
<1>3. Typed'
    BY <1>1, <1>2 DEF OwnedInv, Typed
<1>4. InService' /\ OwnKeys' /\ Stored'
    BY <1>1 DEF OwnedInv, InService, OwnKeys, Stored
<1>5. Owned(owner)'
    BY <1>1, <1>2 DEF OwnedInv, Owned
<1> QED BY <1>3, <1>4, <1>5 DEF OwnedInv

LEMMA WipeRowsInv ==
    ASSUME NEW owner \in [Nat -> Nat], OwnedInv(owner), WipeRows
    PROVE  OwnedInv(owner)'
<1> DEFINE Wiped(k) == IF k \in wipe.rows THEN [images[k] EXCEPT !.wiped = TRUE] ELSE images[k]
<1>1. /\ UNCHANGED <<objects, slot, uploads, backfill>>
      /\ images' = [k \in DOMAIN images |-> Wiped(k)]
      /\ wipe'.rows = wipe.rows /\ wipe'.keys = wipe.keys
  <2>1. wipe' = [wipe EXCEPT !.pc = "deleted"]
      BY DEF WipeRows
  <2> QED BY <2>1 DEF WipeRows
<1>2. /\ \A k \in DOMAIN images : images[k] \in ImageRow
      /\ DOMAIN images \subseteq Nat \ {0}
    BY RecordNumbers DEF OwnedInv, Typed
<1>3. \A k \in DOMAIN images : /\ Wiped(k) \in ImageRow /\ Wiped(k).ref = images[k].ref
                               /\ k \in wipe.rows => Wiped(k).wiped
                               /\ images[k].wiped => Wiped(k).wiped
    BY <1>2 DEF ImageRow
<1> HIDE DEF Wiped
<1>4. /\ DOMAIN images' = DOMAIN images
      /\ \A k \in DOMAIN images : images'[k] = Wiped(k)
    BY <1>1
<1>5. images' \in Seq(ImageRow)
  <2>1. DOMAIN images = 1 .. Len(images) /\ Len(images) \in Nat
      BY LenProperties DEF OwnedInv, Typed
  <2>2. images' \in [1 .. Len(images) -> ImageRow]
      BY <1>1, <1>3, <2>1
  <2> QED BY <2>1, <2>2, SeqDef
<1>6. Typed'
    BY <1>1, <1>4, <1>5 DEF OwnedInv, Typed
<1>7. InService' /\ OwnKeys'
    BY <1>1, <1>4 DEF OwnedInv, InService, OwnKeys
<1>8. Stored'
  <2>1. \A i \in DOMAIN images' :
            ~images'[i].wiped /\ images'[i].ref # NoKey => images'[i].ref \in objects'
      BY <1>1, <1>3, <1>4 DEF OwnedInv, Stored
  <2>2. \A q \in Slots :
            slot[q].pc = "commit" /\ (slot[q].img = 0 \/ ~images'[slot[q].img].wiped) =>
                slot[q].key \in objects
    <3> SUFFICES ASSUME NEW q \in Slots, slot[q].pc = "commit",
                        slot[q].img = 0 \/ ~images'[slot[q].img].wiped
                 PROVE  slot[q].key \in objects
        OBVIOUS
    <3>1. slot[q].img = 0 \/ slot[q].img \in DOMAIN images
        BY DEF OwnedInv, InService, Typed, Served
    <3>2. slot[q].img = 0 \/ ~images[slot[q].img].wiped
        BY <1>3, <1>4, <3>1
    <3> QED BY <3>2 DEF OwnedInv, Stored
  <2>3. \A i \in wipe'.rows : images'[i].wiped
      BY <1>1, <1>3, <1>4 DEF OwnedInv, Typed
  <2> QED BY <1>1, <2>1, <2>2, <2>3 DEF Stored
<1>9. Owned(owner)'
    BY <1>1, <1>3, <1>4 DEF OwnedInv, Owned
<1> QED BY <1>6, <1>7, <1>8, <1>9 DEF OwnedInv

\* The objects that go are those of records that are gone.
LEMMA WipeObjectsInv ==
    ASSUME NEW owner \in [Nat -> Nat], OwnedInv(owner),
           NEW kept \in SUBSET wipe.keys, WipeObjects(kept)
    PROVE  OwnedInv(owner)'
<1>1. /\ UNCHANGED <<images, slot, uploads, backfill>>
      /\ objects' = objects \ (wipe.keys \ kept)
      /\ wipe' = [pc |-> "done", rows |-> {}, keys |-> {}]
      /\ \A k \in wipe.rows : images[k].wiped
    BY DEF WipeObjects, OwnedInv, Stored
<1>2. DOMAIN images \subseteq Nat \ {0} /\ wipe.rows \subseteq DOMAIN images
    BY RecordNumbers DEF OwnedInv, Typed
<1>3. Typed'
    BY <1>1 DEF OwnedInv, Typed
<1>4. InService' /\ OwnKeys'
    BY <1>1 DEF OwnedInv, InService, OwnKeys
<1>5. Stored'
  <2>1. ASSUME NEW k \in DOMAIN images, ~images[k].wiped, images[k].ref # NoKey
        PROVE  images[k].ref \in objects'
    <3>1. images[k].ref \in objects /\ owner[images[k].ref.n] = k
        BY <2>1 DEF OwnedInv, Stored, Owned
    <3>2. images[k].ref \notin wipe.keys
        BY <1>1, <2>1, <3>1 DEF OwnedInv, Owned
    <3> QED BY <1>1, <3>1, <3>2
  <2>2. ASSUME NEW q \in Slots, slot[q].pc = "commit",
               slot[q].img = 0 \/ ~images[slot[q].img].wiped
        PROVE  slot[q].key \in objects'
    <3>1. slot[q].key \in objects /\ owner[slot[q].key.n] = slot[q].img
        BY <2>2 DEF OwnedInv, Stored, Owned, InService
    <3>2. slot[q].key \notin wipe.keys
        BY <1>1, <1>2, <2>2, <3>1 DEF OwnedInv, Owned
    <3> QED BY <1>1, <3>1, <3>2
  <2> QED BY <1>1, <2>1, <2>2 DEF Stored
<1>6. Owned(owner)'
    BY <1>1 DEF OwnedInv, Owned
<1> QED BY <1>3, <1>4, <1>5, <1>6 DEF OwnedInv

-----------------------------------------------------------------------------
LEMMA InitOwned == IngestInit => IngestInv
<1> SUFFICES ASSUME IngestInit PROVE IngestInv
    OBVIOUS
<1> DEFINE owner == [n \in Nat |-> IF n = 0 /\ images # <<>> THEN 1 ELSE 0]
<1>1. owner \in [Nat -> Nat] /\ \A n \in Nat : n > 0 => owner[n] = 0
    OBVIOUS
<1>2. /\ uploads = 0 /\ slot = [q \in Slots |-> Free]
      /\ backfill = [pc |-> "off", todo |-> {}]
      /\ wipe = [pc |-> "off", rows |-> {}, keys |-> {}]
    BY DEF IngestInit
<1>3. Free \in Served /\ Free.op = "none" /\ Free.pc = "free"
    BY KeyTypes DEF Free
<1>4. /\ images \in Seq(ImageRow)
      /\ \A k \in DOMAIN images : /\ ~images[k].wiped /\ images[k].ref \in objects
                                  /\ owner[images[k].ref.n] = k
  <2>1. CASE images = <<>>
      BY <2>1
  <2>2. ASSUME NEW f \in Files, images = <<Image(f, OldTiff)>>, objects = {OldTiff}
        PROVE  /\ images \in Seq(ImageRow)
               /\ \A k \in DOMAIN images : /\ ~images[k].wiped /\ images[k].ref \in objects
                                           /\ owner[images[k].ref.n] = k
    <3>1. Image(f, OldTiff) \in ImageRow /\ OldTiff.n = 0
        BY KeyTypes DEF Image, OldTiff, ImageRow
    <3>2. images \in Seq(ImageRow) /\ DOMAIN images = {1} /\ images[1] = Image(f, OldTiff)
        BY <2>2, <3>1
    <3>3. images # <<>>
        BY <2>2
    <3>4. owner[0] = 1
        BY <3>3
    <3> HIDE DEF owner
    <3> QED BY <2>2, <3>1, <3>2, <3>4 DEF Image
  <2> QED BY <2>1, <2>2 DEF IngestInit
<1> HIDE DEF owner
<1>5. Typed
    BY <1>2, <1>3, <1>4 DEF Typed
<1>6. InService /\ OwnKeys /\ Stored
    BY <1>2, <1>3, <1>4 DEF InService, OwnKeys, Stored
<1>7. Owned(owner)
    BY <1>1, <1>2, <1>3, <1>4 DEF Owned
<1> QED BY <1>1, <1>5, <1>6, <1>7 DEF IngestInv, OwnedInv

LEMMA StepOwned == IngestInv /\ [IngestNext]_ingestVars => IngestInv'
<1> SUFFICES ASSUME IngestInv, [IngestNext]_ingestVars PROVE IngestInv'
    OBVIOUS
<1>1. PICK owner \in [Nat -> Nat] : OwnedInv(owner)
    BY DEF IngestInv
<1>2. OwnedInv(owner)' => IngestInv'
    BY DEF IngestInv
<1>3. CASE TokenExpires \/ RerunUploader
    BY <1>1, <1>2, <1>3, UploaderInv
<1>4. ASSUME NEW f \in Files,
             Uploads(f) \/ RefreshFails(f) \/ TimesOutUpload(f) \/ IngestJson(f)
      PROVE  IngestInv'
  <2>1. ASSUME NEW q \in Slots, Send(f, q) PROVE IngestInv'
      BY <1>1, <1>2, <2>1, SendInv
  <2>2. CASE Refresh(f) \/ RefusedAgain(f) \/ RefreshFails(f) \/ TimesOutUpload(f)
      BY <1>1, <1>2, <2>2, UploaderInv
  <2>3. CASE IngestJson(f)
      BY <1>1, <1>2, <2>3, IngestJsonInv
  <2> QED BY <1>4, <2>1, <2>2, <2>3 DEF Uploads
<1>5. ASSUME NEW q \in Slots,
             Serves(q) \/ RaisesIn(q) \/ \E k \in DOMAIN images : BeginView(q, k)
      PROVE  IngestInv'
  <2>1. CASE PutFindConvert(q)
      BY <1>1, <2>1, PutInv
  <2>2. CASE CommitUpload(q)
      BY <1>1, <2>2, CommitUploadInv
  <2>3. CASE CommitView(q)
      BY <1>1, <1>2, <2>3, CommitViewInv
  <2>4. CASE RaisesIn(q)
      BY <1>1, <1>2, <2>4, RaisesInInv
  <2>5. ASSUME NEW k \in DOMAIN images, BeginView(q, k) PROVE IngestInv'
      BY <1>1, <1>2, <2>5, BeginViewInv
  <2> QED BY <1>5, <2>1, <2>2, <2>3, <2>4, <2>5 DEF Serves
<1>6. CASE StartBackfill \/ Backfills
  <2>1. CASE BackfillSelect
      BY <1>1, <1>2, <2>1, BackfillSelectInv
  <2>2. ASSUME NEW item \in backfill.todo, BackfillConvert(item[1], item[2]) PROVE IngestInv'
      BY <1>1, <1>2, <2>2, BackfillConvertInv
  <2>3. CASE StartBackfill \/ \E item \in backfill.todo : BackfillPassesOver(item[1], item[2])
      BY <1>1, <1>2, <2>3, BackfillRestInv
  <2> QED BY <1>6, <2>1, <2>2, <2>3 DEF Backfills
<1>7. CASE WipeScope \/ WipeGivenUp
    BY <1>1, <1>2, <1>7, WipeScopeInv
<1>8. CASE WipeRows
    BY <1>1, <1>2, <1>8, WipeRowsInv
<1>9. ASSUME NEW kept \in SUBSET wipe.keys, WipeObjects(kept) PROVE IngestInv'
    BY <1>1, <1>2, <1>9, WipeObjectsInv
<1>10. CASE UNCHANGED ingestVars
  <2>1. OwnedInv(owner)'
      BY <1>1, <1>10 DEF ingestVars, OwnedInv, Typed, InService, OwnKeys, Stored, Owned
  <2> QED BY <1>2, <2>1
<1> QED BY <1>3, <1>4, <1>5, <1>6, <1>7, <1>8, <1>9, <1>10 DEF IngestNext

\* Every key has one owner in every reachable state (record_image_key).
THEOREM KeysHaveOneOwner == IngestSpec => []IngestInv
BY InitOwned, StepOwned, PTL DEF IngestSpec

\* What a record refers to is an object of its upload.
LEMMA OwnedPromise == IngestInv => ReferencedObjectsExist
BY DEF IngestInv, OwnedInv, Stored, ReferencedObjectsExist, Live

\* A record that is there never points at an object that is not, with any
\* number of uploads, views and failures, the backfill and the wipe
\* (upload_image, _delete_s3_objects).
THEOREM ReferencesAlwaysExist == IngestSpec => []ReferencedObjectsExist
<1> QED BY OwnedPromise, KeysHaveOneOwner, PTL

-----------------------------------------------------------------------------
(* The numbers that stay in range, and what a success stands for.          *)

UploaderRow == [pc : {"queued", "again", "sent", "done"}, tries : 0 .. MaxTries,
                result : {"none", "success", "failed"}]

\* The keys that m uploads have made.
KeysTo(m) == [n : 0 .. m, ext : {"tif", "pdf", "none"}]

\* The uploads that may still add a record.
Pending == {n \in 1 .. uploads : \E q \in Slots : /\ slot[q].op = "upload" /\ slot[q].img = 0
                                                  /\ slot[q].key.n = n}

\* Every key in use is of an upload that was begun, and a record is made by
\* one upload or one JSON row.
InBounds ==
    /\ objects \subseteq KeysTo(uploads)
    /\ \A k \in DOMAIN images : images[k].ref \in KeysTo(uploads) /\ images[k].last \in 0 .. uploads
    /\ \A q \in Slots : slot[q].key \in KeysTo(uploads)
    /\ \A item \in backfill.todo : item[2] \in KeysTo(uploads)
    /\ wipe.keys \subseteq KeysTo(uploads)
    /\ Len(images) + Cardinality(Pending) <= MaxImages + 1 + uploads

\* What the uploader holds about each file.
Tried ==
    /\ upload \in [Files -> UploaderRow]
    /\ \A f \in Files : upload[f].pc # "done" => upload[f].tries < MaxTries

\* The scripts, the token and the counters.
Counted ==
    /\ uploads \in 0 .. MaxKeys
    /\ token \in {"good", "expired"}
    /\ backfill \in [pc : {"off", "batch", "done", "died"},
                     todo : SUBSET ((DOMAIN images) \X AnyKey)]
    /\ wipe \in [pc : {"off", "scoped", "deleted", "done"}, rows : SUBSET (DOMAIN images),
                 keys : SUBSET AnyKey]
    /\ failures \in 0 .. MaxFailures

HasImage(f) == \E k \in DOMAIN images : images[k].f = f /\ images[k].ref # NoKey

\* An upload that is heard is of its file's record, so that its commit gives
\* that file an image before the answer.
OfItsFile(q) ==
    /\ slot[q].heard => slot[q].op = "upload"
    /\ slot[q].op # "none" => slot[q].key.ext \in {"tif", "pdf"}
    /\ slot[q].op = "upload" /\ slot[q].img # 0 => images[slot[q].img].f = slot[q].f

Succeeded == \A f \in Files : upload[f].result = "success" => HasImage(f)

Answered == Succeeded /\ \A q \in Slots : OfItsFile(q)

ServedInv == InBounds /\ Tried /\ Counted /\ Answered

-----------------------------------------------------------------------------
\* What the lemmas below need of IngestInv.
LEMMA BaseFacts == IngestInv => Typed /\ InService /\ OwnKeys
BY DEF IngestInv, OwnedInv

LEMMA KeysGrow ==
    ASSUME NEW m \in Nat, NEW n \in Nat, m <= n
    PROVE  /\ KeysTo(m) \subseteq KeysTo(n) /\ KeysTo(m) \subseteq AnyKey
           /\ NoKey \in KeysTo(m) /\ OldTiff \in KeysTo(m)
           /\ \A key \in KeysTo(m) : \A f :
                  /\ Derived(key) \in KeysTo(m) /\ Derived(key).ext = "pdf"
                  /\ Converted(key, f) \in KeysTo(m)
                  /\ key.ext \in {"tif", "pdf"} =>
                         Converted(key, f).ext \in {"tif", "pdf"} /\ key # NoKey
BY DEF KeysTo, AnyKey, NoKey, OldTiff, Derived, Converted

\* The pending uploads are among those begun.
LEMMA PendingFinite ==
    ASSUME uploads \in Nat
    PROVE  /\ IsFiniteSet(Pending) /\ Cardinality(Pending) \in Nat
           /\ Cardinality(Pending) <= uploads
<1>1. /\ IsFiniteSet(1 .. uploads) /\ Cardinality(1 .. uploads) = uploads
    BY FS_Interval
<1>2. Pending \subseteq 1 .. uploads
    BY DEF Pending
<1> QED BY <1>1, <1>2, FS_Subset, FS_CardinalityType

\* A step that begins no upload and gives no request a record to make.
LEMMA BoundsKept ==
    ASSUME InBounds, uploads \in Nat, uploads' = uploads,
           Len(images') = Len(images), Len(images) \in Nat,
           MaxImages \in Nat,
           \A q \in Slots : /\ slot'[q].key \in KeysTo(uploads)
                            /\ slot'[q].op = "upload" /\ slot'[q].img = 0 =>
                                   /\ slot[q].op = "upload" /\ slot[q].img = 0
                                   /\ slot'[q].key.n = slot[q].key.n,
           objects' \subseteq KeysTo(uploads),
           \A k \in DOMAIN images' :
               images'[k].ref \in KeysTo(uploads) /\ images'[k].last \in 0 .. uploads,
           \A item \in backfill'.todo : item[2] \in KeysTo(uploads),
           wipe'.keys \subseteq KeysTo(uploads)
    PROVE  InBounds'
<1>1. Pending' \subseteq Pending
    BY DEF Pending
<1>2. IsFiniteSet(Pending) /\ Cardinality(Pending) \in Nat
    BY PendingFinite
<1>3. Cardinality(Pending') <= Cardinality(Pending) /\ Cardinality(Pending') \in Nat
    BY <1>1, <1>2, FS_Subset, FS_CardinalityType
<1>4. Len(images') + Cardinality(Pending') <= MaxImages + 1 + uploads'
    BY <1>2, <1>3 DEF InBounds
<1> QED BY <1>4 DEF InBounds

\* Records keep their files, and their images if they have one.
RowsKept ==
    \A k \in DOMAIN images :
        /\ k \in DOMAIN images'
        /\ images'[k].f = images[k].f
        /\ images[k].ref # NoKey => images'[k].ref # NoKey

LEMMA ImageKept ==
    ASSUME RowsKept, NEW f, HasImage(f)
    PROVE  HasImage(f)'
BY DEF RowsKept, HasImage

\* A request that goes on as it was, heard or no longer heard, or ends.
LEMMA RequestKept ==
    ASSUME RowsKept, Typed, InService, NEW q \in Slots, OfItsFile(q),
           \/ /\ slot'[q].op = slot[q].op /\ slot'[q].key = slot[q].key
              /\ slot'[q].img = slot[q].img /\ slot'[q].f = slot[q].f
              /\ slot'[q].heard => slot[q].heard
           \/ slot'[q] = Free
    PROVE  OfItsFile(q)'
<1>1. Free.op = "none" /\ ~Free.heard
    BY DEF Free
<1>2. slot[q].op = "upload" /\ slot[q].img # 0 => slot[q].img \in DOMAIN images
    BY DEF InService
<1> QED BY <1>1, <1>2 DEF OfItsFile, RowsKept

LEMMA FailureCounts ==
    ASSUME NEW u \in UploaderRow, MaxTries \in Nat \ {0}
    PROVE  /\ AfterFailure(u) \in UploaderRow
           /\ AfterFailure(u).pc # "done" => AfterFailure(u).tries < MaxTries
           /\ AfterFailure(u).result = "success" => u.result = "success"
<1>1. /\ u = [pc |-> u.pc, tries |-> u.tries, result |-> u.result]
      /\ u.pc \in {"queued", "again", "sent", "done"} /\ u.tries \in 0 .. MaxTries
      /\ u.result \in {"none", "success", "failed"}
    BY DEF UploaderRow
<1>2. CASE u.tries + 1 < MaxTries
  <2>1. AfterFailure(u) = [pc |-> "queued", tries |-> u.tries + 1, result |-> u.result]
      BY <1>1, <1>2 DEF AfterFailure
  <2>2. u.tries + 1 \in 0 .. MaxTries
      BY <1>1, <1>2
  <2> QED BY <1>1, <1>2, <2>1, <2>2 DEF UploaderRow
<1>3. CASE ~(u.tries + 1 < MaxTries)
  <2>1. AfterFailure(u) = [pc |-> "done", tries |-> MaxTries, result |-> "failed"]
      BY <1>3 DEF AfterFailure
  <2> QED BY <2>1 DEF UploaderRow
<1> QED BY <1>2, <1>3

\* The answer to an upload, good only if its file has an image by then.
LEMMA AnswerHeard ==
    ASSUME Tried, Succeeded, RowsKept, Typed, InService, MaxTries \in Nat \ {0},
           NEW q \in Slots, OfItsFile(q), NEW ok \in BOOLEAN, Answers(q, ok),
           \A f \in Files : ok /\ slot[q].heard /\ slot[q].f = f => HasImage(f)'
    PROVE  /\ Tried' /\ Succeeded'
           /\ slot' = [slot EXCEPT ![q] = Free] /\ slot'[q] = Free
           /\ \A p \in Slots : p # q => slot'[p] = slot[p]
<1>1. slot' = [slot EXCEPT ![q] = Free]
    BY DEF Answers
<1>2. slot'[q] = Free /\ \A p \in Slots : p # q => slot'[p] = slot[p]
    BY <1>1 DEF Typed
<1>3. CASE ~slot[q].heard
  <2>1. upload' = upload
      BY <1>3 DEF Answers
  <2>2. Succeeded'
      BY <2>1, ImageKept DEF Succeeded
  <2> QED BY <1>1, <1>2, <2>1, <2>2 DEF Tried
<1>4. CASE slot[q].heard
  <2>1. PICK g \in Files : g = slot[q].f
      BY <1>4 DEF OfItsFile, InService
  <2>2. PICK u \in UploaderRow : u = upload[g]
      BY DEF Tried
  <2>3. PICK v : v = IF ok THEN [u EXCEPT !.pc = "done", !.result = "success"]
                     ELSE AfterFailure(u)
      OBVIOUS
  <2>4. /\ v \in UploaderRow
        /\ v.pc # "done" => v.tries < MaxTries
        /\ v.result = "success" => ok \/ u.result = "success"
    <3>1. CASE ok
        BY <2>2, <2>3, <3>1 DEF UploaderRow
    <3>2. CASE ~ok
        BY <2>2, <2>3, <3>2, FailureCounts
    <3> QED BY <3>1, <3>2
  <2>5. upload' = [upload EXCEPT ![g] = v]
      BY <1>4, <2>1, <2>2, <2>3 DEF Answers
  <2>6. upload'[g] = v /\ \A f \in Files : f # g => upload'[f] = upload[f]
      BY <2>5 DEF Tried
  <2>7. Tried'
      BY <2>4, <2>5, <2>6 DEF Tried
  <2>8. Succeeded'
    <3> SUFFICES ASSUME NEW f \in Files, upload'[f].result = "success"
                 PROVE  HasImage(f)'
        BY DEF Succeeded
    <3>1. CASE f = g /\ ok
        BY <1>4, <2>1, <3>1
    <3>2. CASE ~(f = g /\ ok)
      <4>1. upload[f].result = "success"
          BY <2>2, <2>4, <2>6, <3>2
      <4>2. HasImage(f)
          BY <4>1 DEF Succeeded
      <4> QED BY <4>2, ImageKept
    <3> QED BY <3>1, <3>2
  <2> QED BY <1>1, <1>2, <2>7, <2>8
<1> QED BY <1>3, <1>4
-----------------------------------------------------------------------------
(* One lemma per action or group of them.                                  *)

\* What changes none of the keys, records and requests.
LEMMA OnlyUploaderMoves ==
    ASSUME IngestInv, ServedInv, Tried', Counted',
           UNCHANGED <<objects, images, uploads, Scripts>>,
           slot' \in [Slots -> Served],
           \A q \in Slots : /\ slot'[q].op = slot[q].op /\ slot'[q].key = slot[q].key
                            /\ slot'[q].img = slot[q].img /\ slot'[q].f = slot[q].f
                            /\ slot'[q].heard => slot[q].heard,
           \A f \in Files : upload'[f].result = "success" => upload[f].result = "success"
    PROVE  ServedInv'
<1>1. Typed /\ InService
    BY BaseFacts
<1>2. uploads \in Nat /\ Len(images) \in Nat /\ MaxImages \in Nat
    BY <1>1, LenProperties, IngestionAssumption DEF Typed
<1>3. RowsKept
    BY DEF RowsKept
<1>4. InBounds'
  <2>1. /\ \A q \in Slots : slot[q].key \in KeysTo(uploads)
        /\ objects' \subseteq KeysTo(uploads)
        /\ \A k \in DOMAIN images' :
               images'[k].ref \in KeysTo(uploads) /\ images'[k].last \in 0 .. uploads
        /\ \A item \in backfill'.todo : item[2] \in KeysTo(uploads)
        /\ wipe'.keys \subseteq KeysTo(uploads)
      BY DEF ServedInv, InBounds, Scripts
  <2> QED BY <1>2, <2>1, BoundsKept DEF ServedInv
<1>5. \A q \in Slots : OfItsFile(q)'
    BY <1>1, <1>3, RequestKept DEF ServedInv, Answered
<1>6. Succeeded'
  <2> SUFFICES ASSUME NEW f \in Files, upload'[f].result = "success" PROVE HasImage(f)'
      BY DEF Succeeded
  <2>1. HasImage(f)
      BY DEF ServedInv, Answered, Succeeded
  <2> QED BY <1>3, <2>1, ImageKept
<1> QED BY <1>4, <1>5, <1>6 DEF ServedInv, Answered

LEMMA UploaderServed ==
    ASSUME IngestInv, ServedInv,
           \/ TokenExpires \/ RerunUploader
           \/ \E f \in Files : \/ Refresh(f) \/ RefusedAgain(f)
                               \/ RefreshFails(f) \/ TimesOutUpload(f)
    PROVE  ServedInv'
<1>1. /\ slot \in [Slots -> Served]
      /\ MaxTries \in Nat \ {0} /\ MaxFailures \in Nat /\ failures \in 0 .. MaxFailures
      /\ upload \in [Files -> UploaderRow]
      /\ \A f \in Files : upload[f].pc # "done" => upload[f].tries < MaxTries
    BY BaseFacts, IngestionAssumption DEF ServedInv, Typed, Tried, Counted
<1>2. MayFail => failures + 1 \in 0 .. MaxFailures
    BY <1>1 DEF MayFail
<1>3. CASE TokenExpires
  <2>1. Tried' /\ Counted'
      BY <1>2, <1>3 DEF TokenExpires, ServedInv, Tried, Counted, Scripts
  <2> QED BY <1>1, <1>3, <2>1, OnlyUploaderMoves DEF TokenExpires
<1>4. CASE RerunUploader
  <2>1. PICK s \in [Slots -> Served] : s = [q \in Slots |-> [slot[q] EXCEPT !.heard = FALSE]]
    <3>1. \A q \in Slots : [slot[q] EXCEPT !.heard = FALSE] \in Served
        BY <1>1 DEF Served
    <3> QED BY <3>1
  <2>2. slot' = s
      BY <1>4, <2>1 DEF RerunUploader
  <2>3. \A q \in Slots : /\ s[q].op = slot[q].op /\ s[q].key = slot[q].key
                         /\ s[q].img = slot[q].img /\ s[q].f = slot[q].f /\ ~s[q].heard
      BY <1>1, <2>1 DEF Served
  <2>4. NotSent \in UploaderRow /\ NotSent.tries < MaxTries /\ NotSent.result = "none"
      BY <1>1 DEF NotSent, UploaderRow
  <2>5. upload' = [f \in Files |-> NotSent]
      BY <1>4 DEF RerunUploader
  <2>6. /\ Tried'
        /\ \A f \in Files : upload'[f].result = "none"
      BY <2>4, <2>5 DEF Tried
  <2>7. Counted'
      BY <1>2, <1>4 DEF RerunUploader, ServedInv, Counted, Scripts
  <2>8. UNCHANGED <<objects, images, uploads, Scripts>>
      BY <1>4 DEF RerunUploader
  <2> HIDE <2>5
  <2> QED BY <2>2, <2>3, <2>6, <2>7, <2>8, OnlyUploaderMoves
<1>5. ASSUME NEW f \in Files, NEW v \in UploaderRow, upload' = [upload EXCEPT ![f] = v],
             v.pc # "done" => v.tries < MaxTries,
             v.result = "success" => upload[f].result = "success"
      PROVE  /\ Tried'
             /\ \A g \in Files : upload'[g].result = "success" => upload[g].result = "success"
    BY <1>1, <1>5 DEF Tried
<1>6. ASSUME NEW f \in Files, NEW u \in UploaderRow, u = upload[f]
      PROVE  /\ \A pc \in {"again", "sent"} :
                    /\ [u EXCEPT !.pc = pc] \in UploaderRow
                    /\ [u EXCEPT !.pc = pc].tries = u.tries
                    /\ [u EXCEPT !.pc = pc].result = u.result
             /\ [u EXCEPT !.pc = "done", !.result = "failed"] \in UploaderRow
             /\ [u EXCEPT !.pc = "done", !.result = "failed"].pc = "done"
             /\ [u EXCEPT !.pc = "done", !.result = "failed"].result = "failed"
    BY <1>6 DEF UploaderRow
<1>7. ASSUME NEW f \in Files, Refresh(f) PROVE ServedInv'
  <2>1. PICK u \in UploaderRow : u = upload[f] /\ u.pc = "queued" /\ u.tries < MaxTries
      BY <1>1, <1>7 DEF Refresh, Moves
  <2>2. upload' = [upload EXCEPT ![f] = [u EXCEPT !.pc = "again"]]
      BY <1>1, <1>7, <2>1 DEF Refresh, Moves
  <2>3. /\ Tried'
        /\ \A g \in Files : upload'[g].result = "success" => upload[g].result = "success"
      BY <1>5, <1>6, <2>1, <2>2
  <2>4. Counted'
      BY <1>7 DEF Refresh, ServedInv, Counted, Scripts
  <2> QED BY <1>1, <1>7, <2>3, <2>4, OnlyUploaderMoves DEF Refresh
<1>8. ASSUME NEW f \in Files, RefusedAgain(f) PROVE ServedInv'
  <2>1. PICK u \in UploaderRow : u = upload[f]
      BY <1>1
  <2>2. upload' = [upload EXCEPT ![f] = [u EXCEPT !.pc = "done", !.result = "failed"]]
      BY <1>1, <1>8, <2>1 DEF RefusedAgain
  <2>3. /\ Tried'
        /\ \A g \in Files : upload'[g].result = "success" => upload[g].result = "success"
      BY <1>5, <1>6, <2>1, <2>2
  <2>4. Counted'
      BY <1>8 DEF RefusedAgain, ServedInv, Counted, Scripts
  <2> QED BY <1>1, <1>8, <2>3, <2>4, OnlyUploaderMoves DEF RefusedAgain
<1>9. ASSUME NEW f \in Files, RefreshFails(f) PROVE ServedInv'
  <2>1. PICK u \in UploaderRow : u = upload[f]
      BY <1>1
  <2>2. PICK v \in UploaderRow :
            /\ upload' = [upload EXCEPT ![f] = v]
            /\ v.pc # "done" => v.tries < MaxTries
            /\ v.result = "success" => u.result = "success"
    <3>1. upload' \in {[upload EXCEPT ![f] = AfterFailure(@)],
                       [upload EXCEPT ![f].pc = "done", ![f].result = "failed"]}
        BY <1>9 DEF RefreshFails
    <3>2. \/ upload' = [upload EXCEPT ![f] = AfterFailure(u)]
          \/ upload' = [upload EXCEPT ![f] = [u EXCEPT !.pc = "done", !.result = "failed"]]
        BY <1>1, <2>1, <3>1
    <3> QED BY <1>1, <1>6, <2>1, <3>2, FailureCounts
  <2>3. /\ Tried'
        /\ \A g \in Files : upload'[g].result = "success" => upload[g].result = "success"
      BY <1>5, <2>1, <2>2
  <2>4. Counted'
      BY <1>2, <1>9 DEF RefreshFails, ServedInv, Counted, Scripts
  <2> QED BY <1>1, <1>9, <2>3, <2>4, OnlyUploaderMoves DEF RefreshFails
<1>10. ASSUME NEW f \in Files, TimesOutUpload(f) PROVE ServedInv'
  <2>1. PICK u \in UploaderRow : u = upload[f]
      BY <1>1
  <2>2. upload' = [upload EXCEPT ![f] = AfterFailure(u)]
      BY <1>1, <1>10, <2>1 DEF TimesOutUpload
  <2>3. /\ Tried'
        /\ \A g \in Files : upload'[g].result = "success" => upload[g].result = "success"
      BY <1>1, <1>5, <2>1, <2>2, FailureCounts
  <2>4. Counted'
      BY <1>2, <1>10 DEF TimesOutUpload, ServedInv, Counted, Scripts
  <2>5. PICK s \in [Slots -> Served] :
            s = [q \in Slots |-> IF slot[q].f = f THEN [slot[q] EXCEPT !.heard = FALSE]
                                 ELSE slot[q]]
    <3>1. \A q \in Slots : [slot[q] EXCEPT !.heard = FALSE] \in Served
        BY <1>1 DEF Served
    <3> QED BY <1>1, <3>1
  <2>6. slot' = s
      BY <1>10, <2>5 DEF TimesOutUpload
  <2>7. \A q \in Slots : /\ s[q].op = slot[q].op /\ s[q].key = slot[q].key
                         /\ s[q].img = slot[q].img /\ s[q].f = slot[q].f
                         /\ s[q].heard => slot[q].heard
      BY <1>1, <2>5 DEF Served
  <2>8. UNCHANGED <<objects, images, uploads, Scripts>>
      BY <1>10 DEF TimesOutUpload
  <2> QED BY <2>3, <2>4, <2>6, <2>7, <2>8, OnlyUploaderMoves
<1> QED BY <1>3, <1>4, <1>7, <1>8, <1>9, <1>10

LEMMA SendServed ==
    ASSUME IngestInv, ServedInv, NEW f \in Files, NEW q \in Slots, Send(f, q)
    PROVE  ServedInv'
<1>1. /\ slot \in [Slots -> Served] /\ uploads \in 0 .. MaxKeys /\ uploads + 1 \in 0 .. MaxKeys
      /\ MaxKeys \in Nat /\ MaxImages \in Nat /\ images \in Seq(ImageRow)
    BY BaseFacts, IngestionAssumption DEF ServedInv, Typed, Counted, Send
<1>2. PICK s \in Served : /\ slot' = [slot EXCEPT ![q] = s]
                          /\ s.op = "upload" /\ s.f = f /\ s.key = ImageKey(uploads + 1, f)
                          /\ s.img = 0 /\ s.heard
  <2> DEFINE s == [op |-> "upload", f |-> f, key |-> ImageKey(uploads + 1, f),
                   img |-> 0, pc |-> "put", heard |-> TRUE]
  <2>1. /\ s \in Served /\ s.op = "upload" /\ s.f = f /\ s.key = ImageKey(uploads + 1, f)
        /\ s.img = 0 /\ s.heard
      BY <1>1, KeyTypes DEF Served
  <2>2. slot' = [slot EXCEPT ![q] = s]
      BY DEF Send
  <2> HIDE DEF s
  <2> QED BY <2>1, <2>2
<1>3. slot'[q] = s /\ \A p \in Slots : p # q => slot'[p] = slot[p]
    BY <1>1, <1>2
<1>4. s.key \in KeysTo(uploads + 1) /\ s.key.n = uploads + 1 /\ s.key.ext \in {"tif", "pdf"}
    BY <1>1, <1>2 DEF ImageKey, KeysTo
<1>5. /\ uploads' = uploads + 1
      /\ UNCHANGED <<objects, images, token, backfill, wipe, failures>>
    BY DEF Send, Scripts
<1>6. Tried' /\ Succeeded'
  <2>1. PICK u \in UploaderRow : u = upload[f] /\ u.pc \in {"queued", "again"} /\ u.tries < MaxTries
      BY DEF Send, Moves, ServedInv, Tried
  <2>2. PICK v \in UploaderRow : /\ v = [u EXCEPT !.pc = "sent"]
                                 /\ v.tries = u.tries /\ v.result = u.result
    <3>1. /\ [u EXCEPT !.pc = "sent"] \in UploaderRow
          /\ [u EXCEPT !.pc = "sent"].tries = u.tries
          /\ [u EXCEPT !.pc = "sent"].result = u.result
        BY <2>1 DEF UploaderRow
    <3> QED BY <3>1
  <2>3. upload' = [upload EXCEPT ![f] = v]
      BY <2>1, <2>2 DEF Send, Moves, ServedInv, Tried
  <2>4. /\ upload' \in [Files -> UploaderRow]
        /\ \A g \in Files : upload'[g].result = upload[g].result
        /\ \A g \in Files : upload'[g].pc # "done" => upload'[g].tries < MaxTries
      BY <2>1, <2>2, <2>3 DEF ServedInv, Tried
  <2>5. Succeeded'
      BY <1>5, <2>4 DEF ServedInv, Answered, Succeeded, HasImage
  <2> QED BY <2>4, <2>5 DEF Tried
<1>7. Counted'
    BY <1>1, <1>5 DEF ServedInv, Counted
<1>8. InBounds'
  <2>1. KeysTo(uploads) \subseteq KeysTo(uploads + 1) /\ 0 .. uploads \subseteq 0 .. uploads + 1
      BY <1>1, KeysGrow
  <2>2. /\ IsFiniteSet(Pending) /\ Cardinality(Pending) \in Nat /\ Len(images) \in Nat
      BY <1>1, PendingFinite, LenProperties
  <2>3. Pending' \subseteq Pending \cup {uploads + 1}
    <3> SUFFICES ASSUME NEW n \in Pending', n # uploads + 1 PROVE n \in Pending
        OBVIOUS
    <3>1. PICK p \in Slots : slot'[p].op = "upload" /\ slot'[p].img = 0 /\ slot'[p].key.n = n
        BY DEF Pending
    <3>2. n \in 1 .. uploads
        BY <1>1, <1>5 DEF Pending
    <3> QED BY <1>3, <1>4, <3>1, <3>2 DEF Pending
  <2>4. /\ IsFiniteSet(Pending \cup {uploads + 1})
        /\ Cardinality(Pending \cup {uploads + 1}) <= Cardinality(Pending) + 1
        /\ Cardinality(Pending \cup {uploads + 1}) \in Nat
    <3>1. /\ IsFiniteSet(Pending \cup {uploads + 1})
          /\ \/ Cardinality(Pending \cup {uploads + 1}) = Cardinality(Pending)
             \/ Cardinality(Pending \cup {uploads + 1}) = Cardinality(Pending) + 1
        BY <2>2, FS_AddElement
    <3> QED BY <2>2, <3>1
  <2>5. Cardinality(Pending') <= Cardinality(Pending) + 1 /\ Cardinality(Pending') \in Nat
      BY <2>2, <2>3, <2>4, FS_Subset, FS_CardinalityType
  <2>6. Len(images') + Cardinality(Pending') <= MaxImages + 1 + uploads'
      BY <1>1, <1>5, <2>2, <2>5 DEF ServedInv, InBounds
  <2>7. \A p \in Slots : slot'[p].key \in KeysTo(uploads')
      BY <1>2, <1>3, <1>4, <1>5, <2>1 DEF ServedInv, InBounds
  <2>8. /\ objects' \subseteq KeysTo(uploads')
        /\ \A k \in DOMAIN images' :
               images'[k].ref \in KeysTo(uploads') /\ images'[k].last \in 0 .. uploads'
        /\ \A item \in backfill'.todo : item[2] \in KeysTo(uploads')
        /\ wipe'.keys \subseteq KeysTo(uploads')
      BY <1>5, <2>1 DEF ServedInv, InBounds
  <2> QED BY <2>6, <2>7, <2>8 DEF InBounds
<1>9. \A p \in Slots : OfItsFile(p)'
    BY <1>2, <1>3, <1>4, <1>5 DEF ServedInv, Answered, OfItsFile
<1> QED BY <1>6, <1>7, <1>8, <1>9 DEF ServedInv, Answered

\* What requests that answer leave: the images as they are or repointed.
LEMMA AnswerServed ==
    ASSUME IngestInv, IngestInv', ServedInv, NEW q \in Slots, NEW ok \in BOOLEAN, Answers(q, ok),
           \A f \in Files : ok /\ slot[q].heard /\ slot[q].f = f => HasImage(f)',
           RowsKept, Len(images') = Len(images),
           UNCHANGED <<uploads, backfill, wipe, token>>, failures' \in 0 .. MaxFailures,
           objects' \subseteq KeysTo(uploads),
           \A k \in DOMAIN images' :
               images'[k].ref \in KeysTo(uploads) /\ images'[k].last \in 0 .. uploads
    PROVE  ServedInv'
<1>1. /\ Typed /\ InService /\ Typed' /\ uploads \in Nat
      /\ MaxTries \in Nat \ {0} /\ MaxImages \in Nat
  <2>1. Typed'
      BY DEF IngestInv, OwnedInv
  <2> QED BY <2>1, BaseFacts, IngestionAssumption DEF Typed
<1>2. /\ Tried' /\ Succeeded' /\ slot'[q] = Free
      /\ \A p \in Slots : p # q => slot'[p] = slot[p]
    BY <1>1, AnswerHeard DEF ServedInv, Answered
<1>3. Counted'
    BY <1>1 DEF ServedInv, Counted, Typed
<1>4. \A p \in Slots : OfItsFile(p)'
    BY <1>1, <1>2, RequestKept DEF ServedInv, Answered
<1>5. InBounds'
  <2>1. Free.key \in KeysTo(uploads) /\ Free.op = "none"
      BY <1>1, KeysGrow DEF Free
  <2>2. \A p \in Slots : /\ slot'[p].key \in KeysTo(uploads)
                         /\ slot'[p].op = "upload" /\ slot'[p].img = 0 =>
                                /\ slot[p].op = "upload" /\ slot[p].img = 0
                                /\ slot'[p].key.n = slot[p].key.n
      BY <1>2, <2>1 DEF ServedInv, InBounds
  <2>3. Len(images) \in Nat
      BY <1>1, LenProperties DEF Typed
  <2>4. /\ \A item \in backfill'.todo : item[2] \in KeysTo(uploads)
        /\ wipe'.keys \subseteq KeysTo(uploads)
      BY DEF ServedInv, InBounds
  <2> QED BY <1>1, <2>2, <2>3, <2>4, BoundsKept DEF ServedInv
<1> QED BY <1>2, <1>3, <1>4, <1>5 DEF ServedInv, Answered

\* The rows as they are.
LEMMA SameRows ==
    ASSUME ServedInv, images' = images
    PROVE  /\ RowsKept /\ Len(images') = Len(images)
           /\ \A k \in DOMAIN images' :
                  images'[k].ref \in KeysTo(uploads) /\ images'[k].last \in 0 .. uploads
BY DEF ServedInv, InBounds, RowsKept

\* One row pointed at another key.
LEMMA OneRowRepointed ==
    ASSUME IngestInv, ServedInv, NEW k \in DOMAIN images, NEW row \in ImageRow,
           images' = [images EXCEPT ![k] = row], row.f = images[k].f,
           row.ref \in KeysTo(uploads), row.ref # NoKey, row.last \in 0 .. uploads
    PROVE  /\ RowsKept /\ Len(images') = Len(images) /\ images'[k] = row
           /\ k \in DOMAIN images'
           /\ \A i \in DOMAIN images' :
                  images'[i].ref \in KeysTo(uploads) /\ images'[i].last \in 0 .. uploads
<1>1. /\ images' \in Seq(ImageRow) /\ DOMAIN images' = DOMAIN images
      /\ images'[k] = row /\ \A i \in DOMAIN images : i # k => images'[i] = images[i]
    BY BaseFacts, RowRewritten DEF Typed
<1>2. Len(images') = Len(images)
  <2>1. images \in Seq(ImageRow)
      BY BaseFacts DEF Typed
  <2>2. /\ DOMAIN images = 1 .. Len(images) /\ Len(images) \in Nat
        /\ DOMAIN images' = 1 .. Len(images') /\ Len(images') \in Nat
      BY <1>1, <2>1, LenProperties
  <2> QED BY <1>1, <2>2
<1> QED BY <1>1, <1>2 DEF RowsKept, ServedInv, InBounds

LEMMA RaisesInServed ==
    ASSUME IngestInv, IngestInv', ServedInv, NEW q \in Slots, RaisesIn(q)
    PROVE  ServedInv'
<1>1. failures' \in 0 .. MaxFailures
    BY IngestionAssumption DEF RaisesIn, MayFail, ServedInv, Counted
<1>2. objects' \subseteq KeysTo(uploads)
    BY DEF RaisesIn, ServedInv, InBounds
<1>3. Answers(q, FALSE) /\ UNCHANGED <<images, uploads, backfill, wipe, token>>
    BY DEF RaisesIn, Scripts
<1> QED BY <1>1, <1>2, <1>3, SameRows, AnswerServed

LEMMA CommitViewServed ==
    ASSUME IngestInv, IngestInv', ServedInv, NEW q \in Slots, CommitView(q)
    PROVE  ServedInv'
<1> DEFINE s == slot[q]
<1>1. /\ Answers(q, TRUE) /\ images' = Repointed(s.img, s.key) /\ ~s.heard
      /\ UNCHANGED <<objects, uploads, backfill, wipe, token, failures>>
      /\ failures' \in 0 .. MaxFailures
    BY DEF CommitView, Scripts, ServedInv, Counted, Answered, OfItsFile
<1>2. /\ s.img \in DOMAIN images /\ images[s.img] \in ImageRow /\ s.key \in AnyKey
      /\ s.key \in KeysTo(uploads) /\ s.key # NoKey
  <2>1. Typed /\ InService /\ uploads \in Nat
      BY BaseFacts DEF Typed
  <2>2. s.key.ext \in {"tif", "pdf"}
      BY DEF CommitView, ServedInv, Answered, OfItsFile
  <2>3. s.img \in DOMAIN images /\ s.key \in AnyKey
      BY <2>1 DEF CommitView, InService, Typed, Served
  <2>4. images[s.img] \in ImageRow
      BY <2>1, <2>3, RecordNumbers DEF Typed
  <2>5. s.key \in KeysTo(uploads)
      BY DEF ServedInv, InBounds
  <2>6. s.key # NoKey
      BY <2>2 DEF NoKey
  <2> QED BY <2>3, <2>4, <2>5, <2>6
<1>3. objects' \subseteq KeysTo(uploads)
    BY <1>1 DEF ServedInv, InBounds
<1>4. /\ RowsKept /\ Len(images') = Len(images)
      /\ \A k \in DOMAIN images' :
             images'[k].ref \in KeysTo(uploads) /\ images'[k].last \in 0 .. uploads
  <2>1. CASE Live(s.img)
    <3> DEFINE row == [images[s.img] EXCEPT !.ref = s.key]
    <3>1. images' = [images EXCEPT ![s.img] = row]
        BY <1>1, <2>1 DEF Repointed
    <3>2. /\ row \in ImageRow /\ row.ref = s.key /\ row.f = images[s.img].f
          /\ row.last \in 0 .. uploads
        BY <1>2 DEF ImageRow, ServedInv, InBounds
    <3> HIDE DEF row, s
    <3> QED BY <1>2, <3>1, <3>2, OneRowRepointed
  <2>2. CASE ~Live(s.img)
      BY <1>1, <2>2, SameRows DEF Repointed
  <2> QED BY <2>1, <2>2
<1> QED BY <1>1, <1>3, <1>4, AnswerServed

LEMMA BeginViewServed ==
    ASSUME IngestInv, IngestInv', ServedInv, NEW q \in Slots, NEW k \in DOMAIN images,
           BeginView(q, k)
    PROVE  ServedInv'
<1>1. /\ Typed /\ InService /\ uploads \in Nat /\ MaxImages \in Nat
      /\ Len(images) \in Nat /\ images[k] \in ImageRow
    BY BaseFacts, RecordNumbers, LenProperties, IngestionAssumption DEF Typed
<1>2. PICK key \in KeysTo(uploads) : key = Derived(images[k].ref) /\ key.ext = "pdf"
  <2>1. images[k].ref \in KeysTo(uploads) /\ uploads <= uploads
      BY <1>1 DEF ServedInv, InBounds
  <2>2. Derived(images[k].ref) \in KeysTo(uploads) /\ Derived(images[k].ref).ext = "pdf"
      BY <1>1, <2>1, KeysGrow
  <2> QED BY <2>2
<1>3. /\ slot' = [slot EXCEPT ![q] = [op |-> "view", f |-> images[k].f, key |-> key,
                                      img |-> k, pc |-> "commit", heard |-> FALSE]]
      /\ objects' = objects \cup {key}
      /\ UNCHANGED <<images, uploads, upload, token, backfill, wipe, failures>>
    BY <1>2 DEF BeginView, Scripts
<1>4. /\ slot'[q].op = "view" /\ slot'[q].key = key /\ slot'[q].heard = FALSE
      /\ \A p \in Slots : p # q => slot'[p] = slot[p]
    BY <1>1, <1>3 DEF Typed
<1>5. RowsKept /\ Len(images') = Len(images)
    BY <1>3, SameRows
<1>6. InBounds'
  <2>1. /\ \A p \in Slots : /\ slot'[p].key \in KeysTo(uploads)
                            /\ slot'[p].op = "upload" /\ slot'[p].img = 0 =>
                                   /\ slot[p].op = "upload" /\ slot[p].img = 0
                                   /\ slot'[p].key.n = slot[p].key.n
        /\ objects' \subseteq KeysTo(uploads)
      BY <1>3, <1>4 DEF ServedInv, InBounds
  <2>2. /\ \A i \in DOMAIN images' :
               images'[i].ref \in KeysTo(uploads) /\ images'[i].last \in 0 .. uploads
        /\ \A item \in backfill'.todo : item[2] \in KeysTo(uploads)
        /\ wipe'.keys \subseteq KeysTo(uploads)
      BY <1>3 DEF ServedInv, InBounds
  <2>3. uploads' = uploads
      BY <1>3
  <2> HIDE <1>3
  <2> QED BY <1>1, <1>5, <2>1, <2>2, <2>3, BoundsKept DEF ServedInv
<1>7. \A p \in Slots : OfItsFile(p)'
  <2> SUFFICES ASSUME NEW p \in Slots PROVE OfItsFile(p)'
      OBVIOUS
  <2>1. CASE p = q
      BY <1>2, <1>4, <2>1 DEF OfItsFile
  <2>2. CASE p # q
      BY <1>1, <1>4, <1>5, <2>2, RequestKept DEF ServedInv, Answered
  <2> QED BY <2>1, <2>2
<1>8. Succeeded'
    BY <1>3, <1>5, ImageKept DEF ServedInv, Answered, Succeeded
<1>9. Tried' /\ Counted'
    BY <1>3 DEF ServedInv, Tried, Counted
<1> QED BY <1>6, <1>7, <1>8, <1>9 DEF ServedInv, Answered

LEMMA PutServed ==
    ASSUME IngestInv, IngestInv', ServedInv, NEW q \in Slots, PutFindConvert(q)
    PROVE  ServedInv'
<1> DEFINE s == slot[q]
           found == Matching(s.f)
<1>1. /\ Typed /\ InService /\ uploads \in Nat /\ MaxImages \in Nat /\ MaxFailures \in Nat
      /\ Len(images) \in Nat /\ failures \in 0 .. MaxFailures
    BY BaseFacts, LenProperties, IngestionAssumption DEF Typed, ServedInv, Counted
<1>2. /\ s.pc = "put" /\ s.op = "upload" /\ s.img = 0 /\ s.key \in KeysTo(uploads)
      /\ s.key.ext \in {"tif", "pdf"}
    BY <1>1 DEF PutFindConvert, InService, ServedInv, InBounds, Answered, OfItsFile
<1>3. UNCHANGED <<images, uploads, token, backfill, wipe>>
    BY DEF PutFindConvert, Scripts
<1>4. CASE Cardinality(found) > 1
  <2>1. Answers(q, FALSE) /\ objects' = objects \cup {s.key} /\ failures' = failures
      BY <1>4 DEF PutFindConvert, RaisesOnTwo
  <2>2. objects' \subseteq KeysTo(uploads) /\ failures' \in 0 .. MaxFailures
      BY <1>1, <1>2, <2>1 DEF ServedInv, InBounds
  <2> QED BY <1>3, <2>1, <2>2, SameRows, AnswerServed
<1>5. CASE ~(Cardinality(found) > 1)
  <2>1. PICK key \in {s.key, Converted(s.key, s.f)} :
            /\ key # Converted(s.key, s.f) => MayFail
            /\ failures' = IF key = Converted(s.key, s.f) THEN failures ELSE failures + 1
            /\ objects' = objects \cup {s.key, key}
            /\ slot' = [slot EXCEPT ![q].pc = "commit", ![q].key = key,
                                    ![q].img = IF found = {} THEN 0
                                               ELSE CHOOSE k \in found : TRUE]
            /\ UNCHANGED upload
      BY <1>5 DEF PutFindConvert
  <2>2. key \in KeysTo(uploads) /\ key.n = s.key.n /\ key.ext \in {"tif", "pdf"}
    <3>1. Converted(s.key, s.f) \in KeysTo(uploads) /\ Converted(s.key, s.f).ext \in {"tif", "pdf"}
      <4>1. uploads <= uploads
          BY <1>1
      <4> HIDE DEF s, found
      <4> QED BY <1>1, <1>2, <4>1, KeysGrow
    <3>2. s.key \in AnyKey
        BY <1>1 DEF Typed, Served
    <3>3. Converted(s.key, s.f).n = s.key.n
        BY <3>2, ConvertedType
    <3> HIDE DEF s
    <3> QED BY <1>2, <2>1, <3>1, <3>3
  <2>3. PICK img : img = IF found = {} THEN 0 ELSE CHOOSE k \in found : TRUE
      OBVIOUS
  <2>4. img # 0 => img \in DOMAIN images /\ images[img].f = s.f
    <3>1. img = 0 \/ img \in found
        BY <2>3
    <3> QED BY <3>1 DEF Matching
  <2>5. /\ slot'[q].op = "upload" /\ slot'[q].key = key /\ slot'[q].img = img
        /\ slot'[q].f = s.f /\ slot'[q].heard = s.heard
        /\ \A p \in Slots : p # q => slot'[p] = slot[p]
    <3>1. slot' = [slot EXCEPT ![q] = [s EXCEPT !.pc = "commit", !.key = key, !.img = img]]
        BY <1>1, <2>1, <2>3 DEF Typed
    <3>2. s \in Served
        BY <1>1 DEF Typed
    <3> QED BY <1>1, <1>2, <3>1, <3>2 DEF Typed, Served
  <2>6. RowsKept /\ Len(images') = Len(images) /\ uploads' = uploads
      BY <1>3, SameRows
  <2>7. InBounds'
    <3>1. objects' \subseteq KeysTo(uploads)
        BY <1>2, <2>1, <2>2 DEF ServedInv, InBounds
    <3>2. \A p \in Slots : /\ slot'[p].key \in KeysTo(uploads)
                           /\ slot'[p].op = "upload" /\ slot'[p].img = 0 =>
                                  /\ slot[p].op = "upload" /\ slot[p].img = 0
                                  /\ slot'[p].key.n = slot[p].key.n
        BY <1>2, <2>2, <2>5 DEF ServedInv, InBounds
    <3>3. /\ \A k \in DOMAIN images' :
                 images'[k].ref \in KeysTo(uploads) /\ images'[k].last \in 0 .. uploads
          /\ \A item \in backfill'.todo : item[2] \in KeysTo(uploads)
          /\ wipe'.keys \subseteq KeysTo(uploads)
        BY <1>3 DEF ServedInv, InBounds
    <3> QED BY <1>1, <2>6, <3>1, <3>2, <3>3, BoundsKept DEF ServedInv
  <2>8. \A p \in Slots : OfItsFile(p)'
    <3> SUFFICES ASSUME NEW p \in Slots PROVE OfItsFile(p)'
        OBVIOUS
    <3>1. CASE p = q
        BY <1>3, <2>2, <2>4, <2>5, <3>1 DEF OfItsFile
    <3>2. CASE p # q
        BY <1>1, <2>5, <2>6, <3>2, RequestKept DEF ServedInv, Answered
    <3> QED BY <3>1, <3>2
  <2>9. failures' \in 0 .. MaxFailures
      BY <1>1, <2>1 DEF MayFail
  <2>10. Tried' /\ Counted' /\ Succeeded'
      BY <1>3, <2>1, <2>9 DEF ServedInv, Tried, Counted, Answered, Succeeded, HasImage
  <2> QED BY <2>7, <2>8, <2>10 DEF ServedInv, Answered
<1> QED BY <1>4, <1>5

\* A row added for a request that was pending, or by a JSON row.
LEMMA RowCounted ==
    ASSUME IngestInv, IngestInv', ServedInv, NEW row \in ImageRow,
           images' = Append(images, row),
           row.ref \in KeysTo(uploads), row.last \in 0 .. uploads,
           UNCHANGED <<objects, uploads, backfill, wipe, token>>, failures' \in 0 .. MaxFailures,
           \A p \in Slots : slot'[p] = slot[p] \/ slot'[p] = Free,
           \/ Len(images) < MaxImages
           \/ \E n \in Pending : n \notin Pending',
           RowsKept => Tried' /\ Succeeded'
    PROVE  ServedInv'
<1>1. Typed /\ InService /\ Typed' /\ uploads \in Nat /\ MaxImages \in Nat
  <2>1. Typed'
      BY DEF IngestInv, OwnedInv
  <2> QED BY <2>1, BaseFacts, IngestionAssumption DEF Typed
<1>2. /\ DOMAIN images' = DOMAIN images \cup {Len(images) + 1}
      /\ \A i \in DOMAIN images : images'[i] = images[i]
      /\ images'[Len(images) + 1] = row
      /\ Len(images') = Len(images) + 1 /\ Len(images) \in Nat
    BY <1>1, RowAdded, AppendProperties, LenProperties DEF Typed
<1>3. RowsKept
    BY <1>2 DEF RowsKept
<1>4. Counted'
    BY <1>1 DEF ServedInv, Counted, Typed
<1>5. \A p \in Slots : OfItsFile(p)'
  <2> SUFFICES ASSUME NEW p \in Slots PROVE OfItsFile(p)'
      OBVIOUS
  <2>1. slot'[p] = slot[p] \/ slot'[p] = Free
      OBVIOUS
  <2>2. \/ /\ slot'[p].op = slot[p].op /\ slot'[p].key = slot[p].key
           /\ slot'[p].img = slot[p].img /\ slot'[p].f = slot[p].f
           /\ slot'[p].heard => slot[p].heard
        \/ slot'[p] = Free
      BY <2>1
  <2>3. OfItsFile(p)
      BY DEF ServedInv, Answered
  <2> QED BY <1>1, <1>3, <2>2, <2>3, RequestKept
<1>6. InBounds'
  <2>1. Free.key \in KeysTo(uploads) /\ Free.op = "none"
      BY <1>1, KeysGrow DEF Free
  <2>2. /\ IsFiniteSet(Pending) /\ Cardinality(Pending) \in Nat /\ Cardinality(Pending) <= uploads
      BY <1>1, PendingFinite
  <2>3. Pending' \subseteq Pending
      BY <2>1 DEF Pending
  <2>4. Cardinality(Pending') \in Nat /\ Cardinality(Pending') <= Cardinality(Pending)
      BY <2>2, <2>3, FS_Subset, FS_CardinalityType
  <2>5. Len(images') + Cardinality(Pending') <= MaxImages + 1 + uploads
    <3>1. CASE Len(images) < MaxImages
        BY <1>1, <1>2, <2>2, <2>4, <3>1
    <3>2. ASSUME NEW n \in Pending, n \notin Pending'
          PROVE  Len(images') + Cardinality(Pending') <= MaxImages + 1 + uploads
      <4>1. Cardinality(Pending') # Cardinality(Pending)
          BY <2>2, <2>3, <3>2, FS_Subset
      <4>2. Len(images) + Cardinality(Pending) <= MaxImages + 1 + uploads
          BY DEF ServedInv, InBounds
      <4> QED BY <1>1, <1>2, <2>2, <2>4, <4>1, <4>2
    <3> QED BY <3>1, <3>2
  <2>6. \A p \in Slots : slot'[p].key \in KeysTo(uploads)
      BY <2>1 DEF ServedInv, InBounds
  <2>7. \A k \in DOMAIN images' :
            images'[k].ref \in KeysTo(uploads) /\ images'[k].last \in 0 .. uploads
      BY <1>2 DEF ServedInv, InBounds
  <2>8. /\ objects' \subseteq KeysTo(uploads) /\ wipe'.keys \subseteq KeysTo(uploads)
        /\ \A item \in backfill'.todo : item[2] \in KeysTo(uploads)
      BY DEF ServedInv, InBounds
  <2> QED BY <2>5, <2>6, <2>7, <2>8 DEF InBounds
<1> QED BY <1>3, <1>4, <1>5, <1>6 DEF ServedInv, Answered

LEMMA IngestJsonServed ==
    ASSUME IngestInv, IngestInv', ServedInv, NEW f \in Files, IngestJson(f)
    PROVE  ServedInv'
<1> DEFINE row == Image(f, NoKey)
<1>1. uploads \in Nat /\ MaxFailures \in Nat /\ failures \in 0 .. MaxFailures
    BY BaseFacts, IngestionAssumption DEF Typed, ServedInv, Counted
<1>2. /\ row \in ImageRow /\ row.ref \in KeysTo(uploads) /\ row.last \in 0 .. uploads
    BY <1>1, KeyTypes, KeysGrow DEF ImageRow, Image, NoKey
<1>3. /\ images' = Append(images, row) /\ Len(images) < MaxImages
      /\ UNCHANGED <<objects, slot, uploads, upload, token, backfill, wipe>>
      /\ failures' \in 0 .. MaxFailures
    BY <1>1 DEF IngestJson, MayFail, Scripts
<1>4. Tried'
    BY <1>3 DEF ServedInv, Tried
<1>5. RowsKept => Succeeded'
    BY <1>3, ImageKept DEF ServedInv, Answered, Succeeded
<1> HIDE DEF row
<1> QED BY <1>2, <1>3, <1>4, <1>5, RowCounted

LEMMA CommitUploadServed ==
    ASSUME IngestInv, IngestInv', ServedInv, NEW q \in Slots, CommitUpload(q)
    PROVE  ServedInv'
<1> DEFINE s == slot[q]
<1>1. /\ Typed /\ InService /\ OwnKeys /\ uploads \in Nat /\ MaxTries \in Nat \ {0}
    BY BaseFacts, IngestionAssumption DEF Typed
<1>2. /\ s.op = "upload" /\ s.key \in KeysTo(uploads) /\ s.key \in AnyKey /\ s.key # NoKey
      /\ s.img = 0 \/ s.img \in DOMAIN images
      /\ s.f \in Files /\ s.key.n \in 1 .. uploads
  <2>1. s.op = "upload"
      BY DEF CommitUpload
  <2>2. s.key \in KeysTo(uploads) /\ s.key \in AnyKey
      BY <1>1 DEF ServedInv, InBounds, Typed, Served
  <2>3. s.key # NoKey
      BY <2>1 DEF ServedInv, Answered, OfItsFile, NoKey
  <2> QED BY <1>1, <2>1, <2>2, <2>3 DEF InService
<1>3. /\ UNCHANGED <<objects, uploads, token, backfill, wipe, failures>>
      /\ failures' \in 0 .. MaxFailures
    BY DEF CommitUpload, Scripts, ServedInv, Counted
<1>4. OfItsFile(q) /\ Tried /\ Succeeded
    BY DEF ServedInv, Answered
<1>5. CASE s.img = 0
  <2> DEFINE row == Image(s.f, s.key)
  <2>1. images' = Append(images, row) /\ Answers(q, TRUE)
      BY <1>5 DEF CommitUpload
  <2>2. /\ row \in ImageRow /\ row.f = s.f /\ row.ref = s.key /\ row.last = s.key.n
        /\ row.last \in 0 .. uploads
      BY <1>1, <1>2 DEF Image, ImageRow, AnyKey
  <2>3. slot' = [slot EXCEPT ![q] = Free]
      BY <2>1 DEF Answers
  <2>4. slot'[q] = Free /\ \A p \in Slots : p # q => slot'[p] = slot[p]
      BY <1>1, <2>3 DEF Typed
  <2>5. \E n \in Pending : n \notin Pending'
    <3>1. s.key.n \in Pending
        BY <1>2, <1>5 DEF Pending
    <3>2. ASSUME NEW p \in Slots, slot'[p].op = "upload", slot'[p].key.n = s.key.n PROVE FALSE
      <4>1. p # q /\ slot'[p] = slot[p]
          BY <2>4, <3>2 DEF Free
      <4> QED BY <1>1, <1>2, <3>2, <4>1 DEF OwnKeys
    <3>3. s.key.n \notin Pending'
      <4>1. PICK m : m = s.key.n
          OBVIOUS
      <4>2. m \notin Pending'
          BY <3>2, <4>1 DEF Pending
      <4> QED BY <4>1, <4>2
    <3> QED BY <3>1, <3>3
  <2>6. /\ DOMAIN images' = DOMAIN images \cup {Len(images) + 1}
        /\ images'[Len(images) + 1] = row
      BY <1>1, <2>1, <2>2, RowAdded DEF Typed
  <2>7. \A f \in Files : slot[q].f = f => HasImage(f)'
    <3>1. Len(images) + 1 \in DOMAIN images'
        BY <2>6
    <3>2. images'[Len(images) + 1].f = s.f /\ images'[Len(images) + 1].ref # NoKey
        BY <1>2, <2>2, <2>6
    <3> HIDE DEF row
    <3> QED BY <3>1, <3>2 DEF HasImage
  <2> HIDE DEF row
  <2>8. RowsKept => Tried' /\ Succeeded'
      BY <1>1, <1>4, <2>1, <2>7, AnswerHeard
  <2> HIDE DEF s
  <2> QED BY <1>2, <1>3, <2>1, <2>2, <2>4, <2>5, <2>8, RowCounted
<1>6. CASE s.img # 0
  <2>1. s.img \in DOMAIN images /\ images[s.img] \in ImageRow
      BY <1>1, <1>2, <1>6, RecordNumbers DEF Typed
  <2>2. Answers(q, Live(s.img)) /\ objects' \subseteq KeysTo(uploads)
      BY <1>3, <1>6 DEF CommitUpload, ServedInv, InBounds
  <2>3. CASE Live(s.img)
    <3> DEFINE row == [images[s.img] EXCEPT !.ref = s.key, !.last = s.key.n]
    <3>1. images' = [images EXCEPT ![s.img] = row]
      <4>1. images' = [images EXCEPT ![s.img].ref = s.key, ![s.img].last = s.key.n]
          BY <1>6, <2>3 DEF CommitUpload
      <4> QED BY <2>1, <4>1
    <3>2. /\ row \in ImageRow /\ row.ref = s.key /\ row.f = images[s.img].f
          /\ row.last \in 0 .. uploads /\ row.f = s.f
      <4>1. images[s.img].f = s.f
          BY <1>2, <1>4, <1>6 DEF OfItsFile
      <4>2. s.key.n \in 0 .. uploads /\ s.key.n \in Nat
          BY <1>1, <1>2
      <4>3. row \in ImageRow /\ row.ref = s.key /\ row.f = images[s.img].f /\ row.last = s.key.n
          BY <1>2, <2>1, <4>2 DEF ImageRow
      <4> QED BY <4>1, <4>2, <4>3
    <3>3. Answers(q, TRUE)
        BY <2>2, <2>3 DEF Answers
    <3> HIDE DEF row, s
    <3>4. /\ RowsKept /\ Len(images') = Len(images)
          /\ images'[s.img] = row /\ s.img \in DOMAIN images'
          /\ \A i \in DOMAIN images' :
                 images'[i].ref \in KeysTo(uploads) /\ images'[i].last \in 0 .. uploads
        BY <1>2, <2>1, <3>1, <3>2, OneRowRepointed
    <3>5. \A f \in Files : s.f = f => HasImage(f)'
      <4>1. PICK k : k = s.img
          OBVIOUS
      <4>2. k \in DOMAIN images' /\ images'[k].f = s.f /\ images'[k].ref # NoKey
          BY <1>2, <3>2, <3>4, <4>1
      <4> QED BY <4>2 DEF HasImage
    <3>6. \A f \in Files : slot[q].f = f => HasImage(f)'
        BY <3>5 DEF s
    <3> QED BY <1>3, <2>2, <3>3, <3>4, <3>6, AnswerServed
  <2>4. CASE ~Live(s.img)
    <3>1. Answers(q, FALSE)
        BY <2>2, <2>4 DEF Answers
    <3>2. images' = images
        BY <1>6, <2>4 DEF CommitUpload
    <3> QED BY <1>3, <2>2, <3>1, <3>2, SameRows, AnswerServed
  <2> QED BY <2>3, <2>4
<1> QED BY <1>5, <1>6

\* A step of a script: the requests and the uploader stand still.
LEMMA ScriptStep ==
    ASSUME IngestInv, IngestInv', ServedInv,
           UNCHANGED <<slot, uploads, upload, token>>, failures' \in 0 .. MaxFailures,
           RowsKept, Len(images') = Len(images),
           backfill' \in [pc : {"off", "batch", "done", "died"}, todo : SUBSET (Nat \X AnyKey)],
           wipe' \in [pc : {"off", "scoped", "deleted", "done"}, rows : SUBSET Nat,
                      keys : SUBSET AnyKey],
           objects' \subseteq KeysTo(uploads),
           \A k \in DOMAIN images' :
               images'[k].ref \in KeysTo(uploads) /\ images'[k].last \in 0 .. uploads,
           \A item \in backfill'.todo : item[2] \in KeysTo(uploads),
           wipe'.keys \subseteq KeysTo(uploads)
    PROVE  ServedInv'
<1>1. /\ Typed /\ InService /\ Typed' /\ uploads \in Nat /\ Len(images) \in Nat
      /\ MaxImages \in Nat
  <2>1. Typed'
      BY DEF IngestInv, OwnedInv
  <2> QED BY <2>1, BaseFacts, LenProperties, IngestionAssumption DEF Typed
<1>2. Counted'
    BY <1>1 DEF ServedInv, Counted, Typed
<1>3. InBounds'
  <2>1. \A q \in Slots : slot[q].key \in KeysTo(uploads)
      BY DEF ServedInv, InBounds
  <2> QED BY <1>1, <2>1, BoundsKept DEF ServedInv
<1>4. \A q \in Slots : OfItsFile(q)'
    BY <1>1, RequestKept DEF ServedInv, Answered
<1>5. Tried' /\ Succeeded'
    BY ImageKept DEF ServedInv, Tried, Answered, Succeeded
<1> QED BY <1>2, <1>3, <1>4, <1>5 DEF ServedInv, Answered

\* What the scripts hold, for ScriptStep.
LEMMA ScriptTypes ==
    ASSUME IngestInv, ServedInv
    PROVE  /\ backfill \in [pc : {"off", "batch", "done", "died"}, todo : SUBSET (Nat \X AnyKey)]
           /\ wipe \in [pc : {"off", "scoped", "deleted", "done"}, rows : SUBSET Nat,
                        keys : SUBSET AnyKey]
           /\ \A item \in backfill.todo : item[2] \in KeysTo(uploads)
           /\ wipe.keys \subseteq KeysTo(uploads) /\ objects \subseteq KeysTo(uploads)
           /\ uploads \in Nat /\ KeysTo(uploads) \subseteq AnyKey
           /\ DOMAIN images \subseteq Nat
           /\ MaxFailures \in Nat /\ failures \in 0 .. MaxFailures
<1>1. DOMAIN images \subseteq Nat /\ uploads \in Nat
    BY BaseFacts, RecordNumbers DEF Typed
<1>2. KeysTo(uploads) \subseteq AnyKey
    BY <1>1 DEF KeysTo, AnyKey
<1>3. /\ backfill \in [pc : {"off", "batch", "done", "died"}, todo : SUBSET (Nat \X AnyKey)]
      /\ wipe \in [pc : {"off", "scoped", "deleted", "done"}, rows : SUBSET Nat,
                   keys : SUBSET AnyKey]
    BY <1>1 DEF ServedInv, Counted
<1> QED BY <1>1, <1>2, <1>3, IngestionAssumption DEF ServedInv, InBounds, Counted

LEMMA BackfillServed ==
    ASSUME IngestInv, IngestInv', ServedInv,
           \/ StartBackfill \/ BackfillSelect
           \/ \E item \in backfill.todo : BackfillPassesOver(item[1], item[2])
    PROVE  ServedInv'
<1> DEFINE PcTodo == [pc : {"off", "batch", "done", "died"}, todo : SUBSET (Nat \X AnyKey)]
<1>1. /\ UNCHANGED <<objects, images, slot, uploads, upload, token, wipe>>
      /\ failures' \in 0 .. MaxFailures
  <2>1. failures \in 0 .. MaxFailures /\ MaxFailures \in Nat
      BY ScriptTypes
  <2>2. CASE StartBackfill \/ BackfillSelect
      BY <2>1, <2>2 DEF StartBackfill, BackfillSelect
  <2>3. ASSUME NEW item \in backfill.todo, BackfillPassesOver(item[1], item[2])
        PROVE  /\ UNCHANGED <<objects, images, slot, uploads, upload, token, wipe>>
               /\ failures' \in 0 .. MaxFailures
      BY <2>1, <2>3 DEF BackfillPassesOver, MayFail
  <2> QED BY <2>2, <2>3
<1>2. /\ backfill' \in PcTodo
      /\ \A item \in backfill'.todo : item[2] \in KeysTo(uploads)
  <2>1. CASE StartBackfill
    <3>1. backfill' = [backfill EXCEPT !.pc = "batch"]
        BY <2>1 DEF StartBackfill
    <3> QED BY <3>1, ScriptTypes
  <2>2. CASE BackfillSelect
    <3>1. /\ backfill'.todo = {<<k, images[k].ref>> : k \in StillTiff}
          /\ backfill' = [pc |-> IF StillTiff = {} THEN "done" ELSE "batch",
                          todo |-> {<<k, images[k].ref>> : k \in StillTiff}]
        BY <2>2 DEF BackfillSelect
    <3>2. \A k \in StillTiff : k \in Nat /\ images[k].ref \in KeysTo(uploads)
        BY ScriptTypes DEF StillTiff, ServedInv, InBounds
    <3>3. \A item \in backfill'.todo : item \in Nat \X AnyKey /\ item[2] \in KeysTo(uploads)
        BY <3>1, <3>2, ScriptTypes
    <3>4. backfill'.todo \in SUBSET (Nat \X AnyKey)
        BY <3>3
    <3>5. PICK todo \in SUBSET (Nat \X AnyKey) :
              /\ todo = backfill'.todo
              /\ backfill' = [pc |-> IF StillTiff = {} THEN "done" ELSE "batch", todo |-> todo]
        BY <3>1, <3>4
    <3> QED BY <3>3, <3>5
  <2>3. ASSUME NEW item \in backfill.todo, BackfillPassesOver(item[1], item[2])
        PROVE  /\ backfill' \in PcTodo
               /\ \A i \in backfill'.todo : i[2] \in KeysTo(uploads)
    <3>1. backfill' = [backfill EXCEPT !.todo = backfill.todo \ {<<item[1], item[2]>>}]
        BY <2>3 DEF BackfillPassesOver
    <3> QED BY <3>1, ScriptTypes
  <2> QED BY <2>1, <2>2, <2>3
<1> HIDE DEF PcTodo
<1>3. /\ wipe' \in [pc : {"off", "scoped", "deleted", "done"}, rows : SUBSET Nat,
                    keys : SUBSET AnyKey]
      /\ wipe'.keys \subseteq KeysTo(uploads) /\ objects' \subseteq KeysTo(uploads)
    BY <1>1, ScriptTypes
<1> USE DEF PcTodo
<1> QED BY <1>1, <1>2, <1>3, SameRows, ScriptStep

LEMMA BackfillConvertServed ==
    ASSUME IngestInv, IngestInv', ServedInv, NEW item \in backfill.todo,
           BackfillConvert(item[1], item[2])
    PROVE  ServedInv'
<1> DEFINE k   == item[1]
           key == Derived(item[2])
<1>1. /\ k \in DOMAIN images /\ images[k] \in ImageRow
      /\ key \in KeysTo(uploads) /\ key # NoKey /\ key \in AnyKey
  <2>1. Typed /\ uploads \in Nat /\ uploads <= uploads
      BY BaseFacts DEF Typed
  <2>2. k \in DOMAIN images
      BY <2>1 DEF Typed
  <2>3. item[2] \in KeysTo(uploads)
      BY ScriptTypes
  <2>4. Derived(item[2]) \in KeysTo(uploads) /\ Derived(item[2]).ext = "pdf"
      BY <2>1, <2>3, KeysGrow
  <2>5. key # NoKey /\ key \in AnyKey
      BY <2>4, ScriptTypes DEF NoKey
  <2> QED BY <2>1, <2>2, <2>4, <2>5, RecordNumbers DEF Typed
<1>2. /\ objects' = objects \cup {key} /\ images' = Repointed(k, key)
      /\ backfill' = IF Live(k) THEN [backfill EXCEPT !.todo = @ \ {<<k, item[2]>>}]
                     ELSE [pc |-> "died", todo |-> {}]
      /\ UNCHANGED <<slot, uploads, upload, token, wipe, failures>>
    BY DEF BackfillConvert
<1>3. /\ RowsKept /\ Len(images') = Len(images)
      /\ \A i \in DOMAIN images' :
             images'[i].ref \in KeysTo(uploads) /\ images'[i].last \in 0 .. uploads
  <2>1. CASE Live(k)
    <3> DEFINE row == [images[k] EXCEPT !.ref = key]
    <3>1. images' = [images EXCEPT ![k] = row]
        BY <1>1, <1>2, <2>1 DEF Repointed
    <3>2. /\ row \in ImageRow /\ row.ref = key /\ row.f = images[k].f
          /\ row.last \in 0 .. uploads
        BY <1>1 DEF ImageRow, ServedInv, InBounds
    <3> HIDE DEF row, k, key
    <3> QED BY <1>1, <3>1, <3>2, OneRowRepointed
  <2>2. CASE ~Live(k)
      BY <1>2, <2>2, SameRows DEF Repointed
  <2> QED BY <2>1, <2>2
<1>4. /\ backfill' \in [pc : {"off", "batch", "done", "died"}, todo : SUBSET (Nat \X AnyKey)]
      /\ \A i \in backfill'.todo : i[2] \in KeysTo(uploads)
  <2>1. CASE Live(k)
    <3>1. backfill' = [backfill EXCEPT !.todo = backfill.todo \ {<<k, item[2]>>}]
        BY <1>2, <2>1
    <3> QED BY <3>1, ScriptTypes
  <2>2. CASE ~Live(k)
      BY <1>2, <2>2
  <2> QED BY <2>1, <2>2
<1>5. /\ objects' \subseteq KeysTo(uploads) /\ failures' \in 0 .. MaxFailures
      /\ wipe' \in [pc : {"off", "scoped", "deleted", "done"}, rows : SUBSET Nat,
                    keys : SUBSET AnyKey]
      /\ wipe'.keys \subseteq KeysTo(uploads)
    BY <1>1, <1>2, ScriptTypes
<1>6. UNCHANGED <<slot, uploads, upload, token>>
    BY <1>2
<1> HIDE DEF k, key
<1> HIDE <1>2
<1> QED BY <1>3, <1>4, <1>5, <1>6, ScriptStep

LEMMA WipeServed ==
    ASSUME IngestInv, IngestInv', ServedInv,
           \/ WipeScope \/ WipeGivenUp
           \/ \E kept \in SUBSET wipe.keys : WipeObjects(kept)
    PROVE  ServedInv'
<1>1. /\ UNCHANGED <<images, slot, uploads, upload, token, backfill>>
      /\ failures' \in 0 .. MaxFailures /\ objects' \subseteq objects
    BY ScriptTypes DEF WipeScope, WipeGivenUp, WipeObjects, MayFail
<1>2. /\ wipe' \in [pc : {"off", "scoped", "deleted", "done"}, rows : SUBSET Nat,
                    keys : SUBSET AnyKey]
      /\ wipe'.keys \subseteq KeysTo(uploads)
  <2>1. CASE wipe' = [pc |-> "done", rows |-> {}, keys |-> {}]
      BY <2>1
  <2>2. CASE WipeScope
    <3>1. PICK rows : rows = {k \in DOMAIN images : Live(k)}
        OBVIOUS
    <3>2. PICK keys : keys = UNION {WipeKeys(k) : k \in rows}
        OBVIOUS
    <3>3. wipe' = [pc |-> "scoped", rows |-> rows, keys |-> keys]
        BY <2>2, <3>1, <3>2 DEF WipeScope
    <3>4. \A k \in rows : WipeKeys(k) \subseteq KeysTo(uploads)
      <4> SUFFICES ASSUME NEW k \in rows PROVE WipeKeys(k) \subseteq KeysTo(uploads)
          OBVIOUS
      <4>1. images[k].ref \in KeysTo(uploads)
          BY <3>1 DEF ServedInv, InBounds
      <4>2. [images[k].ref EXCEPT !.ext = "tif"] \in KeysTo(uploads)
          BY <4>1 DEF KeysTo
      <4> QED BY <4>1, <4>2 DEF WipeKeys
    <3>5. keys \subseteq KeysTo(uploads) /\ keys \subseteq AnyKey
        BY <3>2, <3>4, ScriptTypes
    <3>6. rows \subseteq Nat
        BY <3>1, ScriptTypes
    <3> QED BY <3>3, <3>5, <3>6
  <2> QED BY <2>1, <2>2 DEF WipeGivenUp, WipeObjects
<1>3. /\ backfill' \in [pc : {"off", "batch", "done", "died"}, todo : SUBSET (Nat \X AnyKey)]
      /\ \A item \in backfill'.todo : item[2] \in KeysTo(uploads)
      /\ objects' \subseteq KeysTo(uploads)
    BY <1>1, ScriptTypes
<1> QED BY <1>1, <1>2, <1>3, SameRows, ScriptStep

LEMMA WipeRowsServed ==
    ASSUME IngestInv, IngestInv', ServedInv, WipeRows
    PROVE  ServedInv'
<1>1. /\ UNCHANGED <<objects, slot, uploads, upload, token, backfill, failures>>
      /\ wipe' = [wipe EXCEPT !.pc = "deleted"]
    BY DEF WipeRows
<1>2. images \in Seq(ImageRow) /\ images' \in Seq(ImageRow)
  <2>1. Typed'
      BY DEF IngestInv, OwnedInv
  <2> QED BY <2>1, BaseFacts DEF Typed
<1>3. /\ DOMAIN images' = DOMAIN images
      /\ \A k \in DOMAIN images : /\ images'[k].f = images[k].f /\ images'[k].ref = images[k].ref
                                  /\ images'[k].last = images[k].last
  <2>1. images' = [k \in DOMAIN images |->
                       IF k \in wipe.rows THEN [images[k] EXCEPT !.wiped = TRUE] ELSE images[k]]
      BY DEF WipeRows
  <2>2. \A k \in DOMAIN images : images[k] \in ImageRow
      BY <1>2, RecordNumbers
  <2> QED BY <2>1, <2>2 DEF ImageRow
<1>4. Len(images') = Len(images)
  <2>1. /\ DOMAIN images = 1 .. Len(images) /\ Len(images) \in Nat
        /\ DOMAIN images' = 1 .. Len(images') /\ Len(images') \in Nat
      BY <1>2, LenProperties
  <2> QED BY <1>3, <2>1
<1>5. /\ RowsKept
      /\ \A k \in DOMAIN images' :
             images'[k].ref \in KeysTo(uploads) /\ images'[k].last \in 0 .. uploads
    BY <1>3 DEF RowsKept, ServedInv, InBounds
<1>6. /\ wipe' \in [pc : {"off", "scoped", "deleted", "done"}, rows : SUBSET Nat,
                    keys : SUBSET AnyKey]
      /\ wipe'.keys \subseteq KeysTo(uploads)
    BY <1>1, ScriptTypes
<1>7. /\ backfill' \in [pc : {"off", "batch", "done", "died"}, todo : SUBSET (Nat \X AnyKey)]
      /\ \A item \in backfill'.todo : item[2] \in KeysTo(uploads)
      /\ objects' \subseteq KeysTo(uploads) /\ failures' \in 0 .. MaxFailures
    BY <1>1, ScriptTypes
<1> QED BY <1>1, <1>4, <1>5, <1>6, <1>7, ScriptStep

-----------------------------------------------------------------------------
LEMMA InitServed == IngestInit => ServedInv
<1> SUFFICES ASSUME IngestInit PROVE ServedInv
    OBVIOUS
<1>1. /\ uploads = 0 /\ slot = [q \in Slots |-> Free] /\ upload = [f \in Files |-> NotSent]
      /\ token = "good" /\ failures = 0
      /\ backfill = [pc |-> "off", todo |-> {}]
      /\ wipe = [pc |-> "off", rows |-> {}, keys |-> {}]
      /\ MaxTries \in Nat \ {0} /\ MaxKeys \in Nat /\ MaxImages \in Nat /\ MaxFailures \in Nat
    BY IngestionAssumption DEF IngestInit
<1>2. NoKey \in KeysTo(0) /\ OldTiff \in KeysTo(0)
    BY KeysGrow
<1>3. /\ objects \subseteq KeysTo(0) /\ Len(images) \in {0, 1}
      /\ \A k \in DOMAIN images : images[k].ref \in KeysTo(0) /\ images[k].last \in 0 .. 0
  <2>1. CASE images = <<>> /\ objects = {}
      BY <2>1
  <2>2. ASSUME NEW f \in Files, images = <<Image(f, OldTiff)>>, objects = {OldTiff}
        PROVE  /\ objects \subseteq KeysTo(0) /\ Len(images) \in {0, 1}
               /\ \A k \in DOMAIN images : images[k].ref \in KeysTo(0) /\ images[k].last \in 0 .. 0
    <3>1. Image(f, OldTiff).ref = OldTiff /\ Image(f, OldTiff).last = 0
        BY DEF Image, OldTiff
    <3>2. Len(images) = 1 /\ DOMAIN images = {1} /\ images[1] = Image(f, OldTiff)
        BY <2>2
    <3> QED BY <1>2, <2>2, <3>1, <3>2
  <2> QED BY <2>1, <2>2 DEF IngestInit
<1>4. InBounds
  <2>1. Pending = {}
      BY <1>1 DEF Pending
  <2>2. Cardinality(Pending) = 0
      BY <2>1, FS_EmptySet
  <2>3. \A q \in Slots : slot[q].key \in KeysTo(uploads)
      BY <1>1, <1>2 DEF Free
  <2>4. Len(images) + Cardinality(Pending) <= MaxImages + 1 + uploads
    <3>1. MaxImages \in Nat /\ uploads = 0 /\ (Len(images) = 0 \/ Len(images) = 1)
        BY <1>1, <1>3
    <3>2. PICK l, c : l = Len(images) /\ c = Cardinality(Pending)
        OBVIOUS
    <3>3. l + c <= MaxImages + 1 + uploads
        BY <2>2, <3>1, <3>2
    <3> QED BY <3>2, <3>3
  <2>5. /\ objects \subseteq KeysTo(uploads)
        /\ \A k \in DOMAIN images :
               images[k].ref \in KeysTo(uploads) /\ images[k].last \in 0 .. uploads
        /\ \A item \in backfill.todo : item[2] \in KeysTo(uploads)
        /\ wipe.keys \subseteq KeysTo(uploads)
      BY <1>1, <1>3
  <2> QED BY <2>3, <2>4, <2>5 DEF InBounds
<1>5. Tried /\ Counted
  <2>1. NotSent \in UploaderRow /\ NotSent.tries < MaxTries
      BY <1>1 DEF NotSent, UploaderRow
  <2> QED BY <1>1, <2>1 DEF Tried, Counted
<1>6. Answered
    BY <1>1 DEF Answered, Succeeded, OfItsFile, NotSent, Free
<1> QED BY <1>4, <1>5, <1>6 DEF ServedInv

LEMMA StepServed ==
    IngestInv /\ IngestInv' /\ ServedInv /\ [IngestNext]_ingestVars => ServedInv'
<1> SUFFICES ASSUME IngestInv, IngestInv', ServedInv, [IngestNext]_ingestVars PROVE ServedInv'
    OBVIOUS
<1>1. CASE TokenExpires \/ RerunUploader
    BY <1>1, UploaderServed
<1>2. ASSUME NEW f \in Files,
             Uploads(f) \/ RefreshFails(f) \/ TimesOutUpload(f) \/ IngestJson(f)
      PROVE  ServedInv'
  <2>1. ASSUME NEW q \in Slots, Send(f, q) PROVE ServedInv'
      BY <2>1, SendServed
  <2>2. CASE Refresh(f) \/ RefusedAgain(f) \/ RefreshFails(f) \/ TimesOutUpload(f)
      BY <2>2, UploaderServed
  <2>3. CASE IngestJson(f)
      BY <2>3, IngestJsonServed
  <2> QED BY <1>2, <2>1, <2>2, <2>3 DEF Uploads
<1>3. ASSUME NEW q \in Slots,
             Serves(q) \/ RaisesIn(q) \/ \E k \in DOMAIN images : BeginView(q, k)
      PROVE  ServedInv'
  <2>1. CASE Serves(q)
      BY <2>1, PutServed, CommitUploadServed, CommitViewServed DEF Serves
  <2>2. CASE RaisesIn(q)
      BY <2>2, RaisesInServed
  <2>3. ASSUME NEW k \in DOMAIN images, BeginView(q, k) PROVE ServedInv'
      BY <2>3, BeginViewServed
  <2> QED BY <1>3, <2>1, <2>2, <2>3
<1>4. CASE StartBackfill \/ Backfills
  <2>1. ASSUME NEW item \in backfill.todo, BackfillConvert(item[1], item[2]) PROVE ServedInv'
      BY <2>1, BackfillConvertServed
  <2>2. CASE \/ StartBackfill \/ BackfillSelect
             \/ \E item \in backfill.todo : BackfillPassesOver(item[1], item[2])
      BY <2>2, BackfillServed
  <2> QED BY <1>4, <2>1, <2>2 DEF Backfills
<1>5. CASE \/ WipeScope \/ WipeGivenUp
           \/ \E kept \in SUBSET wipe.keys : WipeObjects(kept)
    BY <1>5, WipeServed
<1>6. CASE WipeRows
    BY <1>6, WipeRowsServed
<1>7. CASE UNCHANGED ingestVars
    BY <1>7 DEF ingestVars, Scripts, ServedInv, InBounds, Pending, Tried, Counted, Answered,
                Succeeded, HasImage, OfItsFile
<1> QED BY <1>1, <1>2, <1>3, <1>4, <1>5, <1>6, <1>7 DEF IngestNext

\* Keys, tries and counters stay in range, and a success stands for an image,
\* in every reachable state (with_retries, record_image_key).
THEOREM RequestsAreServed == IngestSpec => []ServedInv
BY InitServed, StepServed, KeysHaveOneOwner, PTL DEF IngestSpec

\* Keys in bounds, and rows and requests of those, are what the type invariant
\* asks for.
LEMMA ServedTypes == IngestInv /\ ServedInv => IngestTypeOK
<1> SUFFICES ASSUME IngestInv, ServedInv PROVE IngestTypeOK
    OBVIOUS
<1>1. /\ Typed /\ uploads \in 0 .. MaxKeys /\ MaxKeys \in Nat /\ MaxImages \in Nat
      /\ uploads \in Nat
    BY BaseFacts, IngestionAssumption DEF ServedInv, Counted
<1>2. KeysTo(uploads) \subseteq Key /\ 0 .. uploads \subseteq 0 .. MaxKeys
    BY <1>1 DEF KeysTo, Key
<1>3. objects \subseteq Key /\ wipe.keys \subseteq Key
    BY <1>2 DEF ServedInv, InBounds
<1>4. images \in Seq([f : Files, ref : Key, last : 0 .. MaxKeys, wiped : BOOLEAN])
  <2> DEFINE Row == [f : Files, ref : Key, last : 0 .. MaxKeys, wiped : BOOLEAN]
  <2>1. /\ DOMAIN images = 1 .. Len(images) /\ Len(images) \in Nat
        /\ images \in [1 .. Len(images) -> ImageRow]
      BY <1>1, LenProperties DEF Typed
  <2>2. \A k \in 1 .. Len(images) : images[k] \in Row
      BY <1>2, <2>1 DEF ImageRow, ServedInv, InBounds
  <2> HIDE DEF Row
  <2>3. images \in [1 .. Len(images) -> Row]
      BY <2>1, <2>2
  <2>4. images \in Seq(Row)
      BY <2>1, <2>3, SeqDef
  <2> QED BY <2>4 DEF Row
<1>5. Len(images) <= MaxImages + MaxKeys + 1
  <2>1. Len(images) \in Nat /\ Cardinality(Pending) \in Nat
      BY <1>1, PendingFinite, LenProperties DEF Typed
  <2> QED BY <1>1, <2>1 DEF ServedInv, InBounds
<1>6. slot \in [Slots -> [op : {"none", "upload", "view"}, f : Files \cup {"none"}, key : Key,
                          img : Nat, pc : {"free", "put", "commit"}, heard : BOOLEAN]]
  <2>1. slot \in [Slots -> Served]
      BY <1>1 DEF Typed
  <2>2. \A q \in Slots : slot[q] \in
            [op : {"none", "upload", "view"}, f : Files \cup {"none"}, key : Key,
             img : Nat, pc : {"free", "put", "commit"}, heard : BOOLEAN]
      BY <1>2, <2>1 DEF Served, ServedInv, InBounds
  <2> QED BY <2>1, <2>2
<1>7. backfill \in [pc : {"off", "batch", "done", "died"}, todo : SUBSET ((DOMAIN images) \X Key)]
  <2>1. backfill \in [pc : {"off", "batch", "done", "died"},
                      todo : SUBSET ((DOMAIN images) \X AnyKey)]
      BY DEF ServedInv, Counted
  <2>2. \A item \in backfill.todo : item \in (DOMAIN images) \X Key
      BY <1>2, <2>1 DEF ServedInv, InBounds
  <2>3. backfill.todo \in SUBSET ((DOMAIN images) \X Key)
      BY <2>2
  <2> QED BY <2>1, <2>3
<1>8. wipe \in [pc : {"off", "scoped", "deleted", "done"}, rows : SUBSET (DOMAIN images),
                keys : SUBSET Key]
  <2>1. wipe \in [pc : {"off", "scoped", "deleted", "done"}, rows : SUBSET (DOMAIN images),
                  keys : SUBSET AnyKey]
      BY DEF ServedInv, Counted
  <2> QED BY <1>3, <2>1
<1> QED BY <1>1, <1>3, <1>4, <1>5, <1>6, <1>7, <1>8
        DEF IngestTypeOK, ServedInv, Tried, Counted, UploaderRow

\* The type invariant of ingestion, with the bounds: keys are of uploads that
\* were begun, tries stay below RETRY_MAX_ATTEMPTS until a result, and there
\* are no more records than uploads and JSON rows could make.
THEOREM IngestionTyped == IngestSpec => []IngestTypeOK
<1> QED BY ServedTypes, KeysHaveOneOwner, RequestsAreServed, PTL

\* What was answered as a success is among what was stored.
LEMMA ServedPromise == ServedInv => SuccessIsStored
BY DEF ServedInv, Answered, Succeeded, HasImage, SuccessIsStored

\* What the uploader reports as a success has a record with an image, with any
\* number of threads, lost answers, reruns and conversions (upload_one).
THEOREM SuccessesAreStored == IngestSpec => []SuccessIsStored
<1> QED BY ServedPromise, RequestsAreServed, PTL

=============================================================================
