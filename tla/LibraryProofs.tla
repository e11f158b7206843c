----------------------------- MODULE LibraryProofs -----------------------------
(***************************************************************************)
(* The stamps of a document's passages against its tables, and a search    *)
(* against the lists, for every number of documents, entitlements, streams *)
(* and conversations and any interleaving of ingestions, label changes,    *)
(* re-stamps and deletions; and what a document question reads and cites   *)
(* when a source is withdrawn while it is answered.                        *)
(***************************************************************************)
EXTENDS Library, Asking, QueueClientProofs

(* Where restamp_document_chunks finds a document.                         *)
PlaceOf(d) ==
    IF ~Exists(d) THEN [stream |-> None, conv |-> None]
    ELSE [stream |-> doc[d].stream,
          conv |-> IF ChatScoped(d) /\ \E c \in Convs : <<d, c>> \in attached
                   THEN CHOOSE c \in Convs : <<d, c>> \in attached ELSE None]

(* A document that belongs to a chat is attached to that one and is in no  *)
(* stream, so the conversation a re-stamp reads is always the same.        *)
OneChat(d) ==
    ChatScoped(d) =>
        /\ doc[d].stream = None
        /\ \E c \in Convs : <<d, c>> \in attached
        /\ \A c, x \in Convs : <<d, c>> \in attached /\ <<d, x>> \in attached => c = x

(* A re-stamp after an insertion that was not overtaken carries what the   *)
(* tables say.                                                             *)
ReadIsCurrent(d) ==
    ingest[d].pc = "read" /\ ~ingest[d].re.dirty =>
        Exists(d) /\ ingest[d].re.stamps = [labels |-> doc[d].labels, place |-> PlaceOf(d)]

(* Passages that are settled belong to a document that is there and carry  *)
(* what its tables say.                                                    *)
SettledIsCurrent(d) ==
    Settled(d) /\ chunk[d] # NoChunks /\ d \notin crossed =>
        Exists(d) /\ chunk[d] = [labels |-> doc[d].labels, place |-> PlaceOf(d)]

(* What the row will say when the writer's transaction has committed.      *)
Promised(w) == (LabelIdsFor(writer[w].doc) \ writer[w].drop) \cup writer[w].add

(* A writer has a document, and its re-stamp, unless it was overtaken,     *)
(* carries what the tables will say.                                       *)
WriterIsCurrent(w) ==
    /\ writer[w].pc # "free" => writer[w].doc \in Docs
    /\ writer[w].pc = "stamping" /\ ~writer[w].re.dirty =>
          writer[w].re.stamps = [labels |-> Promised(w), place |-> PlaceOf(writer[w].doc)]

StampInv ==
    /\ \A d \in Docs : OneChat(d) /\ ReadIsCurrent(d) /\ SettledIsCurrent(d)
    /\ \A w \in Writers : WriterIsCurrent(w)

LibraryInv == TypeOK /\ StampInv

---------------------------------------------------------------------------
(* The two readings of the tables are one.                                 *)
LEMMA SaysPlace ==
    /\ \A d, l : TablesSay(d, l) = [labels |-> l, place |-> PlaceOf(d)]
    /\ \A d : Exists(d) => Current(d) = [labels |-> doc[d].labels, place |-> PlaceOf(d)]
    /\ \A d : ~Exists(d) => LabelIdsFor(d) = {}
    /\ \A d : Exists(d) => LabelIdsFor(d) = doc[d].labels
BY DEF TablesSay, PlaceOf, Current, LabelIdsFor, Unstamped

(* Nothing that is gone is a row.                                          *)
LEMMA RowsAreThere == \A r \in DocumentRow : r # Gone
BY DEF DocumentRow, Gone

(* None is no conversation, no stream and no document. *)
LEMMA ConvsAreNames == ASSUME LibraryAssumption PROVE None \notin Convs /\ None \notin Streams /\ None \notin Docs
BY DEF LibraryAssumption

(* The conversation of a chat's document is the one it is attached to.     *)
LEMMA TheChat ==
    ASSUME NEW d \in Docs, OneChat(d), ChatScoped(d), NEW c \in Convs, <<d, c>> \in attached
    PROVE  PlaceOf(d) = [stream |-> None, conv |-> c]
<1>1. (CHOOSE x \in Convs : <<d, x>> \in attached) = c
  BY DEF OneChat
<1> QED BY <1>1 DEF PlaceOf, OneChat, ChatScoped

(* A document that is not attached to a chat has the place of its row alone. *)
LEMMA NoChat ==
    ASSUME NEW d \in Docs, Exists(d), ~ChatScoped(d)
    PROVE  PlaceOf(d) = [stream |-> doc[d].stream, conv |-> None]
BY DEF PlaceOf

(* Where a document stands, as its passages are stamped with it, is a place. *)
LEMMA PlaceTyped ==
    ASSUME NEW d \in Docs, OneChat(d), doc[d] \in DocumentRow \cup {Gone} PROVE PlaceOf(d) \in Place
<1>1. CASE ~Exists(d)
  BY <1>1 DEF PlaceOf, Place
<1>2. CASE Exists(d) /\ ~ChatScoped(d)
  BY <1>2, NoChat DEF Place, DocumentRow, Exists
<1>3. CASE ChatScoped(d)
  <2>1. PICK c \in Convs : <<d, c>> \in attached
    BY <1>3 DEF OneChat
  <2> QED BY <1>3, <2>1, TheChat DEF Place
<1> QED BY <1>1, <1>2, <1>3

(* A document whose row keeps its scope and its stream, and whose          *)
(* attachments stay while it is a chat's, stays where it is.               *)
LEMMA StaysInPlace ==
    ASSUME NEW d \in Docs, OneChat(d), OneChat(d)', Exists(d)' <=> Exists(d),
           Exists(d) => doc'[d].scope = doc[d].scope /\ doc'[d].stream = doc[d].stream,
           ChatScoped(d) => \A c \in Convs : <<d, c>> \in attached => <<d, c>> \in attached'
    PROVE  PlaceOf(d)' = PlaceOf(d)
<1>1. CASE ~Exists(d)
  BY <1>1 DEF PlaceOf
<1>2. CASE Exists(d) /\ ~ChatScoped(d)
  BY <1>2 DEF PlaceOf, ChatScoped
<1>3. CASE ChatScoped(d)
  <2>1. PICK c \in Convs : <<d, c>> \in attached
    BY <1>3 DEF OneChat
  <2>2. ChatScoped(d)' /\ <<d, c>> \in attached'
    BY <1>3, <2>1 DEF ChatScoped
  <2>3. (CHOOSE x \in Convs : <<d, x>> \in attached') = c
    BY <2>2 DEF OneChat
  <2>4. PlaceOf(d)' = [stream |-> None, conv |-> c]
    BY <2>2, <2>3 DEF PlaceOf, OneChat, ChatScoped
  <2> QED BY <1>3, <2>1, <2>4, TheChat
<1> QED BY <1>1, <1>2, <1>3

---------------------------------------------------------------------------
(* How a step reaches a document and a writer.                             *)

Untouched(d) ==
    /\ doc'[d] = doc[d] /\ chunk'[d] = chunk[d] /\ ingest'[d] = ingest[d]
    /\ d \in crossed' <=> d \in crossed
    /\ ChatScoped(d) => \A c \in Convs : <<d, c>> \in attached' <=> <<d, c>> \in attached

(* A document none of whose rows, stamps and work a step touches keeps its part of the invariant. *)
LEMMA UntouchedKeeps ==
    ASSUME NEW d \in Docs, Untouched(d), OneChat(d), ReadIsCurrent(d), SettledIsCurrent(d)
    PROVE  OneChat(d)' /\ ReadIsCurrent(d)' /\ SettledIsCurrent(d)' /\ PlaceOf(d)' = PlaceOf(d)
<1>1. (Exists(d)' <=> Exists(d)) /\ (ChatScoped(d)' <=> ChatScoped(d)) /\ (Settled(d)' <=> Settled(d))
  BY DEF Untouched, Exists, ChatScoped, Settled
<1>2. OneChat(d)'
  BY <1>1 DEF Untouched, OneChat
<1>3. PlaceOf(d)' = PlaceOf(d)
  BY <1>1, <1>2, StaysInPlace DEF Untouched
<1> QED BY <1>1, <1>2, <1>3 DEF Untouched, ReadIsCurrent, SettledIsCurrent

(* A step on the documents S overtakes every re-stamp that has read one of *)
(* them.                                                                   *)
Overtakes(S) ==
    /\ \A d \in Docs \ S : Untouched(d)
    /\ \A d \in S : ingest'[d].pc = "read" => ingest'[d].re.dirty
    /\ \A w \in Writers :
          \/ writer'[w].pc = "free"
          \/ writer'[w].pc = "opened" /\ writer'[w].doc \in Docs
          \/ /\ writer'[w].pc = writer[w].pc /\ writer'[w].doc = writer[w].doc
             /\ writer'[w].pc = "stamping" /\ writer[w].doc \in S => writer'[w].re.dirty
             /\ writer[w].doc \notin S => writer'[w] = writer[w]

(* Then only the settled passages of S are to be looked at.                *)
LEMMA OvertakenStep ==
    ASSUME StampInv, NEW S \in SUBSET Docs, Overtakes(S), \A d \in S : OneChat(d)' /\ SettledIsCurrent(d)'
    PROVE  StampInv'
<1>1. ASSUME NEW d \in Docs \ S
      PROVE  OneChat(d)' /\ ReadIsCurrent(d)' /\ SettledIsCurrent(d)' /\ PlaceOf(d)' = PlaceOf(d)
  BY UntouchedKeeps DEF StampInv, Overtakes
<1>2. ASSUME NEW d \in S PROVE ReadIsCurrent(d)'
  BY DEF Overtakes, ReadIsCurrent
<1>3. ASSUME NEW w \in Writers PROVE WriterIsCurrent(w)'
  <2> DEFINE d == writer[w].doc
  <2>1. CASE writer'[w].pc = "free" \/ (writer'[w].pc = "opened" /\ writer'[w].doc \in Docs)
    BY <2>1 DEF WriterIsCurrent
  <2>2. CASE writer'[w].pc = writer[w].pc /\ writer'[w].doc = d
    <3>1. writer[w].pc # "free" => d \in Docs
      BY DEF StampInv, WriterIsCurrent
    <3>2. CASE writer[w].pc # "stamping"
      BY <2>2, <3>1, <3>2 DEF WriterIsCurrent
    <3>3. CASE writer[w].pc = "stamping" /\ d \in S
      <4>1. writer'[w].re.dirty
        BY <2>2, <3>3 DEF Overtakes
      <4> QED BY <2>2, <3>1, <4>1 DEF WriterIsCurrent
    <3>4. CASE writer[w].pc = "stamping" /\ d \notin S
      <4>1. writer'[w] = writer[w] /\ d \in Docs \ S
        BY <3>1, <3>4, <2>2 DEF Overtakes
      <4>2. \A e \in Docs \ S : PlaceOf(e)' = PlaceOf(e) /\ doc'[e] = doc[e]
        BY <1>1 DEF Overtakes, Untouched
      <4>3. PlaceOf(writer[w].doc)' = PlaceOf(d)
        BY <4>1, <4>2 DEF PlaceOf, Exists, ChatScoped
      <4>4. Promised(w)' = Promised(w)
        BY <4>1, <4>2 DEF Promised, LabelIdsFor, Exists
      <4> QED BY <3>1, <4>1, <4>3, <4>4 DEF StampInv, WriterIsCurrent
    <3> QED BY <3>2, <3>3, <3>4
  <2> QED BY <2>1, <2>2 DEF Overtakes
<1> QED BY <1>1, <1>2, <1>3 DEF StampInv

---------------------------------------------------------------------------
(* The type invariant in three parts.                                      *)

StreamRow == [universal : BOOLEAN, wall : SUBSET Entitlements]
IngestRow == [pc : {"idle", "started", "inserted", "read"}, re : Restamp]
WriterRow ==
    [pc : {"free", "opened", "labelling", "relabel", "stamping"}, doc : Docs \cup {None},
     wanted : SUBSET Entitlements, add : SUBSET Entitlements, drop : SUBSET Entitlements, re : Restamp]

TablesTyped ==
    /\ ents \subseteq Entitlements /\ convs \subseteq Convs
    /\ doc \in [Docs -> DocumentRow \cup {Gone}]
    /\ pins \subseteq Streams \X Docs /\ attached \subseteq Docs \X Convs
    /\ stream \in [Streams -> StreamRow]

TablesAgree ==
    /\ \A d \in Docs : Exists(d) => doc[d].labels \subseteq ents
    /\ \A s \in Streams : stream[s].wall \subseteq ents
    /\ \A x \in pins : Exists(x[2])
    /\ \A x \in attached : Exists(x[1])

WorkTyped ==
    /\ chunk \in [Docs -> Stamps \cup {NoChunks}] /\ crossed \subseteq Docs /\ failures \in 0..MaxFailures
    /\ ingest \in [Docs -> IngestRow]
    /\ writer \in [Writers -> WriterRow]

(* The type invariant in three parts: the tables, their agreement, the work in flight. *)
LEMMA TypeParts == (TypeOK <=> TablesTyped /\ TablesAgree /\ WorkTyped)
                   /\ (TypeOK' <=> TablesTyped' /\ TablesAgree' /\ WorkTyped')
BY DEF TypeOK, TablesTyped, TablesAgree, WorkTyped, StreamRow, IngestRow, WriterRow

(* A step that leaves the tables alone leaves them typed and in agreement. *)
LEMMA SameTables ==
    ASSUME TablesTyped, TablesAgree, UNCHANGED tables PROVE TablesTyped' /\ TablesAgree'
BY DEF tables, TablesTyped, TablesAgree, Exists

(* What a re-stamp carries when it has read.                               *)
LEMMA StampsTyped ==
    ASSUME TypeOK, NEW d \in Docs, OneChat(d), NEW l \in SUBSET Entitlements
    PROVE  /\ TablesSay(d, l) \in Stamps
           /\ LabelIdsFor(d) \in SUBSET Entitlements
           /\ \A b \in BOOLEAN : [stamps |-> TablesSay(d, l), dirty |-> b] \in Restamp
<1>1. doc[d] \in DocumentRow \cup {Gone}
  BY DEF TypeOK
<1>2. TablesSay(d, l) = [labels |-> l, place |-> PlaceOf(d)] /\ PlaceOf(d) \in Place
  BY <1>1, PlaceTyped, SaysPlace
<1>3. LabelIdsFor(d) \in SUBSET Entitlements
  BY <1>1 DEF LabelIdsFor, Exists, DocumentRow
<1> QED BY <1>2, <1>3 DEF Stamps, Restamp

(* The stamps that the tables call for now are stamps. *)
LEMMA CurrentTyped ==
    ASSUME TypeOK, NEW d \in Docs, OneChat(d)
    PROVE  Current(d) \in Stamps /\ \A b \in BOOLEAN : [stamps |-> Current(d), dirty |-> b] \in Restamp
BY StampsTyped DEF Current

(* The empty rows of an ingestion and of a writer are rows. *)
LEMMA EmptyRows == Idle \in IngestRow /\ Idle.pc = "idle" /\ Free \in WriterRow /\ Free.pc = "free" /\ Free.doc = None
BY DEF Idle, Free, IngestRow, WriterRow, Fresh, Unstamped, Restamp, Stamps, Place

(* The one UPDATE writes the stamps it is given.                           *)
LEMMA StampedFacts ==
    ASSUME WorkTyped, NEW d \in Docs, NEW re \in Restamp, Stamped(d, re)
    PROVE  /\ chunk' \in [Docs -> Stamps \cup {NoChunks}] /\ crossed' \subseteq Docs
           /\ chunk[d] = NoChunks => chunk'[d] = NoChunks
           /\ chunk[d] # NoChunks => chunk'[d] = re.stamps
           /\ d \notin crossed' => ~re.dirty
           /\ \A e \in Docs : e # d => chunk'[e] = chunk[e] /\ (e \in crossed' <=> e \in crossed)
<1>1. re.stamps \in Stamps
  BY DEF Restamp
<1> QED BY <1>1 DEF WorkTyped, Stamped

(* Those whose tables have changed.                                        *)
LEMMA BehindFacts ==
    ASSUME WorkTyped, NEW S \in SUBSET Docs
    PROVE  /\ IngestBehind(S) \in [Docs -> IngestRow]
           /\ \A d \in Docs \ S : IngestBehind(S)[d] = ingest[d]
           /\ \A d \in S : IngestBehind(S)[d].pc = ingest[d].pc
                            /\ (ingest[d].pc = "read" => IngestBehind(S)[d].re.dirty)
                            /\ (ingest[d].pc # "read" => IngestBehind(S)[d] = ingest[d])
           /\ WritersBehind(S) \in [Writers -> WriterRow]
           /\ \A w \in Writers :
                 /\ WritersBehind(S)[w].pc = writer[w].pc /\ WritersBehind(S)[w].doc = writer[w].doc
                 /\ writer[w].pc = "stamping" /\ writer[w].doc \in S => WritersBehind(S)[w].re.dirty
                 /\ writer[w].doc \notin S => WritersBehind(S)[w] = writer[w]
<1>1. ASSUME NEW d \in Docs
      PROVE  LET x == [ingest[d] EXCEPT !.re.dirty = TRUE] IN
             x \in IngestRow /\ x.pc = ingest[d].pc /\ x.re.dirty
  <2>1. ingest[d] \in IngestRow
    BY DEF WorkTyped
  <2>2. ingest[d].re \in Restamp
    BY <2>1 DEF IngestRow
  <2> QED BY <2>1, <2>2 DEF IngestRow, Restamp
<1>2. ASSUME NEW w \in Writers
      PROVE  LET x == [writer[w] EXCEPT !.re.dirty = TRUE] IN
             x \in WriterRow /\ x.pc = writer[w].pc /\ x.doc = writer[w].doc /\ x.re.dirty
  <2>1. writer[w] \in WriterRow
    BY DEF WorkTyped
  <2>2. writer[w].re \in Restamp
    BY <2>1 DEF WriterRow
  <2> QED BY <2>1, <2>2 DEF WriterRow, Restamp
<1>3. \A d \in Docs : ingest[d] \in IngestRow
  BY DEF WorkTyped
<1>4. \A w \in Writers : writer[w] \in WriterRow
  BY DEF WorkTyped
<1> QED BY <1>1, <1>2, <1>3, <1>4 DEF IngestBehind, WritersBehind

---------------------------------------------------------------------------
(* Ingestion.                                                              *)

LEMMA IngestionTypes ==
    ASSUME LibraryAssumption, LibraryInv, NEW d \in Docs,
           IngestStarts(d) \/ IngestProse(d) \/ RestampReads(d) \/ RestampWrites(d) \/ RestampFails(d)
    PROVE  TypeOK'
<1> USE TypeParts
<1>1. TablesTyped /\ TablesAgree /\ WorkTyped /\ UNCHANGED <<tables, writer>> /\ OneChat(d)
  BY DEF LibraryInv, StampInv, IngestStarts, IngestProse, RestampReads, RestampWrites, RestampFails
<1>2. TablesTyped' /\ TablesAgree'
  BY <1>1, SameTables
<1>3. ingest[d] \in IngestRow
  BY <1>1 DEF WorkTyped
<1>4. CASE IngestStarts(d)
  <2>1. [ingest[d] EXCEPT !.pc = "started"] \in IngestRow
    BY <1>3 DEF IngestRow
  <2> QED BY <1>1, <1>2, <1>4, <2>1 DEF IngestStarts, WorkTyped
<1>5. CASE IngestProse(d)
  <2>1. [ingest[d] EXCEPT !.pc = "inserted"] \in IngestRow
    BY <1>3 DEF IngestRow
  <2>2. Unstamped \in Stamps
    BY DEF Unstamped, Stamps, Place
  <2> QED BY <1>1, <1>2, <1>5, <2>1, <2>2 DEF IngestProse, WorkTyped
<1>6. CASE RestampReads(d)
  <2>1. [pc |-> "read", re |-> [stamps |-> Current(d), dirty |-> ~Exists(d)]] \in IngestRow
    BY <1>1, CurrentTyped DEF LibraryInv, IngestRow
  <2> QED BY <1>1, <1>2, <1>6, <2>1 DEF RestampReads, WorkTyped
<1>7. CASE RestampWrites(d)
  <2>1. ingest[d].re \in Restamp
    BY <1>3 DEF IngestRow
  <2>2. chunk' \in [Docs -> Stamps \cup {NoChunks}] /\ crossed' \subseteq Docs
    BY <1>1, <1>7, <2>1, StampedFacts DEF RestampWrites
  <2> QED BY <1>1, <1>2, <1>7, <2>2, EmptyRows DEF RestampWrites, WorkTyped
<1>8. CASE RestampFails(d)
  <2>1. failures' \in 0..MaxFailures
    BY <1>1, <1>8 DEF RestampFails, Fails, WorkTyped, LibraryAssumption
  <2> QED BY <1>1, <1>2, <1>8, <2>1, EmptyRows DEF RestampFails, WorkTyped
<1> QED BY <1>4, <1>5, <1>6, <1>7, <1>8

(* Every step of an ingestion and of its re-stamp keeps what is invariant about the stamps. *)
LEMMA IngestionStamps ==
    ASSUME LibraryInv, NEW d \in Docs,
           IngestStarts(d) \/ IngestProse(d) \/ RestampReads(d) \/ RestampWrites(d) \/ RestampFails(d)
    PROVE  StampInv'
<1>1. WorkTyped /\ UNCHANGED <<doc, attached, writer>> /\ OneChat(d) /\ ReadIsCurrent(d) /\ SettledIsCurrent(d)
  BY TypeParts DEF LibraryInv, StampInv, IngestStarts, IngestProse, RestampReads, RestampWrites, RestampFails, tables
<1>2. ASSUME NEW e \in Docs PROVE OneChat(e)' /\ PlaceOf(e)' = PlaceOf(e) /\ (Exists(e)' <=> Exists(e))
  BY <1>1 DEF OneChat, PlaceOf, Exists, ChatScoped, LibraryInv, StampInv
<1>3. ASSUME NEW w \in Writers PROVE WriterIsCurrent(w)'
  <2>1. WriterIsCurrent(w) /\ writer'[w] = writer[w]
    BY <1>1 DEF LibraryInv, StampInv
  <2>2. Promised(w)' = Promised(w) /\ PlaceOf(writer[w].doc)' = PlaceOf(writer[w].doc)
    BY <1>1 DEF Promised, LabelIdsFor, PlaceOf, Exists, ChatScoped
  <2> QED BY <2>1, <2>2 DEF WriterIsCurrent
<1>4. ASSUME NEW e \in Docs \ {d} PROVE Untouched(e)
  <2>1. ingest'[e] = ingest[e]
    BY <1>1 DEF WorkTyped, IngestStarts, IngestProse, RestampReads, RestampWrites, RestampFails
  <2>2. chunk'[e] = chunk[e] /\ (e \in crossed' <=> e \in crossed)
    BY <1>1 DEF WorkTyped, IngestStarts, IngestProse, RestampReads, RestampWrites, RestampFails, Stamped
  <2> QED BY <1>1, <2>1, <2>2 DEF Untouched
<1>5. ASSUME NEW e \in Docs \ {d} PROVE ReadIsCurrent(e)' /\ SettledIsCurrent(e)'
  BY <1>4, UntouchedKeeps DEF LibraryInv, StampInv
<1>6. ReadIsCurrent(d)' /\ SettledIsCurrent(d)'
  <2>0. ingest[d] \in IngestRow
    BY <1>1 DEF WorkTyped
  <2>1. CASE IngestStarts(d)
    <3>1. ingest'[d].pc = "started" /\ ingest[d].pc = "idle" /\ UNCHANGED <<chunk, crossed>>
      BY <1>1, <2>0, <2>1 DEF IngestStarts, WorkTyped, IngestRow
    <3> QED BY <1>1, <1>2, <3>1 DEF ReadIsCurrent, SettledIsCurrent, Settled
  <2>2. CASE IngestProse(d)
    <3>1. ingest'[d].pc = "inserted"
      BY <1>1, <2>0, <2>2 DEF IngestProse, WorkTyped, IngestRow
    <3> QED BY <3>1 DEF ReadIsCurrent, SettledIsCurrent, Settled
  <2>3. CASE RestampReads(d)
    <3>1. ingest'[d].pc = "read" /\ ingest'[d].re.dirty = ~Exists(d) /\ ingest'[d].re.stamps = Current(d)
      BY <1>1, <2>3 DEF RestampReads, WorkTyped
    <3> QED BY <1>1, <1>2, <3>1, SaysPlace DEF ReadIsCurrent, SettledIsCurrent, Settled
  <2>4. CASE RestampWrites(d)
    <3>1. ingest'[d] = Idle /\ ingest[d].pc = "read" /\ Stamped(d, ingest[d].re) /\ ingest[d].re \in Restamp
      BY <1>1, <2>0, <2>4 DEF RestampWrites, WorkTyped, IngestRow
    <3>2. /\ chunk[d] = NoChunks => chunk'[d] = NoChunks
          /\ chunk[d] # NoChunks => chunk'[d] = ingest[d].re.stamps
          /\ d \notin crossed' => ~ingest[d].re.dirty
      BY <1>1, <3>1, StampedFacts
    <3> QED BY <1>1, <1>2, <3>1, <3>2, EmptyRows DEF ReadIsCurrent, SettledIsCurrent
  <2>5. CASE RestampFails(d)
    <3>1. ingest'[d] = Idle /\ d \in crossed'
      BY <1>1, <2>5 DEF RestampFails, WorkTyped
    <3> QED BY <3>1, EmptyRows DEF ReadIsCurrent, SettledIsCurrent
  <2> QED BY <2>1, <2>2, <2>3, <2>4, <2>5
<1> QED BY <1>2, <1>3, <1>5, <1>6 DEF StampInv

---------------------------------------------------------------------------
(* Requests that change labels, before they commit, and when they roll     *)
(* back: one writer moves and no table does.                               *)

OneWriter(w, r) ==
    /\ UNCHANGED <<tables, chunk, ingest, crossed>>
    /\ writer' = [writer EXCEPT ![w] = r]
    /\ UNCHANGED failures \/ Fails

(* When one label writer's record changes and it carries the stamps its own change calls for, the
   invariant holds. *)
LEMMA OneWriterKeeps ==
    ASSUME LibraryAssumption, LibraryInv, NEW w \in Writers, NEW r \in WriterRow, OneWriter(w, r),
           r.pc # "free" => r.doc \in Docs,
           r.pc = "stamping" =>
               r.re.stamps = [labels |-> (LabelIdsFor(r.doc) \ r.drop) \cup r.add, place |-> PlaceOf(r.doc)]
    PROVE  LibraryInv'
<1>1. TablesTyped /\ TablesAgree /\ WorkTyped /\ UNCHANGED <<tables, doc, attached, chunk, ingest, crossed>>
  BY TypeParts DEF LibraryInv, OneWriter, tables
<1>2. failures' \in 0..MaxFailures
  BY <1>1 DEF OneWriter, Fails, WorkTyped, LibraryAssumption
<1>3. TypeOK'
  <2>1. writer' \in [Writers -> WriterRow]
    BY <1>1 DEF OneWriter, WorkTyped
  <2> QED BY <1>1, <1>2, <2>1, SameTables, TypeParts DEF WorkTyped
<1>4. ASSUME NEW d \in Docs PROVE OneChat(d)' /\ ReadIsCurrent(d)' /\ SettledIsCurrent(d)'
  BY <1>1, UntouchedKeeps DEF Untouched, LibraryInv, StampInv
<1>5. writer'[w] = r /\ \A v \in Writers : v # w => writer'[v] = writer[v]
  BY <1>1 DEF OneWriter, WorkTyped
<1>6. WriterIsCurrent(w)'
  BY <1>1, <1>5 DEF WriterIsCurrent, Promised, LabelIdsFor, PlaceOf, Exists, ChatScoped
<1>7. ASSUME NEW v \in Writers, v # w PROVE WriterIsCurrent(v)'
  <2>1. WriterIsCurrent(v) /\ writer'[v] = writer[v]
    BY <1>5, <1>7 DEF LibraryInv, StampInv
  <2> QED BY <1>1, <2>1 DEF WriterIsCurrent, Promised, LabelIdsFor, PlaceOf, Exists, ChatScoped
<1> QED BY <1>3, <1>4, <1>6, <1>7 DEF LibraryInv, StampInv

(* A request that opens notes a document and the labels it wants.          *)
LEMMA OpenedRow ==
    ASSUME NEW d \in Docs, NEW l \in SUBSET Entitlements
    PROVE  LET r == [Free EXCEPT !.pc = "opened", !.doc = d, !.wanted = l] IN
           r \in WriterRow /\ r.pc = "opened" /\ r.doc = d
BY DEF Free, WriterRow, Fresh, Unstamped, Restamp, Stamps, Place

(* Opening a change of one label, with the whole set computed from the labels it read, keeps the
   invariant. *)
LEMMA BulkKeeps ==
    ASSUME LibraryAssumption, LibraryInv, NEW w \in Writers, NEW p \in Principals, NEW d \in Docs, NEW e \in ents,
           DocumentLabelsBulk(w, p, d, e)
    PROVE  LibraryInv'
<1>1. doc[d].labels \subseteq Entitlements /\ e \in Entitlements
  BY TypeParts DEF LibraryInv, TablesTyped, TablesAgree, DocumentLabelsBulk
<1> DEFINE l == IF e \in doc[d].labels THEN doc[d].labels \ {e} ELSE doc[d].labels \cup {e}
           r == [Free EXCEPT !.pc = "opened", !.doc = d, !.wanted = l]
<1>2. r \in WriterRow /\ r.pc = "opened" /\ r.doc = d
  <2>1. l \in SUBSET Entitlements
    BY <1>1
  <2> HIDE DEF l
  <2> QED BY <2>1, OpenedRow
<1>3. OneWriter(w, r)
  BY DEF DocumentLabelsBulk, Opens, OneWriter
<1> HIDE DEF r
<1> QED BY <1>2, <1>3, OneWriterKeeps

(* Computing the difference to the labels there are keeps the invariant. *)
LEMMA SetLabelsKeeps ==
    ASSUME LibraryAssumption, LibraryInv, NEW w \in Writers, SetDocumentLabels(w) PROVE LibraryInv'
<1> DEFINE d == writer[w].doc
           add == writer[w].wanted \ LabelIdsFor(d)
           drop == LabelIdsFor(d) \ writer[w].wanted
           g == writer[w]
<1>1. g \in WriterRow /\ g.pc = "opened" /\ d \in Docs /\ OneChat(d)
  BY TypeParts DEF LibraryInv, StampInv, WorkTyped, SetDocumentLabels, WriterIsCurrent
<1>2. LabelIdsFor(d) \in SUBSET Entitlements /\ g.wanted \in SUBSET Entitlements
  BY <1>1, StampsTyped DEF LibraryInv, WriterRow
<1>3. add \in SUBSET Entitlements /\ drop \in SUBSET Entitlements
  BY <1>2
<1>4. OneWriter(w, Free) \/ OneWriter(w, [g EXCEPT !.pc = "labelling", !.add = add, !.drop = drop])
  BY DEF SetDocumentLabels, OneWriter
<1>5. CASE OneWriter(w, Free)
  BY <1>5, EmptyRows, OneWriterKeeps
<1>6. CASE OneWriter(w, [g EXCEPT !.pc = "labelling", !.add = add, !.drop = drop])
  <2> HIDE DEF add, drop, g
  <2> DEFINE r == [g EXCEPT !.pc = "labelling", !.add = add, !.drop = drop]
  <2>1. r \in WriterRow /\ r.pc = "labelling" /\ r.doc = g.doc
    BY <1>1, <1>3 DEF WriterRow
  <2>2. OneWriter(w, r)
    BY <1>6
  <2>3. r.doc \in Docs
    BY <1>1, <2>1 DEF g
  <2> HIDE DEF r
  <2> QED BY <2>1, <2>2, <2>3, OneWriterKeeps
<1> QED BY <1>4, <1>5, <1>6

(* Reading what the stamps will be once the change is saved keeps the invariant. *)
LEMMA LabelReadsKeeps ==
    ASSUME LibraryAssumption, LibraryInv, NEW w \in Writers, LabelStampReads(w) PROVE LibraryInv'
<1> DEFINE d == writer[w].doc
           g == writer[w]
           mine == (LabelIdsFor(d) \ g.drop) \cup g.add
           re == Fresh(TablesSay(d, mine))
<1>1. g \in WriterRow /\ g.pc = "labelling" /\ d \in Docs /\ OneChat(d)
  BY TypeParts DEF LibraryInv, StampInv, WorkTyped, LabelStampReads, WriterIsCurrent
<1>2. LabelIdsFor(d) \in SUBSET Entitlements
  BY <1>1, StampsTyped DEF LibraryInv
<1>3. mine \in SUBSET Entitlements
  BY <1>1, <1>2 DEF WriterRow
<1>4. re \in Restamp /\ re.stamps = [labels |-> mine, place |-> PlaceOf(d)]
  <2> HIDE DEF mine
  <2>1. re = [stamps |-> TablesSay(d, mine), dirty |-> FALSE]
    BY DEF Fresh
  <2>2. TablesSay(d, mine) = [labels |-> mine, place |-> PlaceOf(d)]
    BY SaysPlace
  <2>3. \A b \in BOOLEAN : [stamps |-> TablesSay(d, mine), dirty |-> b] \in Restamp
    <3>1. TypeOK /\ d \in Docs /\ OneChat(d) /\ mine \in SUBSET Entitlements
      BY <1>1, <1>3 DEF LibraryInv
    <3> HIDE DEF d
    <3> QED BY <3>1, StampsTyped
  <2> HIDE DEF re
  <2> QED BY <2>1, <2>2, <2>3
<1>5. OneWriter(w, [g EXCEPT !.pc = "stamping", !.re = re])
  BY DEF LabelStampReads, OneWriter
<1> HIDE DEF re, g
<1> DEFINE r == [g EXCEPT !.pc = "stamping", !.re = re]
<1>6. r \in WriterRow /\ r.pc = "stamping" /\ r.doc = g.doc /\ r.re = re /\ r.add = g.add /\ r.drop = g.drop
  BY <1>1, <1>4 DEF WriterRow
<1>7. OneWriter(w, r)
  BY <1>5
<1> HIDE DEF r
<1>8. r.doc = d /\ r.doc \in Docs
  BY <1>1, <1>6 DEF g
<1>9. r.re.stamps = [labels |-> (LabelIdsFor(r.doc) \ r.drop) \cup r.add, place |-> PlaceOf(r.doc)]
  BY <1>4, <1>6, <1>8
<1> QED BY <1>6, <1>7, <1>8, <1>9, OneWriterKeeps

(* A label change that is rolled back keeps the invariant: neither its rows nor its stamps were seen. *)
LEMMA RollBackKeeps ==
    ASSUME LibraryAssumption, LibraryInv, NEW w \in Writers, LabelRollsBack(w) PROVE LibraryInv'
<1>1. OneWriter(w, Free)
  BY DEF LabelRollsBack, OneWriter
<1> QED BY <1>1, EmptyRows, OneWriterKeeps

(* relabel_chunks, which stamps a document anew without changing its rows, keeps the invariant when it
   takes up a document. *)
LEMMA RelabelKeeps ==
    ASSUME LibraryAssumption, LibraryInv, NEW w \in Writers, NEW d \in Docs, RelabelChunks(w, d) PROVE LibraryInv'
<1> DEFINE re == Fresh(Current(d))
           r == [Free EXCEPT !.pc = "stamping", !.doc = d, !.re = re]
<1>1. OneChat(d) /\ TypeOK /\ Exists(d) /\ OneWriter(w, r)
  BY DEF LibraryInv, StampInv, RelabelChunks, OneWriter
<1>2. re \in Restamp /\ re.stamps = [labels |-> LabelIdsFor(d), place |-> PlaceOf(d)]
  BY <1>1, CurrentTyped, SaysPlace DEF Fresh
<1> HIDE DEF re
<1>3. r \in WriterRow /\ r.pc = "stamping" /\ r.doc = d /\ r.re = re /\ r.add = {} /\ r.drop = {}
  BY <1>2 DEF Free, WriterRow, Fresh, Unstamped, Restamp, Stamps, Place
<1> HIDE DEF r
<1>4. r.re.stamps = [labels |-> (LabelIdsFor(r.doc) \ r.drop) \cup r.add, place |-> PlaceOf(r.doc)]
  BY <1>2, <1>3
<1> QED BY <1>1, <1>3, <1>4, OneWriterKeeps

---------------------------------------------------------------------------
(* Steps that change tables.  What each writes is a row, and the other     *)
(* parts of the type invariant follow.                                     *)

LEMMA LabelledRow ==
    ASSUME NEW r \in DocumentRow, NEW l \in SUBSET Entitlements
    PROVE  LET x == [r EXCEPT !.labels = l] IN
           /\ x \in DocumentRow /\ x # Gone /\ x.labels = l
           /\ x.scope = r.scope /\ x.stream = r.stream
BY RowsAreThere DEF DocumentRow

(* The row of a staged upload that is taken over by a principal is a row, without labels and universal. *)
LEMMA TakenRow ==
    ASSUME TypeOK, NEW d \in Docs, Exists(d), NEW p \in Principals
    PROVE  /\ Taken(d, p) \in DocumentRow /\ Taken(d, p) # Gone
           /\ Taken(d, p).labels = {} /\ Taken(d, p).scope = "universal"
<1>1. doc[d] \in DocumentRow /\ p.name \in Names
  BY DEF TypeOK, Exists, Names
<1> QED BY <1>1, RowsAreThere DEF Taken, DocumentRow, Scopes

(* A new document's row is a row, without labels. *)
LEMMA NewRowTyped ==
    ASSUME NEW o \in Names \cup {None}, NEW c \in Convs \cup {None}, NEW s \in Scopes, NEW m \in Streams \cup {None}
    PROVE  LET x == NewRow(o, c, s, m) IN
           x \in DocumentRow /\ x # Gone /\ x.labels = {} /\ x.scope = s /\ x.stream = m
BY RowsAreThere DEF NewRow, DocumentRow

(* Pins, walls, the universal switch, and a conversation whose clean-up    *)
(* raised.                                                                 *)
LEMMA NoDocumentKeeps ==
    ASSUME LibraryAssumption, LibraryInv,
           \/ \E p \in Principals, s \in Streams, d \in Docs : PinDocument(p, s, d) \/ UnpinDocument(p, s, d)
           \/ \E s \in Streams : ScopeStream(s)
           \/ \E c \in Convs : DeleteAttachmentsFails(c)
    PROVE  LibraryInv'
<1>0. TablesTyped /\ TablesAgree /\ WorkTyped
  BY TypeParts DEF LibraryInv
<1>1. UNCHANGED <<ents, doc, attached, chunk, ingest, writer, crossed>>
  BY DEF PinDocument, UnpinDocument, ScopeStream, DeleteAttachmentsFails
<1>2. StampInv'
  <2>1. Overtakes({})
    BY <1>1 DEF Overtakes, Untouched
  <2> QED BY <2>1, OvertakenStep DEF LibraryInv
<1>3. WorkTyped'
  <2>1. UNCHANGED failures \/ Fails
    BY DEF PinDocument, UnpinDocument, ScopeStream, DeleteAttachmentsFails
  <2>2. failures' \in 0..MaxFailures
    BY <1>0, <2>1 DEF Fails, WorkTyped, LibraryAssumption
  <2> QED BY <1>0, <1>1, <2>2 DEF WorkTyped
<1>4. TablesTyped' /\ TablesAgree'
  <2>1. ASSUME NEW p \in Principals, NEW s \in Streams, NEW d \in Docs, PinDocument(p, s, d)
        PROVE  TablesTyped' /\ TablesAgree'
    <3>1. Exists(d) /\ pins' = pins \cup {<<s, d>>} /\ UNCHANGED <<stream, convs>>
      BY <2>1 DEF PinDocument, ReadableDocument
    <3>2. pins' \subseteq Streams \X Docs
      BY <1>0, <3>1 DEF TablesTyped
    <3>3. \A x \in pins' : Exists(x[2])
      BY <1>0, <3>1 DEF TablesAgree
    <3> QED BY <1>0, <1>1, <3>1, <3>2, <3>3 DEF TablesTyped, TablesAgree, Exists
  <2>2. ASSUME NEW p \in Principals, NEW s \in Streams, NEW d \in Docs, UnpinDocument(p, s, d)
        PROVE  TablesTyped' /\ TablesAgree'
    <3>1. pins' = pins \ {<<s, d>>} /\ UNCHANGED <<stream, convs>>
      BY <2>2 DEF UnpinDocument
    <3> QED BY <1>0, <1>1, <3>1 DEF TablesTyped, TablesAgree, Exists
  <2>3. ASSUME NEW s \in Streams, ScopeStream(s) PROVE TablesTyped' /\ TablesAgree'
    <3>1. UNCHANGED <<pins, convs>>
      BY <2>3 DEF ScopeStream
    <3>2. PICK x \in StreamRow : stream' = [stream EXCEPT ![s] = x] /\ x.wall \subseteq ents
      <4>1. stream[s] \in StreamRow /\ stream[s].wall \subseteq ents /\ ents \subseteq Entitlements
        BY <1>0 DEF TablesTyped, TablesAgree
      <4>2. CASE stream' = [stream EXCEPT ![s].universal = ~@]
        <5> DEFINE x == [stream[s] EXCEPT !.universal = ~@]
        <5>1. x \in StreamRow /\ x.wall = stream[s].wall
          BY <4>1 DEF StreamRow
        <5>2. stream' = [stream EXCEPT ![s] = x]
          BY <4>2
        <5> QED BY <4>1, <5>1, <5>2
      <4>3. CASE \E e \in ents : stream' = [stream EXCEPT ![s].wall = IF e \in @ THEN @ \ {e} ELSE @ \cup {e}]
        <5>1. PICK e \in ents : stream' = [stream EXCEPT ![s].wall = IF e \in @ THEN @ \ {e} ELSE @ \cup {e}]
          BY <4>3
        <5> DEFINE l == IF e \in stream[s].wall THEN stream[s].wall \ {e} ELSE stream[s].wall \cup {e}
                   x == [stream[s] EXCEPT !.wall = l]
        <5>2. l \subseteq ents
          BY <4>1
        <5>3. x \in StreamRow /\ x.wall = l
          BY <4>1, <5>2 DEF StreamRow
        <5>4. stream' = [stream EXCEPT ![s] = x]
          BY <5>1
        <5> QED BY <5>2, <5>3, <5>4
      <4> QED BY <2>3, <4>2, <4>3 DEF ScopeStream
    <3>3. stream' \in [Streams -> StreamRow] /\ \A m \in Streams : stream'[m].wall \subseteq ents
      BY <1>0, <3>2 DEF TablesTyped, TablesAgree
    <3> QED BY <1>0, <1>1, <3>1, <3>3 DEF TablesTyped, TablesAgree, Exists
  <2>4. ASSUME NEW c \in Convs, DeleteAttachmentsFails(c) PROVE TablesTyped' /\ TablesAgree'
    <3>1. convs' = convs \ {c} /\ UNCHANGED <<pins, stream>>
      BY <2>4 DEF DeleteAttachmentsFails
    <3> QED BY <1>0, <1>1, <3>1 DEF TablesTyped, TablesAgree, Exists
  <2> QED BY <2>1, <2>2, <2>3, <2>4
<1> QED BY <1>2, <1>3, <1>4, TypeParts DEF LibraryInv

(* A label change commits, or relabel_chunks writes.                       *)
LEMMA CommitKeeps ==
    ASSUME LibraryAssumption, LibraryInv, NEW w \in Writers, NEW d \in Docs, writer[w].doc = d, LabelCommits(w)
    PROVE  LibraryInv'
<1> DEFINE g == writer[w]
           l == (doc[d].labels \ g.drop) \cup g.add
           x == [doc[d] EXCEPT !.labels = l]
<1>0. TablesTyped /\ TablesAgree /\ WorkTyped
  BY TypeParts DEF LibraryInv
<1>1. g \in WriterRow /\ g.pc = "stamping" /\ d \in Docs /\ WriterIsCurrent(w) /\ OneChat(d) /\ SettledIsCurrent(d)
  BY <1>0 DEF LibraryInv, StampInv, WorkTyped, LabelCommits, WriterIsCurrent
<1>2. Exists(d) /\ g.add \subseteq ents /\ Stamped(d, g.re)
  BY DEF LabelCommits, CommitRefused
<1>3. doc[d] \in DocumentRow /\ doc[d].labels \subseteq ents /\ l \subseteq ents /\ l \in SUBSET Entitlements
  <2>1. doc[d] \in DocumentRow /\ doc[d].labels \subseteq ents /\ ents \subseteq Entitlements
    BY <1>0, <1>1, <1>2 DEF TablesTyped, TablesAgree, Exists
  <2> QED BY <1>2, <2>1
<1>4. doc' = [doc EXCEPT ![d] = x] /\ ingest' = IngestBehind({d})
      /\ writer' = [WritersBehind({d}) EXCEPT ![w] = Free]
      /\ UNCHANGED <<ents, pins, attached, convs, stream, failures>>
  BY DEF LabelCommits
<1>5. x \in DocumentRow /\ x # Gone /\ x.labels = l /\ x.scope = doc[d].scope /\ x.stream = doc[d].stream
  BY <1>3, LabelledRow
<1>6. g.re \in Restamp
  BY <1>1 DEF WriterRow
<1>7. /\ chunk' \in [Docs -> Stamps \cup {NoChunks}] /\ crossed' \subseteq Docs
      /\ chunk[d] = NoChunks => chunk'[d] = NoChunks
      /\ chunk[d] # NoChunks => chunk'[d] = g.re.stamps
      /\ d \notin crossed' => ~g.re.dirty
      /\ \A e \in Docs : e # d => chunk'[e] = chunk[e] /\ (e \in crossed' <=> e \in crossed)
  BY <1>0, <1>1, <1>2, <1>6, StampedFacts
<1>8. g.re.dirty \/ g.re.stamps = [labels |-> l, place |-> PlaceOf(d)]
  BY <1>1, <1>2, SaysPlace DEF WriterIsCurrent, Promised
<1> HIDE DEF x, l, g
<1>9. doc' \in [Docs -> DocumentRow \cup {Gone}] /\ doc'[d] = x /\ \A e \in Docs : e # d => doc'[e] = doc[e]
  BY <1>0, <1>1, <1>4, <1>5 DEF TablesTyped
<1>10. \A e \in Docs : Exists(e)' <=> Exists(e)
  BY <1>2, <1>5, <1>9 DEF Exists
<1>11. TypeOK'
  <2>1. TablesTyped'
    BY <1>0, <1>4, <1>9 DEF TablesTyped
  <2>2. TablesAgree'
    <3>1. \A e \in Docs : Exists(e)' => doc'[e].labels \subseteq ents'
      BY <1>0, <1>3, <1>4, <1>5, <1>9, <1>10 DEF TablesAgree
    <3>2. \A y \in pins' : Exists(y[2])'
      BY <1>0, <1>4, <1>10 DEF TablesAgree, TablesTyped
    <3>3. \A y \in attached' : Exists(y[1])'
      BY <1>0, <1>4, <1>10 DEF TablesAgree, TablesTyped
    <3> QED BY <1>0, <1>4, <3>1, <3>2, <3>3 DEF TablesAgree
  <2>3. WorkTyped'
    <3>1. IngestBehind({d}) \in [Docs -> IngestRow] /\ WritersBehind({d}) \in [Writers -> WriterRow]
      BY <1>0, <1>1, BehindFacts
    <3> QED BY <1>0, <1>4, <1>7, <3>1, EmptyRows DEF WorkTyped
  <2> QED BY <2>1, <2>2, <2>3, TypeParts
<1>12. Overtakes({d})
  <2>1. \A e \in Docs \ {d} : ingest'[e] = ingest[e]
    BY <1>0, <1>1, <1>4, BehindFacts
  <2>2. \A e \in Docs \ {d} : Untouched(e)
    BY <1>4, <1>7, <1>9, <2>1 DEF Untouched
  <2>3. ingest'[d].pc = "read" => ingest'[d].re.dirty
    BY <1>0, <1>1, <1>4, BehindFacts
  <2>4. ASSUME NEW v \in Writers
        PROVE  \/ writer'[v].pc = "free"
               \/ /\ writer'[v].pc = writer[v].pc /\ writer'[v].doc = writer[v].doc
                  /\ writer'[v].pc = "stamping" /\ writer[v].doc \in {d} => writer'[v].re.dirty
                  /\ writer[v].doc \notin {d} => writer'[v] = writer[v]
    <3>1. WritersBehind({d}) \in [Writers -> WriterRow]
          /\ WritersBehind({d})[v].pc = writer[v].pc /\ WritersBehind({d})[v].doc = writer[v].doc
          /\ (writer[v].pc = "stamping" /\ writer[v].doc \in {d} => WritersBehind({d})[v].re.dirty)
          /\ (writer[v].doc \notin {d} => WritersBehind({d})[v] = writer[v])
      BY <1>0, <1>1, BehindFacts
    <3>2. writer'[v] = IF v = w THEN Free ELSE WritersBehind({d})[v]
      BY <1>4, <3>1
    <3> QED BY <3>1, <3>2, EmptyRows
  <2> QED BY <2>2, <2>3, <2>4 DEF Overtakes
<1>13. OneChat(d)' /\ PlaceOf(d)' = PlaceOf(d)
  <2>1. ChatScoped(d)' <=> ChatScoped(d)
    BY <1>1, <1>5, <1>9, <1>10 DEF ChatScoped
  <2>2. OneChat(d)'
    BY <1>1, <1>4, <1>5, <1>9, <2>1 DEF OneChat
  <2> QED BY <1>1, <1>4, <1>5, <1>9, <1>10, <2>2, StaysInPlace
<1>14. SettledIsCurrent(d)'
  BY <1>1, <1>2, <1>5, <1>7, <1>8, <1>9, <1>10, <1>13 DEF SettledIsCurrent
<1>15. StampInv'
  BY <1>1, <1>12, <1>13, <1>14, OvertakenStep DEF LibraryInv
<1> QED BY <1>11, <1>15 DEF LibraryInv

(* A label change that commits is about a document. *)
LEMMA CommitHasDocument ==
    ASSUME LibraryInv, NEW w \in Writers, LabelCommits(w) PROVE writer[w].doc \in Docs
BY DEF LibraryInv, StampInv, WriterIsCurrent, LabelCommits

(* delete_entitlement's cascade.                                           *)
LEMMA UnlabelKeeps ==
    ASSUME LibraryAssumption, LibraryInv, NEW e \in Entitlements, UnlabelAllForEntitlement(e) PROVE LibraryInv'
<1>0. TablesTyped /\ TablesAgree /\ WorkTyped
  BY TypeParts DEF LibraryInv
<1>1. PICK S \in SUBSET Docs : S = {d \in Docs : e \in LabelIdsFor(d)}
  OBVIOUS
<1>2. /\ doc' = [d \in Docs |-> IF d \in S THEN [doc[d] EXCEPT !.labels = @ \ {e}] ELSE doc[d]]
      /\ chunk' = [d \in Docs |-> IF d \in S /\ chunk[d] # NoChunks
                                   THEN TablesSay(d, doc[d].labels \ {e}) ELSE chunk[d]]
      /\ crossed' = crossed \ S
      /\ stream' = [s \in Streams |-> [stream[s] EXCEPT !.wall = @ \ {e}]]
      /\ ents' = ents \ {e} /\ ingest' = IngestBehind(S) /\ writer' = WritersBehind(S)
      /\ UNCHANGED <<pins, attached, convs, failures>>
  BY <1>1 DEF UnlabelAllForEntitlement, Disturb
<1>3. ASSUME NEW d \in S
      PROVE  /\ Exists(d) /\ doc[d] \in DocumentRow /\ doc'[d] \in DocumentRow /\ doc'[d] # Gone
             /\ doc'[d].labels = doc[d].labels \ {e}
             /\ doc'[d].scope = doc[d].scope /\ doc'[d].stream = doc[d].stream
             /\ doc[d].labels \subseteq ents /\ doc[d].labels \in SUBSET Entitlements
  <2>1. Exists(d)
    BY <1>1, SaysPlace
  <2>2. doc[d] \in DocumentRow /\ doc[d].labels \subseteq ents /\ doc[d].labels \in SUBSET Entitlements
    BY <1>0, <2>1 DEF TablesTyped, TablesAgree, Exists
  <2>3. doc[d].labels \ {e} \in SUBSET Entitlements /\ doc'[d] = [doc[d] EXCEPT !.labels = doc[d].labels \ {e}]
    BY <1>2, <2>2
  <2> QED BY <2>1, <2>2, <2>3, LabelledRow
<1>4. ASSUME NEW d \in Docs \ S PROVE doc'[d] = doc[d] /\ chunk'[d] = chunk[d] /\ (d \in crossed' <=> d \in crossed)
                                      /\ (Exists(d) => e \notin doc[d].labels)
  BY <1>1, <1>2, SaysPlace
<1>5. \A d \in Docs : Exists(d)' <=> Exists(d)
  BY <1>3, <1>4 DEF Exists
<1>6. TypeOK'
  <2>1. doc' \in [Docs -> DocumentRow \cup {Gone}]
    BY <1>0, <1>2, <1>3, <1>4 DEF TablesTyped
  <2>2. \A s \in Streams : stream'[s] \in StreamRow /\ stream'[s].wall = stream[s].wall \ {e}
    <3>1. \A s \in Streams : stream[s] \in StreamRow
      BY <1>0 DEF TablesTyped
    <3> QED BY <1>2, <3>1 DEF StreamRow
  <2>3. TablesTyped'
    BY <1>0, <1>2, <2>1, <2>2 DEF TablesTyped
  <2>4. TablesAgree'
    <3>1. ASSUME NEW d \in Docs, Exists(d)' PROVE doc'[d].labels \subseteq ents'
      BY <1>0, <1>2, <1>3, <1>4, <1>5, <3>1 DEF TablesAgree
    <3>2. \A y \in pins' : Exists(y[2])'
      BY <1>0, <1>2, <1>5 DEF TablesAgree, TablesTyped
    <3>3. \A y \in attached' : Exists(y[1])'
      BY <1>0, <1>2, <1>5 DEF TablesAgree, TablesTyped
    <3>4. \A s \in Streams : stream'[s].wall \subseteq ents'
      BY <1>0, <1>2, <2>2 DEF TablesAgree
    <3> QED BY <3>1, <3>2, <3>3, <3>4 DEF TablesAgree
  <2>5. WorkTyped'
    <3>1. IngestBehind(S) \in [Docs -> IngestRow] /\ WritersBehind(S) \in [Writers -> WriterRow]
      BY <1>0, BehindFacts
    <3>2. \A d \in S : TablesSay(d, doc[d].labels \ {e}) \in Stamps
      BY <1>3, StampsTyped DEF LibraryInv, StampInv
    <3>3. chunk' \in [Docs -> Stamps \cup {NoChunks}]
      BY <1>0, <1>2, <3>2 DEF WorkTyped
    <3> QED BY <1>0, <1>2, <3>1, <3>3 DEF WorkTyped
  <2> QED BY <2>3, <2>4, <2>5, TypeParts
<1>7. Overtakes(S)
  <2>1. \A d \in Docs \ S : Untouched(d)
    <3>1. \A d \in Docs \ S : ingest'[d] = ingest[d]
      BY <1>0, <1>2, BehindFacts
    <3> QED BY <1>2, <1>4, <3>1 DEF Untouched
  <2>2. \A d \in S : ingest'[d].pc = "read" => ingest'[d].re.dirty
    BY <1>0, <1>2, BehindFacts
  <2>3. \A w \in Writers :
             /\ writer'[w].pc = writer[w].pc /\ writer'[w].doc = writer[w].doc
             /\ writer'[w].pc = "stamping" /\ writer[w].doc \in S => writer'[w].re.dirty
             /\ writer[w].doc \notin S => writer'[w] = writer[w]
    BY <1>0, <1>2, BehindFacts
  <2> QED BY <2>1, <2>2, <2>3 DEF Overtakes
<1>8. ASSUME NEW d \in S PROVE OneChat(d)' /\ SettledIsCurrent(d)'
  <2>1. OneChat(d)'
    BY <1>2, <1>3, <1>5 DEF OneChat, ChatScoped, LibraryInv, StampInv
  <2>2. PlaceOf(d)' = PlaceOf(d)
    BY <1>2, <1>3, <1>5, <2>1, StaysInPlace DEF LibraryInv, StampInv
  <2>3. chunk[d] # NoChunks => chunk'[d] = [labels |-> doc'[d].labels, place |-> PlaceOf(d)]
    BY <1>2, <1>3, SaysPlace
  <2>4. chunk[d] = NoChunks => chunk'[d] = NoChunks
    BY <1>2
  <2> QED BY <1>3, <1>5, <2>1, <2>2, <2>3, <2>4 DEF SettledIsCurrent
<1> QED BY <1>6, <1>7, <1>8, OvertakenStep DEF LibraryInv

(* A document that was not there is staged.                                *)
Arrives(d, x) ==
    /\ Stageable(d) /\ doc' = [doc EXCEPT ![d] = x] /\ crossed' = crossed \ {d}
    /\ \/ x.scope = "universal" /\ UNCHANGED attached
       \/ (x.scope = "conversation" => x.stream = None) /\ \E c \in Convs : attached' = attached \cup {<<d, c>>}
    /\ \/ UNCHANGED writer
       \/ \E w \in Writers, l \in SUBSET Entitlements : Opens(w, d, l)
    /\ UNCHANGED <<ents, pins, convs, stream, chunk, ingest, failures>>

(* A document that arrives with a row without labels keeps the invariant: it has no passage yet. *)
LEMMA ArrivalKeeps ==
    ASSUME LibraryAssumption, LibraryInv, NEW d \in Docs, NEW x \in DocumentRow, x # Gone, x.labels = {}, Arrives(d, x)
    PROVE  LibraryInv'
<1>0. TablesTyped /\ TablesAgree /\ WorkTyped
  BY TypeParts DEF LibraryInv
<1>1. ~Exists(d) /\ chunk[d] = NoChunks /\ ingest[d] = Idle /\ \A w \in Writers : writer[w].doc # d
  BY DEF Arrives, Stageable
<1>2. doc'[d] = x /\ doc' \in [Docs -> DocumentRow \cup {Gone}] /\ \A e \in Docs : e # d => doc'[e] = doc[e]
  BY <1>0 DEF Arrives, TablesTyped
<1>3. /\ UNCHANGED <<ents, pins, convs, stream, chunk, ingest, failures>> /\ crossed' = crossed \ {d}
      /\ attached' \subseteq attached \cup ({d} \X Convs) /\ attached \subseteq attached'
  BY DEF Arrives
<1>4. writer' \in [Writers -> WriterRow]
      /\ \A v \in Writers : writer'[v] = writer[v] \/ (writer'[v].pc = "opened" /\ writer'[v].doc = d)
  <2>1. CASE UNCHANGED writer
    BY <1>0, <2>1 DEF WorkTyped
  <2>2. ASSUME NEW w \in Writers, NEW l \in SUBSET Entitlements, Opens(w, d, l)
        PROVE  /\ writer' \in [Writers -> WriterRow]
               /\ \A v \in Writers : writer'[v] = writer[v] \/ (writer'[v].pc = "opened" /\ writer'[v].doc = d)
    <3> DEFINE r == [Free EXCEPT !.pc = "opened", !.doc = d, !.wanted = l]
    <3>1. r \in WriterRow /\ r.pc = "opened" /\ r.doc = d
      BY OpenedRow
    <3>2. writer' = [writer EXCEPT ![w] = r]
      BY <2>2 DEF Opens
    <3> HIDE DEF r
    <3> QED BY <1>0, <3>1, <3>2 DEF WorkTyped
  <2> QED BY <2>1, <2>2 DEF Arrives
<1>5. TypeOK'
  <2>1. \A e \in Docs : Exists(e) => Exists(e)'
    BY <1>1, <1>2 DEF Exists
  <2>2. TablesTyped'
    BY <1>0, <1>2, <1>3 DEF TablesTyped
  <2>3. TablesAgree'
    <3>1. \A e \in Docs : Exists(e)' => doc'[e].labels \subseteq ents'
      BY <1>0, <1>2, <1>3 DEF TablesAgree, Exists
    <3>2. \A y \in pins' : Exists(y[2])'
      BY <1>0, <1>3, <2>1 DEF TablesAgree, TablesTyped
    <3>3. ASSUME NEW y \in attached' PROVE Exists(y[1])'
      <4>1. CASE y \in attached
        BY <1>0, <2>1, <4>1 DEF TablesAgree, TablesTyped
      <4>2. CASE y \in {d} \X Convs
        BY <1>2, <4>2 DEF Exists
      <4> QED BY <1>3, <4>1, <4>2
    <3> QED BY <1>0, <1>3, <3>1, <3>2, <3>3 DEF TablesAgree
  <2>4. WorkTyped'
    BY <1>0, <1>3, <1>4 DEF WorkTyped
  <2> QED BY <2>2, <2>3, <2>4, TypeParts
<1>6. Overtakes({d})
  <2>1. \A e \in Docs \ {d} : Untouched(e)
    BY <1>2, <1>3 DEF Untouched
  <2>2. ingest'[d].pc # "read"
    BY <1>1, <1>3, EmptyRows
  <2> QED BY <1>1, <1>4, <2>1, <2>2 DEF Overtakes
<1>7. SettledIsCurrent(d)'
  BY <1>1, <1>3 DEF SettledIsCurrent
<1>8. OneChat(d)'
  <2> SUFFICES ASSUME ChatScoped(d)' PROVE OneChat(d)'
    BY DEF OneChat
  <2>1. x.scope = "conversation"
    BY <1>2 DEF ChatScoped
  <2>2. PICK c \in Convs : attached' = attached \cup {<<d, c>>} /\ x.stream = None
    BY <2>1 DEF Arrives
  <2>3. \A y \in attached : y[1] # d
    BY <1>0, <1>1 DEF TablesAgree
  <2>4. \A y \in Convs : <<d, y>> \in attached' <=> y = c
    BY <2>2, <2>3
  <2> QED BY <1>2, <2>2, <2>4 DEF OneChat
<1> QED BY <1>5, <1>6, <1>7, <1>8, OvertakenStep DEF LibraryInv

(* The passages of a document go: its file has changed, and the row may    *)
(* have changed hands.                                                     *)
PassagesGo(d, p) ==
    /\ Exists(d)
    /\ doc' = doc \/ doc' = [doc EXCEPT ![d] = Taken(d, p)]
    /\ chunk' = [chunk EXCEPT ![d] = NoChunks]
    /\ Disturb({d})
    /\ attached' \subseteq attached \cup ({d} \X Convs)
    /\ \A a \in attached : a[1] # d => a \in attached'
    /\ UNCHANGED <<ents, pins, convs, stream, crossed, failures>>

(* A document that loses its passages with its row's change keeps the invariant. *)
LEMMA PassagesGoKeeps ==
    ASSUME LibraryAssumption, LibraryInv, NEW d \in Docs, NEW p \in Principals, Exists(d),
           PassagesGo(d, p), OneChat(d)'
    PROVE  LibraryInv'
<1>0. TablesTyped /\ TablesAgree /\ WorkTyped
  BY TypeParts DEF LibraryInv
<1>1. /\ doc' \in [Docs -> DocumentRow \cup {Gone}] /\ \A e \in Docs : e # d => doc'[e] = doc[e]
      /\ doc'[d] # Gone /\ doc'[d].labels \subseteq ents
  <2>1. Taken(d, p) \in DocumentRow /\ Taken(d, p) # Gone /\ Taken(d, p).labels = {}
    BY TakenRow DEF LibraryInv
  <2>2. doc[d] # Gone /\ doc[d].labels \subseteq ents
    BY <1>0 DEF TablesAgree, Exists
  <2> QED BY <1>0, <2>1, <2>2 DEF PassagesGo, TablesTyped
<1>2. \A e \in Docs : Exists(e) <=> Exists(e)'
  BY <1>1 DEF Exists
<1>3. /\ chunk' = [chunk EXCEPT ![d] = NoChunks] /\ ingest' = IngestBehind({d}) /\ writer' = WritersBehind({d})
      /\ attached' \subseteq attached \cup ({d} \X Convs)
      /\ \A a \in attached : a[1] # d => a \in attached'
      /\ UNCHANGED <<ents, pins, convs, stream, crossed, failures>>
  BY DEF PassagesGo, Disturb
<1>4. TypeOK'
  <2>1. TablesTyped'
    BY <1>0, <1>1, <1>3 DEF TablesTyped
  <2>2. TablesAgree'
    <3>1. \A e \in Docs : Exists(e)' => doc'[e].labels \subseteq ents'
      BY <1>0, <1>1, <1>2, <1>3 DEF TablesAgree
    <3>2. \A y \in pins' : Exists(y[2])'
      BY <1>0, <1>2, <1>3 DEF TablesAgree, TablesTyped
    <3>3. ASSUME NEW y \in attached' PROVE Exists(y[1])'
      <4>1. CASE y \in attached
        BY <1>0, <1>2, <4>1 DEF TablesAgree, TablesTyped
      <4>2. CASE y \in {d} \X Convs
        BY <1>1, <4>2 DEF Exists
      <4> QED BY <1>3, <4>1, <4>2
    <3> QED BY <1>0, <1>3, <3>1, <3>2, <3>3 DEF TablesAgree
  <2>3. WorkTyped'
    <3>1. IngestBehind({d}) \in [Docs -> IngestRow] /\ WritersBehind({d}) \in [Writers -> WriterRow]
      BY <1>0, BehindFacts
    <3> QED BY <1>0, <1>3, <3>1 DEF WorkTyped
  <2> QED BY <2>1, <2>2, <2>3, TypeParts
<1>5. Overtakes({d})
  <2>1. \A e \in Docs \ {d} : ingest'[e] = ingest[e]
    BY <1>0, <1>3, BehindFacts
  <2>2. ASSUME NEW e \in Docs \ {d} PROVE Untouched(e)
    <3>1. \A c \in Convs : <<e, c>> \in attached' <=> <<e, c>> \in attached
      BY <1>3
    <3>2. doc'[e] = doc[e] /\ chunk'[e] = chunk[e] /\ ingest'[e] = ingest[e] /\ UNCHANGED crossed
      BY <1>0, <1>1, <1>3, <2>1 DEF WorkTyped
    <3> QED BY <3>1, <3>2 DEF Untouched
  <2>3. ingest'[d].pc = "read" => ingest'[d].re.dirty
    BY <1>0, <1>3, BehindFacts
  <2>4. \A w \in Writers :
             /\ writer'[w].pc = writer[w].pc /\ writer'[w].doc = writer[w].doc
             /\ writer'[w].pc = "stamping" /\ writer[w].doc \in {d} => writer'[w].re.dirty
             /\ writer[w].doc \notin {d} => writer'[w] = writer[w]
    BY <1>0, <1>3, BehindFacts
  <2> QED BY <2>2, <2>3, <2>4 DEF Overtakes
<1>6. SettledIsCurrent(d)'
  BY <1>0, <1>3 DEF SettledIsCurrent, WorkTyped
<1> QED BY <1>4, <1>5, <1>6, OvertakenStep DEF LibraryInv

(* The three doors a document comes through.                               *)
LEMMA UploadKeeps ==
    ASSUME LibraryAssumption, LibraryInv, NEW w \in Writers, NEW p \in Principals, NEW d \in Docs,
           NEW s \in Streams \cup {None}, NEW l \in SUBSET ents, DocumentUpload(w, p, d, s, l)
    PROVE  LibraryInv'
<1> DEFINE x == NewRow(p.name, None, "universal", s)
<1>1. x \in DocumentRow /\ x # Gone /\ x.labels = {} /\ x.scope = "universal"
  <2>1. "universal" \in Scopes
    BY DEF Scopes
  <2>2. PICK o \in Names \cup {None} : o = p.name
    BY DEF Names
  <2>3. x = NewRow(o, None, "universal", s)
    BY <2>2
  <2> HIDE DEF x
  <2> QED BY <2>1, <2>3, NewRowTyped
<1>2. l \in SUBSET Entitlements
  BY TypeParts DEF LibraryInv, TablesTyped
<1>3. UNCHANGED writer \/ Opens(w, d, l)
  BY DEF DocumentUpload, UploadOpens
<1>4. doc' = [doc EXCEPT ![d] = x]
  BY DEF DocumentUpload
<1> HIDE DEF x
<1>5. Arrives(d, x)
  BY <1>1, <1>2, <1>3, <1>4 DEF DocumentUpload, Arrives
<1> QED BY <1>1, <1>5, ArrivalKeeps

(* The watcher's staging of a file keeps the invariant. *)
LEMMA WatcherKeeps == ASSUME LibraryAssumption, LibraryInv, NEW d \in Docs, WatcherStages(d) PROVE LibraryInv'
<1> DEFINE x == NewRow(None, None, "universal", None)
<1>1. x \in DocumentRow /\ x # Gone /\ x.labels = {} /\ x.scope = "universal"
  <2>1. "universal" \in Scopes
    BY DEF Scopes
  <2> QED BY <2>1, NewRowTyped
<1>2. CASE doc' = [doc EXCEPT ![d] = x] /\ Stageable(d) /\ crossed' = crossed \ {d} /\ UNCHANGED chunk
  <2> HIDE DEF x
  <2>1. Arrives(d, x)
    BY <1>1, <1>2 DEF WatcherStages, Arrives
  <2> QED BY <1>1, <2>1, ArrivalKeeps
<1>3. CASE UNCHANGED <<doc, crossed>> /\ chunk' = [chunk EXCEPT ![d] = NoChunks]
  <2>0. TablesTyped /\ TablesAgree /\ WorkTyped
    BY TypeParts DEF LibraryInv
  <2>1. UNCHANGED <<tables, doc, attached, ingest, writer, crossed, failures>>
    BY <1>3 DEF WatcherStages, tables
  <2>2. TypeOK'
    BY <1>3, <2>0, <2>1, SameTables, TypeParts DEF WorkTyped
  <2>3. ASSUME NEW e \in Docs PROVE OneChat(e)' /\ ReadIsCurrent(e)' /\ SettledIsCurrent(e)'
    <3>1. OneChat(e)' /\ PlaceOf(e)' = PlaceOf(e) /\ (Exists(e)' <=> Exists(e))
      BY <2>1 DEF OneChat, PlaceOf, Exists, ChatScoped, LibraryInv, StampInv
    <3>2. chunk'[e] = chunk[e] \/ chunk'[e] = NoChunks
      BY <1>3, <2>0 DEF WorkTyped
    <3>3. ReadIsCurrent(e) /\ SettledIsCurrent(e)
      BY DEF LibraryInv, StampInv
    <3> QED BY <2>1, <3>1, <3>2, <3>3 DEF ReadIsCurrent, SettledIsCurrent, Settled
  <2>4. ASSUME NEW w \in Writers PROVE WriterIsCurrent(w)'
    <3>1. WriterIsCurrent(w)
      BY DEF LibraryInv, StampInv
    <3> QED BY <2>1, <3>1 DEF WriterIsCurrent, Promised, LabelIdsFor, PlaceOf, Exists, ChatScoped
  <2> QED BY <2>2, <2>3, <2>4 DEF LibraryInv, StampInv
<1> QED BY <1>2, <1>3 DEF WatcherStages

(* A conversation's own attachments stay with it.                          *)
LEMMA Attaching ==
    ASSUME NEW d, NEW c \in Convs, NEW row, NEW at, NEW b, b = WithAttachment(row, d, c, at)
    PROVE  /\ b = at \/ b = at \cup {<<d, c>>}
           /\ row.scope = "conversation" /\ (\E x \in Convs : <<d, x>> \in at) => b = at
           /\ (\A x \in Convs : <<d, x>> \notin at) => b = at \cup {<<d, c>>}
<1>1. b = at \/ b = at \cup {<<d, c>>}
  BY DEF WithAttachment
<1>2. CASE \E x \in Convs \ {c} : <<d, x>> \in at
  BY <1>1, <1>2 DEF WithAttachment
<1>3. CASE ~\E x \in Convs \ {c} : <<d, x>> \in at
  <2>1. b = at \cup {<<d, c>>}
    BY <1>3 DEF WithAttachment
  <2>2. (\E x \in Convs : <<d, x>> \in at) => <<d, c>> \in at
    BY <1>3
  <2>3. <<d, c>> \in at => at \cup {<<d, c>>} = at
    OBVIOUS
  <2> QED BY <2>1, <2>2, <2>3
<1> QED BY <1>1, <1>2, <1>3

(* Staging a turn's attachments keeps the invariant. *)
LEMMA TurnKeeps ==
    ASSUME LibraryAssumption, LibraryInv, NEW p \in Principals, NEW c \in Convs, NEW d \in Docs,
           NEW placement \in Placements(c), StageTurnAttachments(p, c, d, placement)
    PROVE  LibraryInv'
<1> DEFINE x == NewRow(p.name, c, placement[1], placement[2])
<1>0. /\ placement[1] \in Scopes /\ placement[2] \in Streams \cup {None}
      /\ placement[1] = "conversation" => placement[2] = None
  BY DEF Placements, LibraryAssumption, Scopes
<1>1. x \in DocumentRow /\ x # Gone /\ x.labels = {} /\ x.scope = placement[1] /\ x.stream = placement[2]
  <2>1. PICK o \in Names \cup {None} : o = p.name
    BY DEF Names
  <2>2. PICK k \in Scopes, m \in Streams \cup {None} : k = placement[1] /\ m = placement[2]
    BY <1>0
  <2>3. x = NewRow(o, c, k, m)
    BY <2>1, <2>2
  <2> HIDE DEF x
  <2>4. c \in Convs \cup {None}
    OBVIOUS
  <2>5. x \in DocumentRow /\ x # Gone /\ x.labels = {} /\ x.scope = k /\ x.stream = m
    BY <2>1, <2>2, <2>3, <2>4, NewRowTyped
  <2> QED BY <2>2, <2>5
<1>2. doc' = [doc EXCEPT ![d] = x] /\ attached' = WithAttachment(doc'[d], d, c, attached)
  BY DEF StageTurnAttachments
<1>3. attached \in SUBSET (Docs \X Convs) /\ \A y \in Convs : <<d, y>> \notin attached
  <2>1. ~Exists(d) /\ TablesTyped /\ TablesAgree
    BY TypeParts DEF LibraryInv, StageTurnAttachments, Stageable
  <2> QED BY <2>1 DEF TablesTyped, TablesAgree
<1>4. attached' = attached \cup {<<d, c>>}
  BY <1>2, <1>3, Attaching
<1> HIDE DEF x
<1>5. Arrives(d, x)
  BY <1>0, <1>1, <1>2, <1>4 DEF StageTurnAttachments, Arrives
<1> QED BY <1>1, <1>5, ArrivalKeeps

(* A changed file at the path of a row that exists.                        *)
LEMMA RestageFacts ==
    ASSUME LibraryInv, NEW d \in Docs, NEW p \in Principals, Restage(d, p)
    PROVE  /\ Exists(d) /\ chunk' = [chunk EXCEPT ![d] = NoChunks] /\ Disturb({d})
           /\ \/ IsOwner(p, d) /\ doc' = doc
              \/ ~IsOwner(p, d) /\ doc' = [doc EXCEPT ![d] = Taken(d, p)] /\ ~ChatScoped(d)'
<1>1. Exists(d) /\ chunk' = [chunk EXCEPT ![d] = NoChunks] /\ Disturb({d})
      /\ doc' = IF IsOwner(p, d) THEN doc ELSE [doc EXCEPT ![d] = Taken(d, p)]
  BY DEF Restage
<1>2. CASE IsOwner(p, d)
  BY <1>1, <1>2
<1>3. CASE ~IsOwner(p, d)
  <2>1. Taken(d, p).scope = "universal"
    BY <1>1, TakenRow DEF LibraryInv
  <2>2. doc'[d] = Taken(d, p)
    BY <1>1, <1>3 DEF LibraryInv, TypeOK
  <2> QED BY <1>1, <1>3, <2>1, <2>2 DEF ChatScoped
<1> QED BY <1>2, <1>3

(* Uploading a file that is there already keeps the invariant. *)
LEMMA UploadAgainKeeps ==
    ASSUME LibraryAssumption, LibraryInv, NEW p \in Principals, NEW d \in Docs, UploadAgain(p, d) PROVE LibraryInv'
<1>1. Restage(d, p) /\ attached' = (IF IsOwner(p, d) THEN attached ELSE {a \in attached : a[1] # d})
      /\ UNCHANGED <<ents, pins, convs, stream, crossed, failures>>
  BY DEF UploadAgain
<1>2. PassagesGo(d, p)
  BY <1>1, RestageFacts DEF PassagesGo
<1>3. OneChat(d)'
  <2>1. OneChat(d)
    BY DEF LibraryInv, StampInv
  <2> QED BY <1>1, <2>1, RestageFacts DEF OneChat, ChatScoped, Exists
<1> QED BY <1>1, <1>2, <1>3, RestageFacts, PassagesGoKeeps

(* Attaching to a turn a file that is there already keeps the invariant. *)
LEMMA TurnAgainKeeps ==
    ASSUME LibraryAssumption, LibraryInv, NEW p \in Principals, NEW c \in Convs, NEW d \in Docs, StageTurnAgain(p, c, d)
    PROVE  LibraryInv'
<1>0. TablesTyped /\ TablesAgree /\ WorkTyped /\ OneChat(d) /\ Exists(d) /\ attached \in SUBSET (Docs \X Convs)
  BY TypeParts DEF LibraryInv, StampInv, TablesTyped, StageTurnAgain
<1>1. CASE Restage(d, p) /\ attached' = WithAttachment(doc'[d], d, c,
                                IF IsOwner(p, d) THEN attached ELSE {a \in attached : a[1] # d})
  <2> DEFINE at == IF IsOwner(p, d) THEN attached ELSE {a \in attached : a[1] # d}
  <2>0. at \in SUBSET (Docs \X Convs) /\ at \subseteq attached /\ \A a \in attached : a[1] # d => a \in at
    BY <1>0
  <2>1. attached' = WithAttachment(doc'[d], d, c, at)
    BY <1>1
  <2>2. /\ attached' \subseteq at \cup ({d} \X Convs) /\ at \subseteq attached'
        /\ doc'[d].scope = "conversation" /\ (\E x \in Convs : <<d, x>> \in at) => attached' = at
    <3> HIDE DEF at
    <3> QED BY <2>0, <2>1, Attaching
  <2>3. PassagesGo(d, p)
    BY <1>1, <2>0, <2>2, RestageFacts DEF PassagesGo, StageTurnAgain
  <2>4. OneChat(d)'
    <3>1. CASE IsOwner(p, d) /\ doc' = doc
      <4>1. ChatScoped(d)' => attached' = attached
        BY <1>0, <2>2, <3>1 DEF OneChat, ChatScoped, Exists
      <4> QED BY <1>0, <3>1, <4>1 DEF OneChat, ChatScoped, Exists
    <3>2. CASE ~ChatScoped(d)'
      BY <3>2 DEF OneChat
    <3> QED BY <1>1, <3>1, <3>2, RestageFacts
  <2> QED BY <1>0, <2>3, <2>4, PassagesGoKeeps
<1>2. CASE attached' = WithAttachment(doc[d], d, c, attached) /\ UNCHANGED <<doc, chunk, ingest, writer>>
  <2>1. /\ attached' \subseteq attached \cup ({d} \X Convs) /\ attached \subseteq attached'
        /\ doc[d].scope = "conversation" /\ (\E x \in Convs : <<d, x>> \in attached) => attached' = attached
    BY <1>0, <1>2, Attaching
  <2>2. ChatScoped(d) => attached' = attached
    BY <1>0, <2>1 DEF OneChat, ChatScoped
  <2>3. UNCHANGED <<ents, pins, convs, stream, crossed, failures>>
    BY DEF StageTurnAgain
  <2>4. Overtakes({})
    <3>1. ASSUME NEW e \in Docs PROVE ChatScoped(e) => \A x \in Convs : <<e, x>> \in attached' <=> <<e, x>> \in attached
      BY <2>1, <2>2
    <3> QED BY <1>2, <2>3, <3>1 DEF Overtakes, Untouched
  <2>5. TypeOK'
    <3>1. \A y \in attached' : Exists(y[1])'
      BY <1>0, <1>2, <2>1 DEF TablesAgree, Exists
    <3>2. attached' \subseteq Docs \X Convs
      BY <1>0, <2>1
    <3> QED BY <1>0, <1>2, <2>3, <3>1, <3>2, TypeParts DEF TablesTyped, TablesAgree, WorkTyped, Exists
  <2> QED BY <2>4, <2>5, OvertakenStep DEF LibraryInv
<1> QED BY <1>1, <1>2 DEF StageTurnAgain

(* Documents go with everything that hangs on them.                        *)
LEMMA DocumentsGo ==
    ASSUME LibraryAssumption, LibraryInv, NEW S \in SUBSET Docs, DeleteDocuments(S),
           attached' \subseteq attached, \A a \in attached' : a[1] \notin S,
           \A e \in Docs \ S : ChatScoped(e) => \A c \in Convs : <<e, c>> \in attached => <<e, c>> \in attached',
           convs' \subseteq convs, UNCHANGED <<ents, stream, crossed, failures>>
    PROVE  LibraryInv'
<1>0. TablesTyped /\ TablesAgree /\ WorkTyped
  BY TypeParts DEF LibraryInv
<1>1. /\ doc' = [d \in Docs |-> IF d \in S THEN Gone ELSE doc[d]]
      /\ chunk' = [d \in Docs |-> IF d \in S THEN NoChunks ELSE chunk[d]]
      /\ pins' = {x \in pins : x[2] \notin S}
      /\ ingest' = IngestBehind(S) /\ writer' = WritersBehind(S)
  BY DEF DeleteDocuments, Disturb
<1>2. /\ \A d \in S : doc'[d] = Gone /\ ~Exists(d)' /\ chunk'[d] = NoChunks
      /\ \A d \in Docs \ S : doc'[d] = doc[d] /\ chunk'[d] = chunk[d] /\ (Exists(d)' <=> Exists(d))
  BY <1>1 DEF Exists
<1>3. TypeOK'
  <2>1. TablesTyped'
    BY <1>0, <1>1 DEF TablesTyped
  <2>2. TablesAgree'
    <3>1. \A e \in Docs : Exists(e)' => doc'[e].labels \subseteq ents'
      BY <1>0, <1>2 DEF TablesAgree
    <3>2. \A y \in pins' : Exists(y[2])'
      BY <1>0, <1>1, <1>2 DEF TablesAgree, TablesTyped
    <3>3. \A y \in attached' : Exists(y[1])'
      BY <1>0, <1>2 DEF TablesAgree, TablesTyped
    <3> QED BY <1>0, <3>1, <3>2, <3>3 DEF TablesAgree
  <2>3. WorkTyped'
    <3>1. IngestBehind(S) \in [Docs -> IngestRow] /\ WritersBehind(S) \in [Writers -> WriterRow]
      BY <1>0, BehindFacts
    <3> QED BY <1>0, <1>1, <3>1 DEF WorkTyped
  <2> QED BY <2>1, <2>2, <2>3, TypeParts
<1>4. Overtakes(S)
  <2>1. \A e \in Docs \ S : ingest'[e] = ingest[e]
    BY <1>0, <1>1, BehindFacts
  <2>2. \A e \in Docs \ S : Untouched(e)
    BY <1>2, <2>1 DEF Untouched
  <2>3. \A d \in S : ingest'[d].pc = "read" => ingest'[d].re.dirty
    BY <1>0, <1>1, BehindFacts
  <2>4. \A w \in Writers :
             /\ writer'[w].pc = writer[w].pc /\ writer'[w].doc = writer[w].doc
             /\ writer'[w].pc = "stamping" /\ writer[w].doc \in S => writer'[w].re.dirty
             /\ writer[w].doc \notin S => writer'[w] = writer[w]
    BY <1>0, <1>1, BehindFacts
  <2> QED BY <2>2, <2>3, <2>4 DEF Overtakes
<1>5. \A d \in S : OneChat(d)' /\ SettledIsCurrent(d)'
  BY <1>2 DEF OneChat, ChatScoped, SettledIsCurrent
<1> QED BY <1>3, <1>4, <1>5, OvertakenStep DEF LibraryInv

(* Deleting a document keeps the invariant. *)
LEMMA DeleteKeeps ==
    ASSUME LibraryAssumption, LibraryInv, NEW p \in Principals, NEW d \in Docs, DocumentDelete(p, d) PROVE LibraryInv'
<1>1. DeleteDocuments({d}) /\ attached' = {a \in attached : a[1] # d}
      /\ UNCHANGED <<ents, convs, stream, crossed, failures>>
  BY DEF DocumentDelete
<1>2. \A e \in Docs \ {d} : \A c \in Convs : <<e, c>> \in attached => <<e, c>> \in attached'
  BY <1>1
<1> QED BY <1>1, <1>2, DocumentsGo

(* Detaching an attachment from its chat keeps the invariant. *)
LEMMA DetachKeeps ==
    ASSUME LibraryAssumption, LibraryInv, NEW p \in Principals, NEW c \in Convs, NEW d \in Docs,
           DetachAttachment(p, c, d)
    PROVE  LibraryInv'
<1>0. UNCHANGED <<ents, convs, stream, crossed, failures>>
  BY DEF DetachAttachment
<1>1. CASE ChatScoped(d)
  <2>1. DeleteDocuments({d}) /\ attached' = {a \in attached : a[1] # d}
    BY <1>1 DEF DetachAttachment
  <2>2. \A e \in Docs \ {d} : \A x \in Convs : <<e, x>> \in attached => <<e, x>> \in attached'
    BY <2>1
  <2> QED BY <1>0, <2>1, <2>2, DocumentsGo
<1>2. CASE ~ChatScoped(d)
  <2>0. TablesTyped /\ TablesAgree /\ WorkTyped
    BY TypeParts DEF LibraryInv
  <2>1. UNCHANGED <<doc, chunk, pins, ingest, writer>> /\ attached' = attached \ {<<d, c>>}
    BY <1>2 DEF DetachAttachment
  <2>2. Overtakes({})
    <3>1. ASSUME NEW e \in Docs PROVE ChatScoped(e) => \A x \in Convs : <<e, x>> \in attached' <=> <<e, x>> \in attached
      BY <1>2, <2>1
    <3> QED BY <1>0, <2>1, <3>1 DEF Overtakes, Untouched
  <2>3. TypeOK'
    BY <1>0, <2>0, <2>1, TypeParts DEF TablesTyped, TablesAgree, WorkTyped, Exists
  <2> QED BY <2>2, <2>3, OvertakenStep DEF LibraryInv
<1> QED BY <1>1, <1>2

(* Deleting a conversation with its attachments keeps the invariant. *)
LEMMA ConversationKeeps ==
    ASSUME LibraryAssumption, LibraryInv, NEW c \in Convs, DeleteAttachments(c) PROVE LibraryInv'
<1>1. PICK S \in SUBSET Docs : S = {d \in Docs : ChatScoped(d) /\ <<d, c>> \in attached}
  OBVIOUS
<1>2. convs' = convs \ {c} /\ DeleteDocuments(S) /\ attached' = {a \in attached : a[1] \notin S /\ a[2] # c}
      /\ UNCHANGED <<ents, stream, crossed, failures>>
  BY <1>1 DEF DeleteAttachments
<1>3. \A e \in Docs \ S : ChatScoped(e) => \A x \in Convs : <<e, x>> \in attached => <<e, x>> \in attached'
  BY <1>1, <1>2
<1> QED BY <1>2, <1>3, DocumentsGo

---------------------------------------------------------------------------
(* Together.                                                               *)

LEMMA LibraryStarts == ASSUME LibraryAssumption, Init PROVE LibraryInv
<1>1. \A d \in Docs : ~Exists(d) /\ chunk[d] = NoChunks /\ ingest[d] = Idle
  BY DEF Init, Exists
<1>2. \A w \in Writers : writer[w] = Free
  BY DEF Init
<1>3. TypeOK
  <2>1. TablesTyped
    BY DEF Init, TablesTyped, StreamRow
  <2>2. TablesAgree
    BY <1>1 DEF Init, TablesAgree
  <2>3. WorkTyped
    BY EmptyRows DEF Init, WorkTyped, LibraryAssumption
  <2> QED BY <2>1, <2>2, <2>3, TypeParts
<1>4. StampInv
  BY <1>1, <1>2, EmptyRows
     DEF StampInv, OneChat, ChatScoped, ReadIsCurrent, SettledIsCurrent, WriterIsCurrent
<1> QED BY <1>3, <1>4 DEF LibraryInv

(* The invariant is inductive. *)
LEMMA LibraryStep == ASSUME LibraryAssumption, LibraryInv, [Next]_vars PROVE LibraryInv'
<1>1. CASE UNCHANGED vars
  <2>1. UNCHANGED <<tables, doc, attached, ents, pins, convs, stream, chunk, ingest, writer, crossed, failures>>
    BY <1>1 DEF vars, tables
  <2>2. TypeOK'
    BY <2>1, TypeParts DEF LibraryInv, TablesTyped, TablesAgree, WorkTyped, Exists
  <2>3. Overtakes({})
    BY <2>1 DEF Overtakes, Untouched
  <2> QED BY <2>2, <2>3, OvertakenStep DEF LibraryInv
<1>2. CASE Next
  <2>1. CASE \E d \in Docs : IngestStarts(d) \/ IngestProse(d) \/ RestampReads(d) \/ RestampWrites(d) \/ RestampFails(d)
    BY <2>1, IngestionTypes, IngestionStamps DEF LibraryInv
  <2>2. CASE \E w \in Writers : SetDocumentLabels(w) \/ LabelStampReads(w) \/ LabelCommits(w) \/ LabelRollsBack(w)
    BY <2>2, SetLabelsKeeps, LabelReadsKeeps, CommitHasDocument, CommitKeeps, RollBackKeeps
  <2>3. CASE \/ \E w \in Writers, d \in Docs : RelabelChunks(w, d)
             \/ \E w \in Writers, p \in Principals, d \in Docs, e \in ents : DocumentLabelsBulk(w, p, d, e)
             \/ \E w \in Writers, p \in Principals, d \in Docs, s \in Streams \cup {None}, l \in SUBSET ents :
                    DocumentUpload(w, p, d, s, l)
    BY <2>3, RelabelKeeps, BulkKeeps, UploadKeeps
  <2>4. CASE \/ \E e \in Entitlements : UnlabelAllForEntitlement(e)
             \/ \E p \in Principals, d \in Docs : UploadAgain(p, d) \/ DocumentDelete(p, d)
             \/ \E d \in Docs : WatcherStages(d)
    BY <2>4, UnlabelKeeps, UploadAgainKeeps, DeleteKeeps, WatcherKeeps
  <2>5. CASE \E p \in Principals, c \in Convs, d \in Docs :
                \/ StageTurnAgain(p, c, d) \/ DetachAttachment(p, c, d)
                \/ \E placement \in Placements(c) : StageTurnAttachments(p, c, d, placement)
    BY <2>5, TurnAgainKeeps, DetachKeeps, TurnKeeps
  <2>6. CASE \/ \E p \in Principals, s \in Streams, d \in Docs : PinDocument(p, s, d) \/ UnpinDocument(p, s, d)
             \/ \E s \in Streams : ScopeStream(s)
             \/ \E c \in Convs : DeleteAttachmentsFails(c)
    BY <2>6, NoDocumentKeeps
  <2>7. CASE \E c \in Convs : DeleteAttachments(c)
    BY <2>7, ConversationKeeps
  <2> QED BY <1>2, <2>1, <2>2, <2>3, <2>4, <2>5, <2>6, <2>7 DEF Next
<1> QED BY <1>1, <1>2

(* The invariant holds in every reachable state. *)
LEMMA LibraryInvariant == ASSUME LibraryAssumption PROVE Spec => []LibraryInv
BY LibraryStarts, LibraryStep, PTL DEF Spec

(* The tables, the stamps and the requests keep their types; labels and    *)
(* walls name entitlements that are there, pins and attachments documents  *)
(* that are there.                                                         *)
THEOREM TypeCorrect == ASSUME LibraryAssumption PROVE Spec => []TypeOK
<1>1. LibraryInv => TypeOK
  BY DEF LibraryInv
<1> QED BY <1>1, LibraryInvariant, PTL

(* rag/entitlements.py and rag/ingest.py: the stamps of settled passages   *)
(* say what the tables say, unless the last stamp failed or was overtaken. *)
THEOREM StampsStayCurrent == ASSUME LibraryAssumption PROVE Spec => []StampsAreCurrent
<1>1. LibraryInv => StampsAreCurrent
  <2> SUFFICES ASSUME LibraryInv, NEW d \in Docs, Settled(d), chunk[d] # NoChunks, d \notin crossed
               PROVE  chunk[d] = Current(d)
    BY DEF StampsAreCurrent
  <2>1. Exists(d) /\ chunk[d] = [labels |-> doc[d].labels, place |-> PlaceOf(d)]
    BY DEF LibraryInv, StampInv, SettledIsCurrent
  <2> QED BY <2>1, SaysPlace
<1> QED BY <1>1, LibraryInvariant, PTL

(* rag/retrieval.py against rag/access.py: with current stamps a search in *)
(* a conversation passes exactly the documents the pages list for its      *)
(* corpus and the conversation's own.                                      *)
THEOREM SearchAndListsAgree == ASSUME LibraryAssumption PROVE Spec => []SearchMatchesTheLists
<1>1. LibraryInv => SearchMatchesTheLists
  <2> SUFFICES ASSUME LibraryInv, NEW p \in Principals, NEW c \in Convs, NEW d \in Docs, NEW s, s = HomeOf[c],
                      Settled(d), chunk[d] # NoChunks, d \notin crossed, ~SeesNothing(p)
               PROVE  d \in RetrieveNodes(p, s, c)
                      <=> \/ IF s = None THEN d \in ReadableDocuments(p, None) /\ ~ChatScoped(d)
                             ELSE d \in StreamDocuments(p, s)
                          \/ ChatScoped(d) /\ <<d, c>> \in attached
    BY DEF SearchMatchesTheLists
  <2>0. Exists(d) /\ OneChat(d) /\ chunk[d] = [labels |-> doc[d].labels, place |-> PlaceOf(d)]
    BY DEF LibraryInv, StampInv, SettledIsCurrent
  <2>1. Exists(d) /\ OneChat(d) /\ chunk[d].labels = doc[d].labels /\ chunk[d].place = PlaceOf(d)
    BY <2>0
  <2>2. c # None /\ None \notin Convs /\ s \in Streams \cup {None}
    BY DEF LibraryAssumption
  <2>3. d \in RetrieveNodes(p, s, c) <=> VisibilityFilters(p, s, c, d)
    BY DEF RetrieveNodes
  <2> DEFINE gate == p.all \/ doc[d].labels \cap Held(p) # {} \/ (p.unlabelled /\ doc[d].labels = {})
  <2>4. CASE ChatScoped(d)
    <3>1. PICK x \in Convs : <<d, x>> \in attached
      BY <2>1, <2>4 DEF OneChat
    <3>2. chunk[d].place.stream = None /\ chunk[d].place.conv = x
      BY <2>1, <2>4, <3>1, TheChat
    <3>3. VisibilityFilters(p, s, c, d) <=> x = c
      BY <2>2, <3>2 DEF VisibilityFilters
    <3>4. x = c <=> <<d, c>> \in attached
      BY <2>1, <2>4, <3>1 DEF OneChat
    <3>5. s # None => d \notin StreamDocuments(p, s)
      BY <2>4 DEF StreamDocuments, ReadableDocuments
    <3> QED BY <2>3, <2>4, <3>3, <3>4, <3>5
  <2>5. CASE ~ChatScoped(d)
    <3>1. chunk[d].place.stream = doc[d].stream /\ chunk[d].place.conv = None
      BY <2>1, <2>5, NoChat
    <3>2. \A m \in Streams \cup {None} : d \in ReadableDocuments(p, m) <=> doc[d].stream \in {None, m} /\ gate
      BY <2>1, <2>5 DEF ReadableDocuments
    <3>3. CASE s = None
      <4>1. VisibilityFilters(p, s, c, d) <=> gate /\ doc[d].stream = None
        BY <2>1, <2>2, <3>1, <3>3 DEF VisibilityFilters
      <4> QED BY <2>3, <2>5, <3>2, <3>3, <4>1
    <3>4. CASE s # None
      <4> DEFINE open == stream[s].universal /\ (stream[s].wall = {} \/ doc[d].labels \cap stream[s].wall # {})
      <4>1. VisibilityFilters(p, s, c, d) <=>
               gate /\ \/ doc[d].stream = s
                       \/ d \in Pinned(s) /\ doc[d].stream = None
                       \/ open /\ doc[d].stream = None
        BY <2>1, <2>2, <3>1, <3>4 DEF VisibilityFilters
      <4>2. d \in StreamDocuments(p, s) <=>
               /\ d \in ReadableDocuments(p, s)
               /\ doc[d].stream = s \/ (open /\ doc[d].stream = None) \/ d \in Pinned(s)
        BY DEF StreamDocuments
      <4>3. d \in ReadableDocuments(p, s) <=> doc[d].stream \in {None, s} /\ gate
        BY <2>2, <3>2
      <4> HIDE DEF gate, open
      <4> QED BY <2>3, <2>5, <3>4, <4>1, <4>2, <4>3
    <3> QED BY <3>3, <3>4
  <2> QED BY <2>4, <2>5
<1> QED BY <1>1, LibraryInvariant, PTL

---------------------------------------------------------------------------
(* Asking: questions, their attempts and the history of answers.           *)

(* Every answer cites what its attempt may cite, and an attempt that has   *)
(* yet to retrieve may cite whatever is readable now.                      *)
AskInv ==
    /\ AskTypeOK /\ ClaimsCounted
    /\ \A e \in Execs : /\ ctx[e].cites \subseteq ctx[e].allowed
                        /\ att[e] = "resolved" => readable \subseteq ctx[e].allowed
    /\ WithdrawnIsNotCited

(* The part about what attempts hold, for a step that leaves the history.  *)
AttemptsSound ==
    /\ ctx \in [Execs -> Context]
    /\ \A e \in Execs : /\ ctx[e].cutoff <= Len(history)
                        /\ att[e] \in Pcs => ctx[e].model # NoConn
                        /\ ctx[e].cites \subseteq ctx[e].allowed
                        /\ att[e] = "resolved" => readable \subseteq ctx[e].allowed

AnswersSound ==
    /\ history \in Seq(AskRecord \cup {NoRow})
    /\ WithdrawnIsNotCited

ConfigTyped ==
    /\ asked \in [Jobs -> Picks]
    /\ limit \in Limits /\ role \in Conns \cup {NoConn}
    /\ usable \subseteq Conns /\ readable \subseteq Sources
    /\ changes \in 0..MaxChanges

(* The invariant in the two parts its steps disturb apart.                 *)
LEMMA AskInvParts ==
    AskInv <=> QueueTypeOK(Pcs) /\ ClaimsCounted /\ AttemptsSound /\ AnswersSound /\ ConfigTyped
BY DEF AskInv, AskTypeOK, AttemptsSound, AnswersSound, ConfigTyped

(* And back.                                                               *)
LEMMA AskInvFromParts ==
    ASSUME QueueTypeOK(Pcs)', ClaimsCounted', AttemptsSound', AnswersSound', ConfigTyped'
    PROVE  AskInv'
BY DEF AskInv, AskTypeOK, AttemptsSound, AnswersSound, ConfigTyped

(* An attempt starts out with nothing it cites or may cite.                *)
LEMMA NoCtxIsAContext == NoCtx \in Context /\ NoCtx.cites = {} /\ NoCtx.allowed = {} /\ NoCtx.cutoff = 0
BY DEF NoCtx, Context

(* A handler's step that puts a sound record in place of its own.          *)
LEMMA HandlerMoves ==
    ASSUME AskInv, NEW e \in Execs, NEW from, NEW to \in Pcs \cup {"ok", "bad"}, NEW fields \in Context,
           Goes(e, from, to), ctx' = [ctx EXCEPT ![e] = fields],
           fields.cutoff <= Len(history), Len(history) <= Len(history)', Len(history)' \in Nat,
           to \in Pcs => fields.model # NoConn,
           fields.cites \subseteq fields.allowed,
           to = "resolved" => readable \subseteq fields.allowed,
           UNCHANGED <<job, hooks, faults, asked, config>>
    PROVE  QueueTypeOK(Pcs)' /\ ClaimsCounted' /\ AttemptsSound' /\ ConfigTyped'
<1>1. QueueTypeOK(Pcs) /\ ClaimsCounted /\ AttemptsSound /\ AnswersSound /\ ConfigTyped
  BY AskInvParts
<1>2. QueueTypeOK(Pcs)' /\ ClaimsCounted'
  BY <1>1, HandlerStep
<1>3. ConfigTyped'
  BY <1>1 DEF ConfigTyped, config
<1>4. /\ att'[e] = to /\ \A f \in Execs : f # e => att'[f] = att[f]
      /\ ctx'[e] = fields /\ \A f \in Execs : f # e => ctx'[f] = ctx[f]
      /\ ctx' \in [Execs -> Context]
  BY <1>1, GoesFacts DEF AttemptsSound
<1>5. Len(history) \in Nat
  BY <1>1 DEF AnswersSound
<1>6. ASSUME NEW f \in Execs
      PROVE  /\ ctx'[f].cutoff <= Len(history)'
             /\ att'[f] \in Pcs => ctx'[f].model # NoConn
             /\ ctx'[f].cites \subseteq ctx'[f].allowed
             /\ att'[f] = "resolved" => readable' \subseteq ctx'[f].allowed
  <2>1. UNCHANGED readable
    BY DEF config
  <2>2. CASE f = e
    BY <1>4, <1>5, <2>1, <2>2 DEF Context
  <2>3. CASE f # e
    <3>1. ctx[f].cutoff \in Nat /\ ctx[f].cutoff <= Len(history)
      BY <1>1 DEF AttemptsSound, Context
    <3>2. ctx'[f].cutoff <= Len(history)'
      BY <1>4, <1>5, <2>3, <3>1
    <3> QED BY <1>1, <1>4, <2>1, <2>3, <3>2 DEF AttemptsSound
  <2> QED BY <2>2, <2>3
<1> QED BY <1>2, <1>3, <1>4, <1>6 DEF AttemptsSound

(* The same for a step that leaves the history too.                        *)
LEMMA HandlerKeeps ==
    ASSUME AskInv, NEW e \in Execs, NEW from, NEW to \in Pcs \cup {"ok", "bad"}, NEW fields \in Context,
           At(e, from, to, fields),
           fields.cutoff <= Len(history),
           to \in Pcs => fields.model # NoConn,
           fields.cites \subseteq fields.allowed,
           to = "resolved" => readable \subseteq fields.allowed
    PROVE  AskInv'
<1>1. /\ Goes(e, from, to) /\ ctx' = [ctx EXCEPT ![e] = fields]
      /\ UNCHANGED <<job, hooks, faults, asked, config>> /\ UNCHANGED history
  BY DEF At
<1>2. AnswersSound /\ Len(history) \in Nat
  BY AskInvParts DEF AnswersSound
<1>3. AnswersSound'
  BY <1>1, <1>2 DEF AnswersSound, WithdrawnIsNotCited, Rows
<1>4. Len(history) <= Len(history)' /\ Len(history)' \in Nat
  BY <1>1, <1>2
<1>5. QueueTypeOK(Pcs)' /\ ClaimsCounted' /\ AttemptsSound' /\ ConfigTyped'
  BY <1>1, <1>4, HandlerMoves
<1> QED BY <1>3, <1>5, AskInvFromParts

(* An attempt of a question, from resolving to recording.                  *)
LEMMA RunAskStep ==
    ASSUME AskInv, NEW e \in Execs, run_ask(e)
    PROVE  AskInv'
<1>0. /\ ctx[e] \in Context /\ ctx[e].cutoff <= Len(history) /\ ctx[e].cites \subseteq ctx[e].allowed
      /\ att[e] \in Pcs => ctx[e].model # NoConn
      /\ att[e] = "resolved" => readable \subseteq ctx[e].allowed
      /\ history \in Seq(AskRecord \cup {NoRow}) /\ Len(history) \in Nat
      /\ asked \in [Jobs -> Picks] /\ role \in Conns \cup {NoConn} /\ usable \subseteq Conns
      /\ readable \subseteq Sources
  BY DEF AskInv, AskTypeOK
<1>1. CASE _precheck(e)
  <2> DEFINE model == Resolves(asked[e[1]])
  <2> DEFINE fields == [NoCtx EXCEPT !.model = model, !.allowed = readable]
  <2>1. model # NoConn /\ At(e, "claimed", "resolved", fields)
    BY <1>1 DEF _precheck
  <2>2. model \in Conns
    <3>1. model \in Conns \cup {NoConn}
      BY <1>0 DEF Resolves
    <3> QED BY <2>1, <3>1
  <2>3. /\ fields \in Context /\ fields.model = model /\ fields.allowed = readable
        /\ fields.cites = {} /\ fields.cutoff = 0
    BY <1>0, <2>2 DEF NoCtx, Context
  <2> HIDE DEF fields, model
  <2>4. fields.cutoff <= Len(history)
    BY <1>0, <2>3
  <2> QED BY <2>1, <2>3, <2>4, HandlerKeeps DEF Pcs
<1>2. CASE ModelUnavailable(e) \/ AnswerFails(e) \/ RecordFails(e)
  <2>1. PICK from : At(e, from, "ok", NoCtx) \/ At(e, from, "bad", NoCtx)
    BY <1>2 DEF ModelUnavailable, AnswerFails, RecordFails
  <2>2. NoCtx.cutoff <= Len(history)
    BY <1>0, NoCtxIsAContext
  <2> QED BY <2>1, <2>2, NoCtxIsAContext, HandlerKeeps DEF Pcs
<1>3. CASE answer_question(e)
  <2>1. PICK cites \in {{}, readable} :
          At(e, "resolved", "answered", [ctx[e] EXCEPT !.name = AnsweredBy(e), !.cites = cites])
    BY <1>3 DEF answer_question, retrieve_nodes
  <2> DEFINE fields == [ctx[e] EXCEPT !.name = AnsweredBy(e), !.cites = cites]
  <2>2. att[e] = "resolved"
    BY <2>1 DEF At, Goes
  <2>3. AnsweredBy(e) \in Conns \cup {NoConn}
    BY <1>0 DEF AnsweredBy, Context
  <2>4. /\ fields \in Context /\ fields.model = ctx[e].model /\ fields.allowed = ctx[e].allowed
        /\ fields.cites = cites /\ fields.cutoff = ctx[e].cutoff
    BY <1>0, <2>3 DEF Context
  <2>5. cites \subseteq ctx[e].allowed
    BY <1>0, <2>2
  <2>6. At(e, "resolved", "answered", fields)
    BY <2>1
  <2> HIDE DEF fields
  <2> QED BY <1>0, <2>2, <2>4, <2>5, <2>6, HandlerKeeps DEF Pcs
<1>4. CASE PruneCutoff(e)
  <2> DEFINE fields == [ctx[e] EXCEPT !.cutoff = Cutoff]
  <2>1. At(e, "recorded", "pruning", fields) /\ att[e] = "recorded"
    BY <1>4 DEF PruneCutoff, At, Goes
  <2>2. Cutoff \in Nat /\ Cutoff <= Len(history)
    <3> DEFINE past == {r \in Rows : Cardinality({k \in Rows : k > r}) = limit}
    <3>1. past \subseteq 1..Len(history)
      BY <1>0 DEF Rows
    <3>2. Cutoff = IF past = {} THEN 0 ELSE CHOOSE r \in past : TRUE
      BY DEF Cutoff
    <3> HIDE DEF past
    <3>3. Cutoff \in {0} \cup 1..Len(history)
      BY <3>1, <3>2
    <3> QED BY <1>0, <3>3
  <2>3. /\ fields \in Context /\ fields.model = ctx[e].model /\ fields.allowed = ctx[e].allowed
        /\ fields.cites = ctx[e].cites /\ fields.cutoff = Cutoff
    BY <1>0, <2>2 DEF Context
  <2> HIDE DEF fields
  <2> QED BY <1>0, <2>1, <2>2, <2>3, HandlerKeeps DEF Pcs
<1>5. CASE record_ask(e)
  <2> DEFINE answer == [job |-> e[1], name |-> ctx[e].name, model |-> ctx[e].model,
                        cites |-> ctx[e].cites, allowed |-> ctx[e].allowed]
  <2>1. /\ Goes(e, "answered", "recorded") /\ att[e] = "answered"
        /\ history' = Append(history, answer)
        /\ UNCHANGED <<job, hooks, faults, asked, ctx, config>>
    BY <1>5 DEF record_ask, Goes
  <2>2. answer \in AskRecord /\ answer.cites \subseteq answer.allowed
    BY <1>0, <2>1, Pairs DEF AskRecord, Context, Pcs
  <2> HIDE DEF answer
  <2>3. history' \in Seq(AskRecord \cup {NoRow}) /\ Len(history)' = Len(history) + 1
    BY <1>0, <2>1, <2>2
  <2>4. ASSUME NEW r \in Rows'
        PROVE  history'[r].cites \subseteq history'[r].allowed
    <3>1. r \in 1..(Len(history) + 1)
      BY <2>3 DEF Rows
    <3>2. CASE r = Len(history) + 1
      <4>1. history'[r] = answer
        BY <1>0, <2>1, <3>2
      <4> QED BY <2>2, <4>1
    <3>3. CASE r \in 1..Len(history)
      <4>1. history'[r] = history[r]
        BY <1>0, <2>1, <3>3
      <4>2. r \in Rows
        BY <1>0, <2>4, <3>3, <4>1 DEF Rows
      <4> QED BY <4>1, <4>2 DEF AskInv, WithdrawnIsNotCited
    <3> QED BY <1>0, <3>1, <3>2, <3>3
  <2>5. AnswersSound'
    BY <2>3, <2>4 DEF AnswersSound, WithdrawnIsNotCited
  <2>6. ctx' = [ctx EXCEPT ![e] = ctx[e]]
    BY <2>1 DEF AskInv, AskTypeOK
  <2>7. Len(history) <= Len(history)' /\ Len(history)' \in Nat
    BY <1>0, <2>3
  <2>8. QueueTypeOK(Pcs)' /\ ClaimsCounted' /\ AttemptsSound' /\ ConfigTyped'
    BY <1>0, <2>1, <2>6, <2>7, HandlerMoves DEF Pcs
  <2> QED BY <2>5, <2>8, AskInvFromParts
<1>6. CASE _prune_ask_records(e)
  <2>1. /\ Goes(e, "pruning", "ok")
        /\ history' = [r \in DOMAIN history |-> IF r <= ctx[e].cutoff THEN NoRow ELSE history[r]]
        /\ ctx' = [ctx EXCEPT ![e] = NoCtx]
        /\ UNCHANGED <<job, hooks, faults, asked, config>>
    BY <1>6 DEF _prune_ask_records
  <2>2. history' \in Seq(AskRecord \cup {NoRow}) /\ Len(history)' = Len(history)
    BY <1>0, <2>1
  <2>3. \A r \in Rows' : r \in Rows /\ history'[r] = history[r]
    BY <1>0, <2>1 DEF Rows
  <2>4. AnswersSound'
    BY <2>2, <2>3 DEF AnswersSound, WithdrawnIsNotCited, AskInv
  <2>5. Len(history) <= Len(history)' /\ Len(history)' \in Nat /\ NoCtx.cutoff <= Len(history)
    BY <1>0, <2>2, NoCtxIsAContext
  <2>6. QueueTypeOK(Pcs)' /\ ClaimsCounted' /\ AttemptsSound' /\ ConfigTyped'
    BY <2>1, <2>5, NoCtxIsAContext, HandlerMoves DEF Pcs
  <2> QED BY <2>4, <2>6, AskInvFromParts
<1> QED BY <1>1, <1>2, <1>3, <1>4, <1>5, <1>6 DEF run_ask

(* What the queue does to an attempt: it begins, it ends, or it goes on.   *)
LEMMA QueueMovesStep ==
    ASSUME AskInv, QueueMoves
    PROVE  AskInv'
<1>1. /\ QueueStep \/ \E j \in Jobs : HookRuns(j)
      /\ ctx' = [e \in Execs |-> IF att'[e] = "over" THEN NoCtx ELSE ctx[e]]
      /\ UNCHANGED <<asked, history, config>>
  BY DEF QueueMoves
<1>2. QueueTypeOK(Pcs) /\ ClaimsCounted /\ AttemptsSound /\ AnswersSound /\ ConfigTyped
  BY AskInvParts
<1>3. QueueTypeOK(Pcs)' /\ ClaimsCounted'
  <2>1. CASE QueueStep
    BY <1>2, <2>1, QueueTypeStep
  <2>2. ASSUME NEW j \in Jobs, HookRuns(j)
        PROVE  QueueTypeOK(Pcs)' /\ ClaimsCounted'
    BY <1>2, <2>2, OtherStep DEF HookRuns, QueueTypeOK
  <2> QED BY <1>1, <2>1, <2>2
<1>4. \A e \in Execs : att'[e] = att[e] \/ att'[e] \in {"claimed", "over"}
  <2>0. att \in [Execs -> Pcs \cup {"none", "claimed", "ok", "bad", "over"}]
    BY <1>2 DEF QueueTypeOK
  <2>1. ASSUME NEW j \in Jobs, Claim(j) \/ Sweep(j) \/ Drain(j) \/ Cancel(j) \/ HookRuns(j)
        PROVE  \A e \in Execs : att'[e] = att[e] \/ att'[e] \in {"claimed", "over"}
    BY <2>0, <2>1 DEF Claim, Sweep, Drain, Cancel, HookRuns
  <2>2. ASSUME NEW f \in Execs, Report(f) \/ HandlerMissing(f) \/ WorkerDies(f)
        PROVE  \A e \in Execs : att'[e] = att[e] \/ att'[e] \in {"claimed", "over"}
    BY <2>0, <2>2 DEF Report, HandlerMissing, WorkerDies, Goes
  <2> QED BY <1>1, <2>1, <2>2 DEF QueueStep
<1>5. AttemptsSound'
  <2>1. ctx' \in [Execs -> Context]
    BY <1>1, <1>2, NoCtxIsAContext DEF AttemptsSound
  <2>2. Len(history) \in Nat
    BY <1>2 DEF AnswersSound
  <2>3. ASSUME NEW e \in Execs
        PROVE  /\ ctx'[e].cutoff <= Len(history)
               /\ att'[e] \in Pcs => ctx'[e].model # NoConn
               /\ ctx'[e].cites \subseteq ctx'[e].allowed
               /\ att'[e] = "resolved" => readable \subseteq ctx'[e].allowed
    <3>1. CASE att'[e] = "over"
      BY <1>1, <2>2, <3>1, NoCtxIsAContext DEF Pcs
    <3>2. CASE att'[e] # "over"
      BY <1>1, <1>2, <1>4, <3>2 DEF Pcs, AttemptsSound
    <3> QED BY <3>1, <3>2
  <2> QED BY <1>1, <2>1, <2>3 DEF AttemptsSound, config
<1>6. AnswersSound' /\ ConfigTyped'
  BY <1>1, <1>2 DEF AnswersSound, ConfigTyped, WithdrawnIsNotCited, Rows, config
<1> QED BY <1>3, <1>5, <1>6, AskInvFromParts

(* A change of the configuration only ever takes documents away.           *)
LEMMA ConfigureStep ==
    ASSUME AskInv, Configure
    PROVE  AskInv'
<1>1. QueueTypeOK(Pcs) /\ ClaimsCounted /\ AttemptsSound /\ AnswersSound /\ ConfigTyped
  BY AskInvParts
<1>2. Changes /\ readable' \subseteq readable
  BY DEF Configure, RoleRebound, ConnectionRemoved, ModelForbidden, DocumentWithdrawn,
         _history_limit_update
<1>3. limit' \in Limits /\ role' \in Conns \cup {NoConn} /\ usable' \subseteq Conns
  BY <1>1 DEF ConfigTyped, Configure, RoleRebound, ConnectionRemoved, ModelForbidden,
              DocumentWithdrawn, _history_limit_update
<1>4. ConfigTyped'
  BY <1>1, <1>2, <1>3, AskingAssumption DEF ConfigTyped, Changes
<1>5. UNCHANGED <<job, att, hooks, faults, ctx, history>>
  BY <1>2 DEF Changes, queueVars
<1>6. QueueTypeOK(Pcs)' /\ ClaimsCounted'
  BY <1>1, <1>5, OtherStep DEF QueueTypeOK
<1>7. AttemptsSound'
  BY <1>1, <1>2, <1>5 DEF AttemptsSound
<1>8. AnswersSound'
  BY <1>1, <1>5 DEF AnswersSound, WithdrawnIsNotCited, Rows
<1> QED BY <1>4, <1>6, <1>7, <1>8, AskInvFromParts

(* A question is asked.                                                    *)
LEMMA AskViewStep ==
    ASSUME AskInv, NEW j \in Jobs, NEW pick \in Picks, AskView(j, pick)
    PROVE  AskInv'
<1>1. QueueTypeOK(Pcs) /\ ClaimsCounted /\ AttemptsSound /\ AnswersSound /\ ConfigTyped
  BY AskInvParts
<1>2. /\ Enqueued(j) /\ asked' = [asked EXCEPT ![j] = pick]
      /\ UNCHANGED <<att, hooks, faults, ctx, history, config>>
  BY DEF AskView
<1>3. QueueTypeOK(Pcs)' /\ ClaimsCounted'
  BY <1>1, <1>2, EnqueueStep
<1>4. ConfigTyped'
  BY <1>1, <1>2 DEF ConfigTyped, config
<1>5. AttemptsSound' /\ AnswersSound'
  BY <1>1, <1>2 DEF AttemptsSound, AnswersSound, WithdrawnIsNotCited, Rows, config
<1> QED BY <1>3, <1>4, <1>5, AskInvFromParts

(* The invariant, over every step of Asking.                               *)
LEMMA AskInvHolds == AskSpec => []AskInv
<1>1. AskInit => AskInv
  <2> SUFFICES ASSUME AskInit PROVE AskInv
    OBVIOUS
  <2>1. QueueTypeOK(Pcs) /\ ClaimsCounted
    BY QueueTypeInit DEF AskInit
  <2>2. AttemptsSound
    BY NoCtxIsAContext DEF AskInit, QueueInit, AttemptsSound, Pcs
  <2>3. AnswersSound
    BY DEF AskInit, AnswersSound, WithdrawnIsNotCited, Rows
  <2>4. ConfigTyped
    BY AskingAssumption DEF AskInit, ConfigTyped, Picks
  <2> QED BY <2>1, <2>2, <2>3, <2>4, AskInvParts
<1>2. AskInv /\ [AskNext]_askVars => AskInv'
  <2>1. AskInv /\ UNCHANGED askVars => AskInv'
    BY DEF AskInv, AskTypeOK, QueueTypeOK, ClaimsCounted, WithdrawnIsNotCited, Rows, askVars, queueVars
  <2> QED BY <2>1, AskViewStep, RunAskStep, ConfigureStep, QueueMovesStep DEF AskNext
<1> QED BY <1>1, <1>2, PTL DEF AskSpec

(* Questions, attempts and the history hold what they are declared to hold, *)
(* and a prune's cutoff never lies beyond the history.                     *)
THEOREM AskTypeCorrect == AskSpec => []AskTypeOK
<1>1. AskInv => AskTypeOK
  BY DEF AskInv
<1> QED BY <1>1, AskInvHolds, PTL

(* However permissions change while questions wait, run and are retried,   *)
(* an answer cites only what the asker could read once its attempt ran.    *)
THEOREM WithdrawnStaysUncited == AskSpec => []WithdrawnIsNotCited
<1>1. AskInv => WithdrawnIsNotCited
  BY DEF AskInv
<1> QED BY <1>1, AskInvHolds, PTL
=============================================================================
