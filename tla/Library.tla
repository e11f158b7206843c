------------------------------- MODULE Library -------------------------------
(***************************************************************************)
(* The document library: who may read a document and which passages a      *)
(* search returns.  The tables are the truth (labels, containment, scope,  *)
(* attachments, pins); the stamps on a document's passages are a copy the  *)
(* retriever filters on, written by restamp_document_chunks alone.         *)
(*                                                                         *)
(* A document's ingestion is reduced to what touches its passages: they    *)
(* are replaced without stamps and stamped afterwards.  A label change is  *)
(* a transaction: its own rows are visible to others when it commits,      *)
(* together with the stamps it wrote.                                      *)
(***************************************************************************)
EXTENDS Naturals, FiniteSets

CONSTANTS
    Docs,           \* documents, one per original_path
    Entitlements,
    Streams,        \* workstreams
    Convs,          \* conversations
    HomeOf,         \* [Convs -> Streams \cup {None}]
    Principals,     \* records, see Principal
    Writers,        \* requests that change labels or re-stamp
    MaxPins,        \* MAX_PINS_PER_STREAM
    MaxFailures     \* bound on statements that fail

None == "none"

\* A principal with what identity.access answers about it.
Principal ==
    [name : STRING, all : BOOLEAN, admin : BOOLEAN, unlabelled : BOOLEAN,
     held : SUBSET Entitlements, owned : SUBSET Entitlements,
     sees : SUBSET Streams, manages : SUBSET Streams]

LibraryAssumption ==
    /\ HomeOf \in [Convs -> Streams \cup {None}]
    /\ None \notin Docs \cup Streams \cup Convs
    /\ Principals \subseteq Principal
    /\ \A p \in Principals : p.manages \subseteq p.sees /\ p.owned \subseteq p.held
    /\ MaxPins \in Nat /\ MaxFailures \in Nat

VARIABLES
    ents,       \* Entitlement rows
    doc,        \* Document rows with their DocumentEntitlement rows
    chunk,      \* the stamps of each document's passages in the vector store
    pins,       \* WorkstreamPin rows
    attached,   \* DocumentAttachment rows
    convs,      \* Conversation rows
    stream,     \* the part of a Workstream row that shapes its corpus
    ingest,     \* the ingestion of each document
    writer,     \* the requests under way
    crossed,    \* documents whose tables changed behind a re-stamp's back
    failures

tables == <<ents, doc, pins, attached, convs, stream>>
vars == <<ents, doc, chunk, pins, attached, convs, stream, ingest, writer, crossed, failures>>

Names == {p.name : p \in Principals}
Scopes == {"universal", "conversation"}

\* A row; path is the door it came through: the inbox or a conversation.
\* The watch folder and the command line leave rows that are nobody's.
DocumentRow == [scope : Scopes, stream : Streams \cup {None}, owner : Names \cup {None},
        labels : SUBSET Entitlements, path : Convs \cup {None}]

Gone == [gone |-> TRUE]
Exists(d) == doc[d] # Gone

NoChunks == [absent |-> TRUE]
Place == [stream : Streams \cup {None}, conv : Convs \cup {None}]
Stamps == [labels : SUBSET Entitlements, place : Place]
Unstamped == [labels |-> {}, place |-> [stream |-> None, conv |-> None]]

\* A re-stamp under way carries what it read and whether the tables have
\* changed since.
Restamp == [stamps : Stamps, dirty : BOOLEAN]
Fresh(stamps) == [stamps |-> stamps, dirty |-> FALSE]

Idle == [pc |-> "idle", re |-> Fresh(Unstamped)]
Free == [pc |-> "free", doc |-> None, wanted |-> {}, add |-> {}, drop |-> {}, re |-> Fresh(Unstamped)]

TypeOK ==
    /\ ents \subseteq Entitlements
    /\ doc \in [Docs -> DocumentRow \cup {Gone}]
    /\ chunk \in [Docs -> Stamps \cup {NoChunks}]
    /\ pins \subseteq Streams \X Docs
    /\ attached \subseteq Docs \X Convs
    /\ convs \subseteq Convs
    /\ stream \in [Streams -> [universal : BOOLEAN, wall : SUBSET Entitlements]]
    /\ ingest \in [Docs -> [pc : {"idle", "started", "inserted", "read"}, re : Restamp]]
    /\ writer \in [Writers -> [pc : {"free", "opened", "labelling", "relabel", "stamping"},
                               doc : Docs \cup {None}, wanted : SUBSET Entitlements,
                               add : SUBSET Entitlements, drop : SUBSET Entitlements, re : Restamp]]
    /\ crossed \subseteq Docs
    /\ failures \in 0..MaxFailures
    /\ \A d \in Docs : Exists(d) => doc[d].labels \subseteq ents
    /\ \A s \in Streams : stream[s].wall \subseteq ents
    /\ \A x \in pins : Exists(x[2])
    /\ \A x \in attached : Exists(x[1])

---------------------------------------------------------------------------
(* Who may read what.                                                       *)

Held(p) == p.held \cap ents
Owned(p) == p.owned \cap ents
SeesNothing(p) == ~p.all /\ Held(p) = {} /\ ~p.unlabelled
IsOwner(p, d) == doc[d].owner = p.name

\* DocumentVisibility.permits: one row.
Permits(p, d, s) ==
    /\ doc[d].stream \in {None, s}
    /\ IF doc[d].scope = "conversation"
       THEN s = None /\ (p.all \/ IsOwner(p, d))
       ELSE \/ p.all
            \/ doc[d].labels = {} /\ p.unlabelled
            \/ doc[d].labels \cap Held(p) # {}

ChatScoped(d) == Exists(d) /\ doc[d].scope = "conversation"

\* readable_documents: the queryset.
ReadableDocuments(p, s) ==
    LET contained == {d \in Docs : Exists(d) /\ doc[d].stream \in {None, s}}
        gated == {d \in contained : \/ p.all
                                    \/ doc[d].labels \cap Held(p) # {}
                                    \/ p.unlabelled /\ doc[d].labels = {}}
    IN {d \in gated : ~ChatScoped(d)}
       \cup (IF s = None THEN {d \in Docs : ChatScoped(d) /\ (p.all \/ IsOwner(p, d))} ELSE {})

\* readable_document: by its id, from whatever stream contains it.
ReadableDocument(p, d) ==
    /\ Exists(d)
    /\ doc[d].stream = None \/ doc[d].stream \in p.sees
    /\ d \in ReadableDocuments(p, doc[d].stream)

Pinned(s) == {d \in Docs : <<s, d>> \in pins}

\* stream_documents: the corpus of a workstream, as the pages list it.
StreamDocuments(p, s) ==
    {d \in ReadableDocuments(p, s) :
        \/ doc[d].stream = s
        \/ /\ stream[s].universal
           /\ doc[d].stream = None
           /\ stream[s].wall = {} \/ doc[d].labels \cap stream[s].wall # {}
        \/ d \in Pinned(s)}

MayLabelDocument(p, d) == p.admin \/ doc[d].labels \cap Owned(p) # {}
MayAdministerDocument(p, d) == MayLabelDocument(p, d) \/ (ChatScoped(d) /\ IsOwner(p, d))
MayRestage(p, d) == IsOwner(p, d) \/ MayAdministerDocument(p, d)

\* The entitlements a principal may put on a document.
LabellingEntitlements(p) == IF p.admin THEN ents ELSE Owned(p)

---------------------------------------------------------------------------
(* What a search returns.                                                   *)

\* Mutant: the corpus forgets to leave out what belongs to a chat.
VisibilityFilters_ChatsToo(p, s, c, d) ==
    LET k == chunk[d]
        gate == p.all \/ k.labels \cap Held(p) # {} \/ (p.unlabelled /\ k.labels = {})
        corpus == IF s = None THEN k.place.stream = None
                  ELSE \/ k.place.stream = s
                       \/ d \in Pinned(s) /\ k.place.stream = None
                       \/ /\ stream[s].universal /\ k.place.stream = None
                          /\ stream[s].wall = {} \/ k.labels \cap stream[s].wall # {}
    IN \/ gate /\ corpus
       \/ c # None /\ k.place.conv = c

\* _visibility_filters: a passage passes by its stamps alone.
VisibilityFilters(p, s, c, d) ==
    LET k == chunk[d]
        gate == p.all \/ k.labels \cap Held(p) # {} \/ (p.unlabelled /\ k.labels = {})
        corpus == IF s = None THEN k.place.stream = None
                  ELSE \/ k.place.stream = s
                       \/ d \in Pinned(s) /\ k.place.stream = None
                       \/ /\ stream[s].universal /\ k.place.stream = None
                          /\ stream[s].wall = {} \/ k.labels \cap stream[s].wall # {}
    IN \/ gate /\ corpus /\ k.place.conv = None
       \/ c # None /\ k.place.conv = c

\* retrieve_nodes, before the ranking.
RetrieveNodes(p, s, c) ==
    IF SeesNothing(p) THEN {}
    ELSE {d \in Docs : chunk[d] # NoChunks /\ VisibilityFilters(p, s, c, d)}

\* attached_documents' in_corpus for the documents of a conversation.
AttachedInCorpus(p, s, c, d) ==
    IF ChatScoped(d) THEN ~SeesNothing(p)
    ELSE s = None \/ d \in StreamDocuments(p, s)

AttachedDocuments(p, s, c) ==
    {d \in Docs : <<d, c>> \in attached /\ (ChatScoped(d) \/ d \in ReadableDocuments(p, s))}

---------------------------------------------------------------------------
(* The one writer of the stamps.                                            *)

\* restamp_document_chunks' reads: the labels its transaction sees, the
\* row, and the attachment of a chat-scoped row.  A row that is gone reads
\* as an unlabelled universal one.
TablesSay(d, labels) ==
    [labels |-> labels,
     place |-> IF ~Exists(d) THEN Unstamped.place
               ELSE [stream |-> doc[d].stream,
                     conv |-> IF ChatScoped(d) /\ \E c \in Convs : <<d, c>> \in attached
                              THEN CHOOSE c \in Convs : <<d, c>> \in attached ELSE None]]

LabelIdsFor(d) == IF Exists(d) THEN doc[d].labels ELSE {}
Current(d) == TablesSay(d, LabelIdsFor(d))

\* Its one UPDATE.
Stamped(d, re) ==
    /\ chunk' = [chunk EXCEPT ![d] = IF @ = NoChunks THEN @ ELSE re.stamps]
    /\ crossed' = IF re.dirty THEN crossed \cup {d} ELSE crossed \ {d}

\* The tables of the documents S change: a re-stamp that has read is stale.
IngestBehind(S) ==
    [d \in Docs |-> IF d \in S /\ ingest[d].pc = "read" THEN [ingest[d] EXCEPT !.re.dirty = TRUE] ELSE ingest[d]]
WritersBehind(S) ==
    [w \in Writers |-> IF writer[w].doc \in S /\ writer[w].pc = "stamping"
                       THEN [writer[w] EXCEPT !.re.dirty = TRUE] ELSE writer[w]]
Disturb(S) == ingest' = IngestBehind(S) /\ writer' = WritersBehind(S)

Fails == failures < MaxFailures /\ failures' = failures + 1

---------------------------------------------------------------------------
(* Ingestion.                                                               *)

\* A first ingestion, a retry, Re-ingest or the re-encoding of the library.
IngestStarts(d) ==
    /\ Exists(d) /\ ingest[d].pc = "idle"
    /\ ingest' = [ingest EXCEPT ![d].pc = "started"]
    /\ UNCHANGED <<tables, chunk, writer, crossed, failures>>

\* The old passages go, the new ones come without stamps.
IngestProse(d) ==
    /\ ingest[d].pc = "started"
    /\ chunk' = [chunk EXCEPT ![d] = Unstamped]
    /\ ingest' = [ingest EXCEPT ![d].pc = "inserted"]
    /\ UNCHANGED <<tables, writer, crossed, failures>>

RestampReads(d) ==
    /\ ingest[d].pc = "inserted"
    /\ ingest' = [ingest EXCEPT ![d] = [pc |-> "read", re |-> [stamps |-> Current(d), dirty |-> ~Exists(d)]]]
    /\ UNCHANGED <<tables, chunk, writer, crossed, failures>>

RestampWrites(d) ==
    /\ ingest[d].pc = "read"
    /\ Stamped(d, ingest[d].re)
    /\ ingest' = [ingest EXCEPT ![d] = Idle]
    /\ UNCHANGED <<tables, writer, failures>>

\* Not raising: a failed stamp is logged and the ingestion goes on.
RestampFails(d) ==
    /\ ingest[d].pc = "read"
    /\ Fails
    /\ crossed' = crossed \cup {d}
    /\ ingest' = [ingest EXCEPT ![d] = Idle]
    /\ UNCHANGED <<tables, chunk, writer>>

---------------------------------------------------------------------------
(* Label changes.                                                           *)

Opens(w, d, wanted) ==
    writer' = [writer EXCEPT ![w] = [Free EXCEPT !.pc = "opened", !.doc = d, !.wanted = wanted]]

\* document_labels_bulk computes the exact set from the labels it reads.
DocumentLabelsBulk(w, p, d, e) ==
    /\ writer[w] = Free
    /\ Exists(d) /\ ~ChatScoped(d)
    /\ e \in LabellingEntitlements(p) /\ MayLabelDocument(p, d)
    /\ Opens(w, d, IF e \in doc[d].labels THEN doc[d].labels \ {e} ELSE doc[d].labels \cup {e})
    /\ UNCHANGED <<tables, chunk, ingest, crossed, failures>>

\* set_document_labels up to its own rows; nothing to change ends it.
SetDocumentLabels(w) ==
    LET d == writer[w].doc
        add == writer[w].wanted \ LabelIdsFor(d)
        drop == LabelIdsFor(d) \ writer[w].wanted
    IN /\ writer[w].pc = "opened"
       /\ writer' = [writer EXCEPT ![w] =
                        IF ~Exists(d) \/ (add = {} /\ drop = {}) \/ ~(add \subseteq ents) THEN Free
                        ELSE [@ EXCEPT !.pc = "labelling", !.add = add, !.drop = drop]]
       /\ UNCHANGED <<tables, chunk, ingest, crossed, failures>>

LabelStampReads(w) ==
    /\ writer[w].pc = "labelling"
    /\ LET d == writer[w].doc
           mine == (LabelIdsFor(d) \ writer[w].drop) \cup writer[w].add
       IN writer' = [writer EXCEPT ![w].pc = "stamping", ![w].re = Fresh(TablesSay(d, mine))]
    /\ UNCHANGED <<tables, chunk, ingest, crossed, failures>>

\* The database refuses a label that exists by now, or a row or an
\* entitlement that does not.
CommitRefused(w) ==
    LET d == writer[w].doc
    IN ~Exists(d) \/ writer[w].add \cap doc[d].labels # {} \/ ~(writer[w].add \subseteq ents)

\* Mutant: the labels are saved, the stamps are left to somebody else.
LabelCommits_NoStamp(w) ==
    LET d == writer[w].doc
    IN /\ writer[w].pc = "stamping" /\ ~CommitRefused(w)
       /\ doc' = [doc EXCEPT ![d].labels = (@ \ writer[w].drop) \cup writer[w].add]
       /\ crossed' = crossed \ {d} /\ UNCHANGED chunk
       /\ ingest' = IngestBehind({d})
       /\ writer' = [WritersBehind({d}) EXCEPT ![w] = Free]
       /\ UNCHANGED <<ents, pins, attached, convs, stream, failures>>

\* The UPDATE and the commit of a label change, or of relabel_chunks, which
\* changes no row.
LabelCommits(w) ==
    LET d == writer[w].doc
    IN /\ writer[w].pc = "stamping" /\ ~CommitRefused(w)
       /\ doc' = [doc EXCEPT ![d].labels = (@ \ writer[w].drop) \cup writer[w].add]
       /\ Stamped(d, writer[w].re)
       /\ ingest' = IngestBehind({d})
       /\ writer' = [WritersBehind({d}) EXCEPT ![w] = Free]
       /\ UNCHANGED <<ents, pins, attached, convs, stream, failures>>

\* Raising: a failed stamp takes the label change with it.
LabelRollsBack(w) ==
    /\ writer[w].pc = "stamping"
    /\ IF CommitRefused(w) THEN UNCHANGED failures ELSE Fails
    /\ writer' = [writer EXCEPT ![w] = Free]
    /\ UNCHANGED <<tables, chunk, ingest, crossed>>

\* manage.py relabel_chunks, one document of its loop.
RelabelChunks(w, d) ==
    /\ writer[w] = Free /\ Exists(d)
    /\ writer' = [writer EXCEPT ![w] = [Free EXCEPT !.pc = "stamping", !.doc = d, !.re = Fresh(Current(d))]]
    /\ UNCHANGED <<tables, chunk, ingest, crossed, failures>>

\* delete_entitlement's cascade: every document's label and stamp, the
\* walls, and the row, in one transaction.
UnlabelAllForEntitlement(e) ==
    LET S == {d \in Docs : e \in LabelIdsFor(d)}
    IN /\ e \in ents
       /\ ents' = ents \ {e}
       /\ doc' = [d \in Docs |-> IF d \in S THEN [doc[d] EXCEPT !.labels = @ \ {e}] ELSE doc[d]]
       /\ chunk' = [d \in Docs |-> IF d \in S /\ chunk[d] # NoChunks
                                    THEN TablesSay(d, doc[d].labels \ {e}) ELSE chunk[d]]
       /\ crossed' = crossed \ S
       /\ stream' = [s \in Streams |-> [stream[s] EXCEPT !.wall = @ \ {e}]]
       /\ Disturb(S)
       /\ UNCHANGED <<pins, attached, convs, failures>>

---------------------------------------------------------------------------
(* Staging: the library page, the watch folder, the chat composer.          *)

NewRow(p, path, scope, s) ==
    [scope |-> scope, stream |-> s, owner |-> p, labels |-> {}, path |-> path]

\* A path that was never staged, or whose document was deleted.
Stageable(d) == ~Exists(d) /\ chunk[d] = NoChunks /\ ingest[d] = Idle
                /\ \A w \in Writers : writer[w].doc # d

\* stage_document lets somebody else's row be taken over by whoever may
\* administer it: it becomes an unlabelled universal row of the taker.
Taken(d, p) ==
    [doc[d] EXCEPT !.labels = {}, !.stream = None, !.scope = "universal", !.owner = p.name]

\* A changed file at the path of a row that exists.
Restage(d, p) ==
    /\ Exists(d) /\ MayRestage(p, d)
    /\ doc' = IF IsOwner(p, d) THEN doc ELSE [doc EXCEPT ![d] = Taken(d, p)]
    /\ chunk' = [chunk EXCEPT ![d] = NoChunks]
    /\ Disturb({d})

UploadOpens(w, d, wanted) ==
    IF wanted = {} THEN UNCHANGED writer ELSE writer[w] = Free /\ Opens(w, d, wanted)

\* document_upload, a new file: the labels follow the enqueue.
DocumentUpload(w, p, d, s, wanted) ==
    /\ Stageable(d)
    /\ s = None \/ s \in p.manages
    /\ wanted \subseteq LabellingEntitlements(p)
    /\ doc' = [doc EXCEPT ![d] = NewRow(p.name, None, "universal", s)]
    /\ UploadOpens(w, d, wanted)
    /\ crossed' = crossed \ {d}
    /\ UNCHANGED <<ents, pins, attached, convs, stream, chunk, ingest, failures>>

UploadAgain(p, d) ==
    /\ Exists(d) /\ doc[d].path = None
    /\ Restage(d, p)
    /\ attached' = IF IsOwner(p, d) THEN attached ELSE {a \in attached : a[1] # d}
    /\ crossed' = crossed
    /\ UNCHANGED <<ents, pins, convs, stream, failures>>

\* The watch folder's scan, new file or changed one: nobody's row, and no
\* question asked of somebody else's.
WatcherStages(d) ==
    /\ \/ Stageable(d) /\ doc' = [doc EXCEPT ![d] = NewRow(None, None, "universal", None)]
          /\ crossed' = crossed \ {d} /\ UNCHANGED chunk
       \/ Exists(d) /\ doc[d].path = None /\ chunk[d] # NoChunks /\ UNCHANGED <<doc, crossed>>
          /\ chunk' = [chunk EXCEPT ![d] = NoChunks]
    /\ UNCHANGED <<ents, pins, attached, convs, stream, ingest, writer, failures>>

\* _attach never gives a chat-scoped document a second conversation.
WithAttachment(row, d, c, at) ==
    IF row.scope = "conversation" /\ \E x \in Convs \ {c} : <<d, x>> \in at THEN at ELSE at \cup {<<d, c>>}

Placements(c) ==
    {<<"conversation", None>>, <<"universal", None>>}
    \cup (IF HomeOf[c] = None THEN {} ELSE {<<"universal", HomeOf[c]>>})

\* stage_turn_attachments: one transaction with the turn it belongs to.
StageTurnAttachments(p, c, d, placement) ==
    /\ c \in convs /\ placement \in Placements(c)
    /\ Stageable(d)
    /\ doc' = [doc EXCEPT ![d] = NewRow(p.name, c, placement[1], placement[2])]
    /\ attached' = WithAttachment(doc'[d], d, c, attached)
    /\ crossed' = crossed \ {d}
    /\ UNCHANGED <<ents, pins, convs, stream, chunk, ingest, writer, failures>>

\* The same name again: a changed file is staged over the row, an unchanged
\* one is only attached.
StageTurnAgain(p, c, d) ==
    /\ c \in convs /\ Exists(d) /\ doc[d].path = c
    /\ \/ /\ Restage(d, p)
          /\ attached' = WithAttachment(doc'[d], d, c,
                            IF IsOwner(p, d) THEN attached ELSE {a \in attached : a[1] # d})
       \/ /\ attached' = WithAttachment(doc[d], d, c, attached)
          /\ UNCHANGED <<doc, chunk, ingest, writer>>
    /\ UNCHANGED <<ents, pins, convs, stream, crossed, failures>>

---------------------------------------------------------------------------
(* Pins, corpora, and the ways a document goes.                             *)

\* workstream_pin and pin_document.
PinDocument(p, s, d) ==
    /\ s \in p.manages /\ ReadableDocument(p, d)
    /\ ~ChatScoped(d) /\ doc[d].stream = None
    /\ Cardinality(Pinned(s)) < MaxPins
    /\ d \in ReadableDocuments(p, None)
    /\ pins' = pins \cup {<<s, d>>}
    /\ UNCHANGED <<ents, doc, attached, convs, stream, chunk, ingest, writer, crossed, failures>>

UnpinDocument(p, s, d) ==
    /\ s \in p.manages /\ <<s, d>> \in pins
    /\ pins' = pins \ {<<s, d>>}
    /\ UNCHANGED <<ents, doc, attached, convs, stream, chunk, ingest, writer, crossed, failures>>

\* The owner of a stream turns the universal library off or on, or walls it.
ScopeStream(s) ==
    /\ \/ stream' = [stream EXCEPT ![s].universal = ~@]
       \/ \E e \in ents : stream' = [stream EXCEPT ![s].wall = IF e \in @ THEN @ \ {e} ELSE @ \cup {e}]
    /\ UNCHANGED <<ents, doc, pins, attached, convs, chunk, ingest, writer, crossed, failures>>

\* services.delete_document on the documents S; the rows that hang on them
\* cascade.
DeleteDocuments(S) ==
    /\ doc' = [d \in Docs |-> IF d \in S THEN Gone ELSE doc[d]]
    /\ chunk' = [d \in Docs |-> IF d \in S THEN NoChunks ELSE chunk[d]]
    /\ pins' = {x \in pins : x[2] \notin S}
    /\ Disturb(S)

DocumentDelete(p, d) ==
    /\ Exists(d) /\ MayAdministerDocument(p, d)
    /\ DeleteDocuments({d})
    /\ attached' = {a \in attached : a[1] # d}
    /\ UNCHANGED <<ents, convs, stream, crossed, failures>>

DetachAttachment(p, c, d) ==
    /\ Exists(d) /\ <<d, c>> \in attached /\ IsOwner(p, d)
    /\ IF ChatScoped(d) THEN DeleteDocuments({d}) ELSE UNCHANGED <<doc, chunk, pins, ingest, writer>>
    /\ attached' = IF ChatScoped(d) THEN {a \in attached : a[1] # d} ELSE attached \ {<<d, c>>}
    /\ UNCHANGED <<ents, convs, stream, crossed, failures>>

\* delete_conversation's clean-up.
DeleteAttachments(c) ==
    LET S == {d \in Docs : ChatScoped(d) /\ <<d, c>> \in attached}
    IN /\ c \in convs
       /\ convs' = convs \ {c}
       /\ DeleteDocuments(S)
       /\ attached' = {a \in attached : a[1] \notin S /\ a[2] # c}
       /\ UNCHANGED <<ents, stream, crossed, failures>>

\* It raises inside its savepoint: the conversation goes all the same and
\* its documents stay.
DeleteAttachmentsFails(c) ==
    /\ c \in convs
    /\ Fails
    /\ convs' = convs \ {c}
    /\ UNCHANGED <<ents, doc, pins, attached, stream, chunk, ingest, writer, crossed>>

---------------------------------------------------------------------------
Init ==
    /\ ents = Entitlements
    /\ doc = [d \in Docs |-> Gone]
    /\ chunk = [d \in Docs |-> NoChunks]
    /\ pins = {} /\ attached = {} /\ convs = Convs
    /\ stream \in [Streams -> [universal : BOOLEAN, wall : {{}}]]
    /\ ingest = [d \in Docs |-> Idle]
    /\ writer = [w \in Writers |-> Free]
    /\ crossed = {} /\ failures = 0

Next ==
    \/ \E d \in Docs : \/ IngestStarts(d) \/ IngestProse(d) \/ RestampReads(d) \/ RestampWrites(d)
                        \/ RestampFails(d) \/ WatcherStages(d)
    \/ \E w \in Writers : SetDocumentLabels(w) \/ LabelStampReads(w) \/ LabelCommits(w) \/ LabelRollsBack(w)
    \/ \E w \in Writers, d \in Docs : RelabelChunks(w, d)
    \/ \E w \in Writers, p \in Principals, d \in Docs, e \in ents : DocumentLabelsBulk(w, p, d, e)
    \/ \E w \in Writers, p \in Principals, d \in Docs, s \in Streams \cup {None}, l \in SUBSET ents :
            DocumentUpload(w, p, d, s, l)
    \/ \E e \in Entitlements : UnlabelAllForEntitlement(e)
    \/ \E p \in Principals, d \in Docs : UploadAgain(p, d) \/ DocumentDelete(p, d)
    \/ \E p \in Principals, c \in Convs, d \in Docs :
            \/ StageTurnAgain(p, c, d) \/ DetachAttachment(p, c, d)
            \/ \E placement \in Placements(c) : StageTurnAttachments(p, c, d, placement)
    \/ \E p \in Principals, s \in Streams, d \in Docs : PinDocument(p, s, d) \/ UnpinDocument(p, s, d)
    \/ \E s \in Streams : ScopeStream(s)
    \/ \E c \in Convs : DeleteAttachments(c) \/ DeleteAttachmentsFails(c)

Spec == Init /\ [][Next]_vars

---------------------------------------------------------------------------
\* No re-stamp that follows an insertion is still to come.
Settled(d) == ingest[d].pc \in {"idle", "started"}

\* The row-at-a-time answer the documents page shows and the query every
\* list is made from agree about every document, in and outside a stream.
PermitsIsReadable ==
    \A p \in Principals, d \in Docs, s \in Streams \cup {None} :
        Exists(d) => (Permits(p, d, s) <=> d \in ReadableDocuments(p, s))

\* The stamps of a document's passages say what its tables say once its
\* ingestion has stamped them, unless the last stamp failed or was computed
\* from tables that changed before it was written.
StampsAreCurrent ==
    \A d \in Docs : Settled(d) /\ chunk[d] # NoChunks /\ d \notin crossed => chunk[d] = Current(d)

\* With current stamps a search in a conversation returns the passages of
\* the documents the pages list for that corpus and of the conversation's
\* own documents, neither more nor fewer, whatever the pins, the walls and
\* the universal switch are.
SearchMatchesTheLists ==
    \A p \in Principals, c \in Convs, d \in Docs :
        LET s == HomeOf[c]
            listed == IF s = None THEN {x \in ReadableDocuments(p, None) : ~ChatScoped(x)}
                      ELSE StreamDocuments(p, s)
            own == {x \in Docs : ChatScoped(x) /\ <<x, c>> \in attached}
        IN Settled(d) /\ chunk[d] # NoChunks /\ d \notin crossed /\ ~SeesNothing(p) =>
               (d \in RetrieveNodes(p, s, c) <=> d \in listed \cup own)

\* The mark an attached document shows in its conversation, in the corpus or
\* not, tells what a search there would do with it.
AttachmentMarkIsTrue ==
    \A p \in Principals, c \in Convs : \A d \in AttachedDocuments(p, HomeOf[c], c) :
        Settled(d) /\ chunk[d] # NoChunks /\ d \notin crossed =>
            (AttachedInCorpus(p, HomeOf[c], c, d) <=> d \in RetrieveNodes(p, HomeOf[c], c))

\* A document that belongs to one chat has exactly that one attachment and
\* lives in no stream, so a re-stamp can never lose its conversation.
ChatDocumentHasOneChat ==
    \A d \in Docs : ChatScoped(d) =>
        /\ Cardinality({c \in Convs : <<d, c>> \in attached}) = 1
        /\ doc[d].stream = None /\ \A s \in Streams : <<s, d>> \notin pins

\* What restamp_document_chunks says of itself: a writer that reads the
\* tables itself cannot leave the wrong stamps behind.
CacheIsNeverWrong ==
    \A d \in Docs : Settled(d) /\ Exists(d) /\ chunk[d] # NoChunks
                     /\ (\A w \in Writers : writer[w].doc # d) => chunk[d].labels = doc[d].labels
================================================================================
