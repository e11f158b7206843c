------------------------------ MODULE Sharing -------------------------------
(***************************************************************************)
(* Conversations, workstreams and their shares: who sees, manages, posts   *)
(* to and shares what (agents/visibility.py, agents/workstreams.py,        *)
(* agents/shares.py, agents/entitlements.py, agents/runtime/taint.py and   *)
(* the chat pages in front of them).                                       *)
(*                                                                         *)
(* A conversation or a workstream is tagged with the entitlements of the   *)
(* material its turns read.  A workstream is shared only with a subject    *)
(* that holds every tag (gate one); tags grow and grants are revoked       *)
(* afterwards, so every read of a shared stream asks again (gate two).     *)
(* Shares name their target by key, without a foreign key.                 *)
(***************************************************************************)
EXTENDS Identity

CONSTANTS Streams, Convs, Tools,
          MaxChanges  \* bound on the edits of accounts, shares and walls

VARIABLES stream,   \* the Workstream rows, with their walls and tags
          conv,     \* the Conversation rows, their tags and what their turns read
          shares,   \* the Share rows
          toolLabels, \* <<tool, entitlement>>: the ToolEntitlement rows
          page,     \* a request that makes a conversation, between its read and its write
          closing,  \* the stream a request has counted the contents of, to delete it
          changes

shvars == <<box, account, groups, members, ents, grants, req,
            stream, conv, shares, toolLabels, page, closing, changes>>
idRows == <<box, account, groups, members, ents, grants, req>>

NoStream == [state |-> "new", owner |-> None, wall |-> {}, tags |-> {}]
NoConv == [state |-> "new", owner |-> None, stream |-> None, tags |-> {}, text |-> {}]
NoPage == [op |-> "none"]
Levels == {"view", "use"}
RowStates == {"new", "live", "gone"}   \* a key is never used twice
Subjects == Users \cup Groups
Targets == Streams \cup Convs

ShTypeOK ==
    /\ stream \in [Streams -> [state : RowStates, owner : Principals \cup {None},
                               wall : SUBSET Ents, tags : SUBSET Ents]]
    /\ conv \in [Convs -> [state : RowStates, owner : Principals \cup {None},
                           stream : Streams \cup {None},
                           tags : SUBSET Ents, text : SUBSET Ents]]
    /\ shares \subseteq [target : Targets, subject : Subjects, level : Levels]
    /\ \A s, t \in shares : s.target = t.target /\ s.subject = t.subject => s = t
    /\ toolLabels \subseteq Tools \X Ents
    /\ changes \in 0..MaxChanges

-----------------------------------------------------------------------------
(* agents/shares.py *)

\* A share reaches a person directly or through a group.
ReachedBy(p) == {s \in shares : p \in Users /\ (s.subject = p \/ <<s.subject, p>> \in members)}

SharedKeys(p) == {s.target : s \in ReachedBy(p)}

ShareLevel(p, t) ==
    LET levels == {s.level : s \in {x \in ReachedBy(p) : x.target = t}}
    IN IF "use" \in levels THEN "use" ELSE IF "view" \in levels THEN "view" ELSE "none"

-----------------------------------------------------------------------------
(* agents/visibility.py: the queries. *)

VisibleStreams(p) ==
    {w \in Streams : /\ stream[w].state = "live"
                     /\ \/ SeesAllContent(p)
                        \/ OwnedRowsQ(p, stream[w].owner)
                        \/ w \in SharedKeys(p)}

\* A share on the container is a share on the contents, and the owner of a
\* stream reads every conversation in it.
VisibleConversations(p) ==
    {c \in Convs : /\ conv[c].state = "live"
                   /\ \/ SeesAllContent(p)
                      \/ OwnedRowsQ(p, conv[c].owner)
                      \/ c \in SharedKeys(p)
                      \/ conv[c].stream # None /\ conv[c].stream \in SharedKeys(p)
                      \/ conv[c].stream # None /\ OwnedRowsQ(p, stream[conv[c].stream].owner)}

(* ... and the predicates asked of one row. *)

MayManageStream(p, w) == SeesAllContent(p) \/ MayReadOwnedRow(p, stream[w].owner)

OwnsStreamOf(p, c) == conv[c].stream # None /\ MayReadOwnedRow(p, stream[conv[c].stream].owner)

MayManageConversation(p, c) ==
    SeesAllContent(p) \/ MayReadOwnedRow(p, conv[c].owner) \/ OwnsStreamOf(p, c)

MayPostTo(p, c) ==
    \/ SeesAllContent(p)
    \/ MayReadOwnedRow(p, conv[c].owner)
    \/ ShareLevel(p, c) = "use"
    \/ conv[c].stream # None /\ conv[c].stream \in SharedKeys(p)
    \/ OwnsStreamOf(p, c)

MayShareConversation(p, c) == SeesAllContent(p) \/ MayReadOwnedRow(p, conv[c].owner)

-----------------------------------------------------------------------------
(* The two gates, and the two lists that say where gate two would refuse. *)

GateOne(w, s) == stream[w].tags \subseteq SubjectIds(s)

StreamAccess_OwnGrants(p, w) ==
    MayManageStream(p, w) \/ stream[w].tags \subseteq HeldIds_DirectOnly(p)

\* stream_access: the owner is never shut out by the tags.
StreamAccess(p, w) == MayManageStream(p, w) \/ stream[w].tags \subseteq HeldIds(p)

\* share_list_for: the owner's list marks a share whose subject misses a tag.
ShareIsDormant(s) == ~(stream[s.target].tags \subseteq SubjectIds(s.subject))

\* dormant_recipient_workstream_ids: the sidebar's batched answer.
DormantFor(p) ==
    LET recipients == {w \in VisibleStreams(p) : ~MayManageStream(p, w)}
    IN {w \in recipients : stream[w].tags \ HeldIds(p) # {}}

-----------------------------------------------------------------------------
(* The wall of a stream and what it leaves callable. *)

WallIds(w) == IF AccountsOn THEN stream[w].wall ELSE {}

\* tool_access_for and ToolAccess.allows: a tool without a label is for
\* everyone, one with labels needs one of them.
ToolsAllowed(p, wall) ==
    IF SeesAllContent(p) /\ wall = {} THEN Tools
    ELSE LET held == IF wall = {} THEN HeldIds(p) ELSE HeldIds(p) \cap wall
             needed(t) == {e \in Ents : <<t, e>> \in toolLabels}
         IN {t \in Tools : needed(t) = {} \/ needed(t) \cap held # {}}

-----------------------------------------------------------------------------
Spend == changes < MaxChanges /\ changes' = changes + 1

\* A box in use: it has an administrator, and its groups hold everything.
ShInit ==
    /\ box = [posture |-> "enterprise", library |-> "open", adminSees |-> FALSE]
    /\ account \in [Users -> [exists : {TRUE}, active : {TRUE}, super : BOOLEAN]]
    /\ ActiveSuperusers # {}
    /\ groups = Groups /\ members = Groups \X Users /\ ents = Ents
    /\ grants = {[ent |-> e, subject |-> g, role |-> "member"] : e \in Ents, g \in Groups}
    /\ req = [r \in Requests |-> Idle]
    /\ stream = [w \in Streams |-> NoStream]
    /\ conv = [c \in Convs |-> NoConv]
    /\ shares = {} /\ toolLabels = {}
    /\ page = NoPage /\ closing = None
    /\ changes = 0

\* A page asks as the account signed in; the box may be open.
Callers == {PrincipalFor(s) : s \in Signed} \ {"anonymous"}

\* create_workstream
NewStream(p) == [NoStream EXCEPT !.state = "live", !.owner = p]

\* set_workstream_scope: a wall names only what its author holds.
MayWall(p, wanted) == wanted \subseteq HeldIds(p)

\* workstream_new: the row and its wall are one transaction.
WorkstreamNew(p, w, wanted) ==
    /\ stream[w].state = "new" /\ MayWall(p, wanted)
    /\ stream' = [stream EXCEPT ![w] = [NewStream(p) EXCEPT !.wall = wanted]]
    /\ UNCHANGED <<idRows, conv, shares, toolLabels, page, changes, closing>>

\* stream_owner_required: the pages of the owner.
OwnerPage(p, w) == w \in VisibleStreams(p) /\ MayManageStream(p, w)

\* workstream_scope
WorkstreamScope(p, w, wanted) ==
    /\ Spend
    /\ OwnerPage(p, w) /\ MayWall(p, wanted)
    /\ stream' = [stream EXCEPT ![w].wall = wanted]
    /\ UNCHANGED <<idRows, conv, shares, toolLabels, page, closing>>

\* update_or_create: one row for a target and a subject.
WithShare(t, s, level) ==
    {x \in shares : ~(x.target = t /\ x.subject = s)}
       \cup {[target |-> t, subject |-> s, level |-> level]}

\* share_workstream asks gate one for the subject.
ShareWorkstream(w, s) == GateOne(w, s) /\ shares' = WithShare(w, s, "use")

\* workstream_share offers the other accounts and the groups.
ShareStreamPage(p, w, s) ==
    /\ Spend
    /\ OwnerPage(p, w) /\ AccountsOn /\ s # p
    /\ s \in Groups => s \in groups
    /\ ShareWorkstream(w, s)
    /\ UNCHANGED <<idRows, stream, conv, toolLabels, page, closing>>

\* conversation_share
ShareConversation(p, c, s, level) ==
    /\ Spend
    /\ c \in VisibleConversations(p) /\ MayShareConversation(p, c)
    /\ s \in Groups => s \in groups
    /\ shares' = WithShare(c, s, level)
    /\ UNCHANGED <<idRows, stream, conv, toolLabels, page, closing>>

RevokeShare(p, x) ==
    /\ Spend
    /\ x \in shares
    /\ IF x.target \in Streams
       THEN x.target \in VisibleStreams(p) /\ MayManageStream(p, x.target)
       ELSE x.target \in VisibleConversations(p) /\ MayShareConversation(p, x.target)
    /\ shares' = shares \ {x}
    /\ UNCHANGED <<idRows, stream, conv, toolLabels, page, closing>>

\* workstream_page answers 404 to a stranger and 403 where gate two refuses.
WorkstreamPage(p, w) == w \in VisibleStreams(p) /\ StreamAccess(p, w)

\* conversation_start resolves the stream and asks gate two, ...
OpenStart(p, c, w) ==
    /\ page = NoPage /\ conv[c].state = "new"
    /\ w # None => WorkstreamPage(p, w)
    /\ page' = [op |-> "start", who |-> p, conv |-> c, stream |-> w]
    /\ UNCHANGED <<idRows, stream, conv, shares, toolLabels, changes, closing>>

\* ... then creates the row; the foreign key refuses a stream that has gone.
FinishStart ==
    /\ page.op = "start"
    /\ IF page.stream # None /\ ~stream[page.stream].state = "live"
       THEN page' = NoPage /\ UNCHANGED conv
       ELSE /\ page' = [page EXCEPT !.op = "first"]
            /\ conv' = [conv EXCEPT ![page.conv] =
                  [NoConv EXCEPT !.state = "live", !.owner = page.who, !.stream = page.stream]]
    /\ UNCHANGED <<idRows, stream, shares, toolLabels, changes, closing>>

\* ... and posts the first message, deleting the row again when that is
\* refused.
FirstTurn(started) ==
    /\ page.op = "first"
    /\ page' = NoPage
    /\ conv' = IF started THEN conv
               ELSE [conv EXCEPT ![page.conv] = [NoConv EXCEPT !.state = "gone"]]
    /\ UNCHANGED <<idRows, stream, shares, toolLabels, changes, closing>>

\* The shares of a conversation, its turns and its tags go with it; the tags
\* of its stream stay.
DeleteConversation(p, c) ==
    /\ MayManageConversation(p, c)
    /\ shares' = {x \in shares : x.target # c}
    /\ conv' = [conv EXCEPT ![c] = [NoConv EXCEPT !.state = "gone"]]
    /\ UNCHANGED <<idRows, stream, toolLabels, page, changes, closing>>

ConversationDelete(p, c) == c \in VisibleConversations(p) /\ DeleteConversation(p, c)

\* delete_workstream counts what the stream holds, ...
OpenDelete(p, w) ==
    /\ closing = None
    /\ OwnerPage(p, w)
    /\ \A c \in Convs : conv[c].stream # w
    /\ closing' = w
    /\ UNCHANGED <<idRows, stream, conv, shares, toolLabels, page, changes>>

\* ... then removes the shares and the row in one transaction, which the
\* protected foreign key undoes when a conversation has come in between.
FinishDelete ==
    LET w == closing IN
    /\ closing # None
    /\ closing' = None
    /\ IF \E c \in Convs : conv[c].stream = w
       THEN UNCHANGED <<stream, shares>>
       ELSE /\ stream' = [stream EXCEPT ![w] = [NoStream EXCEPT !.state = "gone"]]
            /\ shares' = {x \in shares : x.target # w}
    /\ UNCHANGED <<idRows, conv, toolLabels, page, changes>>

\* duplicate_conversation: the copy takes the turns first ...
CopyTurns(p, c, copy) ==
    /\ page = NoPage /\ conv[copy].state = "new"
    /\ c \in VisibleConversations(p) /\ MayManageConversation(p, c)
    /\ page' = [op |-> "copy", who |-> p, from |-> c, conv |-> copy,
                stream |-> conv[c].stream, text |-> conv[c].text]
    /\ UNCHANGED <<idRows, stream, conv, shares, toolLabels, changes, closing>>

\* ... and then the tags, of which a source deleted meanwhile has none; nothing
\* of it is seen before the commit, which a stream that has gone refuses.
CopyTags ==
    /\ page.op = "copy"
    /\ page' = NoPage
    /\ conv' = IF page.stream # None /\ stream[page.stream].state = "gone" THEN conv
               ELSE [conv EXCEPT ![page.conv] =
                       [state |-> "live", owner |-> page.who, stream |-> page.stream,
                        tags |-> conv[page.from].tags, text |-> page.text]]
    /\ UNCHANGED <<idRows, stream, shares, toolLabels, changes, closing>>

\* A stream tagged only the first time its conversation meets the material.
StampTurnTaint_ConversationOnly(c, e) ==
    /\ conv[c].state = "live" /\ e \in ents
    /\ conv' = [conv EXCEPT ![c].text = @ \cup {e}, ![c].tags = @ \cup {e}]
    /\ UNCHANGED <<idRows, stream, shares, toolLabels, page, changes, closing>>

\* stamp_turn_taint: the tool's row and the tags of what it read are one
\* transaction; the stream is tagged with its conversation.
StampTurnTaint(c, e) ==
    /\ conv[c].state = "live" /\ e \in ents
    /\ conv' = [conv EXCEPT ![c].text = @ \cup {e}, ![c].tags = @ \cup {e}]
    /\ stream' = IF conv[c].stream = None THEN stream
                 ELSE [stream EXCEPT ![conv[c].stream].tags = @ \cup {e}]
    /\ UNCHANGED <<idRows, shares, toolLabels, page, changes, closing>>

SetToolLabels(p, t, wanted) ==
    /\ Spend
    /\ IsAdmin(p) /\ wanted \subseteq LabellingEntitlements(p)
    /\ toolLabels' = (toolLabels \ ({t} \X LabellingEntitlements(p))) \cup ({t} \X wanted)
    /\ UNCHANGED <<idRows, stream, conv, shares, page, closing>>

\* delete_entitlement with the cascades of the agents column.
DeleteEntitlementRows(p, e) ==
    /\ Spend
    /\ DeleteEntitlement(p, e)
    /\ stream' = [w \in Streams |-> [stream[w] EXCEPT !.wall = @ \ {e}, !.tags = @ \ {e}]]
    /\ conv' = [c \in Convs |-> [conv[c] EXCEPT !.tags = @ \ {e}]]
    /\ toolLabels' = {l \in toolLabels : l[2] # e}
    /\ UNCHANGED <<shares, page, closing>>

\* The pages of groups and entitlements.  The shares to a group go with it, and
\* a new row has a new key.
ChangeHoldings ==
    /\ Spend
    /\ \E p \in Callers :
          \/ EntitlementAction(p)
          \/ GroupEdit(p)
          \/ GroupsPage(p)
          \/ \E e \in Ents : CreateEntitlement(p, e) /\ e \notin UNION {conv[c].text : c \in Convs}
    /\ shares' = {s \in shares : s.subject \in Users \cup groups'}
    /\ UNCHANGED <<stream, conv, toolLabels, page, closing>>

\* _entitlement_axis_action: what one entitlement covers, from its own page.
EntitlementAxisAction(p, e, t, add) ==
    /\ Spend
    /\ IsAdmin(p) /\ e \in ents
    /\ toolLabels' = IF add THEN toolLabels \cup {<<t, e>>} ELSE toolLabels \ {<<t, e>>}
    /\ UNCHANGED <<idRows, stream, conv, shares, page, closing>>

\* identity_posture, and adopt_open_rows: one account takes every row the box
\* owns.
SwitchPosture ==
    /\ Spend
    /\ ActiveSuperusers # {}
    /\ \/ box' = [box EXCEPT !.posture = IF box.posture = "open" THEN "enterprise" ELSE "open"]
       \/ box' = [box EXCEPT !.adminSees = ~@]
    /\ UNCHANGED <<account, groups, members, ents, grants, req,
                   stream, conv, shares, toolLabels, page, closing>>

AdoptOpenRows(u) ==
    LET adopt(owner) == IF owner = "open" THEN u ELSE owner IN
    /\ Spend
    /\ u \in ActiveSuperusers
    /\ stream' = [w \in Streams |-> [stream[w] EXCEPT !.owner = adopt(@)]]
    /\ conv' = [c \in Convs |-> [conv[c] EXCEPT !.owner = adopt(@)]]
    /\ UNCHANGED <<idRows, shares, toolLabels, page, closing>>

ReassignOwner(from, to) ==
    LET move(owner) == IF owner = from THEN to ELSE owner IN
    /\ Spend
    /\ account[to].exists /\ account[to].active /\ from # to
    /\ stream' = [w \in Streams |-> [stream[w] EXCEPT !.owner = move(@)]]
    /\ conv' = [c \in Convs |-> [conv[c] EXCEPT !.owner = move(@)]]
    /\ UNCHANGED <<idRows, shares, toolLabels, page, closing>>

\* install paths and agent_turn make rows the local command owns.
CommandMakes(c) ==
    /\ Spend
    /\ conv[c].state = "new"
    /\ page.op \in {"start", "copy"} => page.conv # c
    /\ conv' = [conv EXCEPT ![c] = [NoConv EXCEPT !.state = "live", !.owner = "service"]]
    /\ UNCHANGED <<idRows, stream, shares, toolLabels, page, closing>>

ShNext ==
    \/ \E p \in Callers, w \in Streams, E \in SUBSET Ents : WorkstreamNew(p, w, E)
    \/ \E p \in Callers, w \in Streams, E \in SUBSET Ents : WorkstreamScope(p, w, E)
    \/ \E p \in Callers, w \in Streams, s \in Subjects : ShareStreamPage(p, w, s)
    \/ \E p \in Callers, c \in Convs, s \in Subjects, l \in Levels : ShareConversation(p, c, s, l)
    \/ \E p \in Callers, x \in shares : RevokeShare(p, x)
    \/ \E p \in Callers, c \in Convs, w \in Streams \cup {None} : OpenStart(p, c, w)
    \/ FinishStart
    \/ \E b \in BOOLEAN : FirstTurn(b)
    \/ \E p \in Callers, c \in Convs : ConversationDelete(p, c)
    \/ \E p \in Callers, w \in Streams : OpenDelete(p, w)
    \/ FinishDelete
    \/ \E p \in Callers, c, d \in Convs : CopyTurns(p, c, d)
    \/ CopyTags
    \/ \E c \in Convs, e \in Ents : StampTurnTaint(c, e)
    \/ \E p \in Callers, t \in Tools, E \in SUBSET Ents : SetToolLabels(p, t, E)
    \/ \E p \in Callers, t \in Tools, e \in Ents, b \in BOOLEAN : EntitlementAxisAction(p, e, t, b)
    \/ \E p \in Callers, e \in Ents : DeleteEntitlementRows(p, e)
    \/ ChangeHoldings
    \/ SwitchPosture
    \/ \E u \in Users : AdoptOpenRows(u)
    \/ \E f \in Users \cup {"open", "service"}, t \in Users : ReassignOwner(f, t)
    \/ \E c \in Convs : CommandMakes(c)

ShSpec == ShInit /\ [][ShNext]_shvars

-----------------------------------------------------------------------------
(* The rule has two renderings, a query for lists and a predicate for one row
   (visible_conversations against may_manage_conversation and may_post_to,
   visible_workstreams against may_manage_workstream): whoever may act on a row
   can also see it, so no page answers 404 to somebody it lets in. *)
WhoActsSees ==
    \A p \in Principals :
        /\ \A c \in Convs : conv[c].state = "live" /\ (MayManageConversation(p, c) \/ MayPostTo(p, c))
                               => c \in VisibleConversations(p)
        /\ \A w \in Streams : stream[w].state = "live" /\ MayManageStream(p, w) => w \in VisibleStreams(p)

(* share_list_for against stream_access: a share the owner's list does not mark
   dormant opens the stream to everyone it reaches. *)
LiveShareOpens ==
    AccountsOn =>
        \A s \in shares : s.target \in Streams /\ stream[s.target].state = "live" /\ ~ShareIsDormant(s) =>
            \A u \in Users : s \in ReachedBy(u) => StreamAccess(u, s.target)

(* dormant_recipient_workstream_ids against stream_access: the sidebar marks
   exactly the streams whose page would answer 403. *)
MarkedExactlyWhenRefused ==
    \A p \in Principals : DormantFor(p) = {w \in VisibleStreams(p) : ~StreamAccess(p, w)}

(* A stream carries the tags of everything in it, copies included
   (_add_workstream_tags): otherwise gate one would share what it must not. *)
StreamCarriesItsTags ==
    \A c \in Convs : conv[c].state = "live" /\ conv[c].stream # None =>
        conv[c].tags \subseteq stream[conv[c].stream].tags

(* A copy made while a turn is running carries the tag of everything it copied
   (duplicate_conversation reads the turns before the tags, and a turn's row
   and tags are committed together), as long as its source is still there. *)
CopyIsTagged ==
    [][\A c \in Convs : conv[c].state = "new" /\ conv'[c].state = "live" /\ page.op = "copy" =>
          \/ conv[page.from].state # "live"
          \/ conv'[c].text \cap ents \subseteq conv'[c].tags]_shvars

(* delete_workstream: a conversation never loses its stream, and a deletion the
   database refuses takes no share with it. *)
RefusedDeleteChangesNothing ==
    [][(\E s \in shares \ shares' : /\ s.target \in Streams /\ stream'[s.target].state = "live"
                                     /\ s.subject \in Users \cup groups')
           => \E p \in Callers, x \in shares : RevokeShare(p, x)]_shvars

(* A wall takes tools away and gives none (tool_access_for). *)
WallOnlyNarrows ==
    \A p \in Principals, wall \in SUBSET Ents : ToolsAllowed(p, wall) \subseteq ToolsAllowed(p, {})
=============================================================================
