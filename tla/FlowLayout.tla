------------------------------ MODULE FlowLayout ------------------------------
(***************************************************************************)
(* The paginator of data-lower (data-lower/src/lib.rs, paginate_flow): the *)
(* sections of a record flow are packed over a chain of frames, greedily,  *)
(* a record never split, a section's headers repeated where it continues.  *)
(*                                                                         *)
(* The loop over the sections is a state machine, one action per block it  *)
(* places or decision it takes.  A record is the row it renders and its    *)
(* height; what its cells say is left out.  Each placed block carries the  *)
(* place it was given, `top', which the code keeps only as the running     *)
(* used_pt of the frame.  The ancestors in force are kept as the places of *)
(* their sections in the flow, not as copies of their headers.             *)
(***************************************************************************)
EXTENDS Integers, Sequences, FiniteSets

CONSTANTS
    Text,           \* header texts
    NoText,         \* a section without a header
    NoFooter        \* a section without a footer

ASSUME TextAssumption == NoText \notin Text /\ NoFooter \notin Nat

FlowRecord == [row : Nat, height : Nat]

\* FlowGroup: a section's heading, nesting depth, records, and the height of
\* its footer.
FlowGroup == [header : Text \cup {NoText}, level : Nat,
              records : Seq(FlowRecord), footer : Nat \cup {NoFooter}]

\* FlowLayoutOpts
FlowLayoutOpts == [repeatHeader : BOOLEAN, continuedMarker : BOOLEAN, headerHeight : Nat]

\* FlowBlock
HeaderBlock == [block : {"header"}, text : Text, level : Nat, continued : BOOLEAN, top : Nat]
RecordBlock == [block : {"record"}, group : Nat, record : Nat, row : Nat,
                height : Nat, top : Nat]
FooterBlock == [block : {"footer"}, group : Nat, height : Nat, top : Nat]
FlowBlock == HeaderBlock \cup RecordBlock \cup FooterBlock

\* PaginatedFrame
PaginatedFrame == [blocks : Seq(FlowBlock), used : Nat]

VARIABLES
    groups, chain, opts,    \* the arguments: the chain is its frames' heights
    step,           \* where the loop stands in the current section; idle before a call
    group, record,  \* the current section, and the next record of it
    frame,          \* fi: the frame being filled
    frames,         \* the frames so far
    parents,        \* parent_stack, as sections
    started,        \* group_started
    placed, overflow

arguments == <<groups, chain, opts>>
layoutVars == <<arguments, step, group, record, frame, frames, parents, started,
                placed, overflow>>

LayoutTypeOK ==
    /\ groups \in Seq(FlowGroup)
    /\ chain \in Seq(Nat)
    /\ opts \in FlowLayoutOpts
    /\ step \in {"idle", "header", "records", "footer", "done"}
    /\ group \in 1..(Len(groups) + 1)
    /\ step \in {"records", "footer"} => group <= Len(groups)
    /\ record \in Nat \ {0}
    /\ step = "records" => record <= Len(groups[group].records) + 1
    /\ frame \in Nat \ {0}
    /\ frames \in Seq(PaginatedFrame)
    /\ Len(frames) = Len(chain)
    /\ parents \subseteq DOMAIN groups
    /\ started \in BOOLEAN
    /\ placed \in Nat
    /\ overflow \in BOOLEAN

EmptyFrame == [blocks |-> <<>>, used |-> 0]

LayoutInit ==
    /\ groups = <<>> /\ chain = <<>>
    /\ opts = [repeatHeader |-> TRUE, continuedMarker |-> TRUE, headerHeight |-> 1]
    /\ step = "idle"
    /\ group = 1 /\ record = 1 /\ frame = 1
    /\ frames = <<>>
    /\ parents = {}
    /\ started = FALSE
    /\ placed = 0
    /\ overflow = FALSE

\* A call of paginate_flow.
Paginate(gs, c, o) ==
    /\ step \in {"idle", "done"}
    /\ groups' = gs /\ chain' = c /\ opts' = o
    /\ step' = "header"
    /\ group' = 1 /\ record' = 1 /\ frame' = 1
    /\ frames' = [i \in 1..Len(c) |-> EmptyFrame]
    /\ parents' = {}
    /\ started' = FALSE
    /\ placed' = 0
    /\ overflow' = FALSE

-----------------------------------------------------------------------------
(* Helpers of the loop. *)

This == groups[group]

InChain(f) == f <= Len(chain)
Fits(f, h) == InChain(f) /\ frames[f].used + h <= chain[f]

\* The frame a header or a footer goes to: the current one unless it is there
\* and too full.
FrameFor(h) == IF InChain(frame) /\ ~Fits(frame, h) THEN frame + 1 ELSE frame

WithBlock(fr, b, h) == [blocks |-> Append(fr.blocks, b), used |-> fr.used + h]

Header(text, level, continued, top) ==
    [block |-> "header", text |-> text, level |-> level, continued |-> continued, top |-> top]

IsParent(g) == g.records = <<>> /\ g.header # NoText

\* The active ancestors once section n opens: a section with a header and no
\* records replaces everything at its level and below.
ParentsAt(n) ==
    IF IsParent(groups[n])
    THEN {p \in parents : groups[p].level < groups[n].level} \cup {n}
    ELSE parents

\* Mutant of Path: every active ancestor is repeated.
PathOfAll(n) == parents \cup {n}

\* The sections whose headers a continuation of n repeats: its ancestors and
\* its own.
Path(n) == {p \in parents : groups[p].level < groups[n].level} \cup {n}

\* Sections in flow order, which is the order of the stack.
InOrder(S) ==
    [i \in 1..Cardinality(S) |-> CHOOSE p \in S : Cardinality({q \in S : q < p}) = i - 1]

\* Mutant of RoomForPath: the headers are repeated whether or not the record
\* still fits under them.
RoomAlways(n, h, f) == opts.repeatHeader /\ groups[n].header # NoText

\* The headers are repeated on frame f when they leave room for the record.
RoomForPath(n, h, f) ==
    /\ opts.repeatHeader
    /\ groups[n].header # NoText
    /\ Cardinality(Path(n)) * opts.headerHeight + h <= chain[f]

\* The headers a continuation frame opens with, as blocks.
PathBlocks(n) ==
    LET path == InOrder(Path(n))
    IN  [i \in 1..Cardinality(Path(n)) |->
            Header(groups[path[i]].header, groups[path[i]].level, opts.continuedMarker /\ started,
                   (i - 1) * opts.headerHeight)]

ContinuationFrame(n, h, f) ==
    IF RoomForPath(n, h, f)
    THEN [blocks |-> PathBlocks(n), used |-> Cardinality(Path(n)) * opts.headerHeight]
    ELSE frames[f]

RecordAt(top) ==
    [block |-> "record", group |-> group, record |-> record,
     row |-> This.records[record].row, height |-> This.records[record].height, top |-> top]

FooterAt(top) ==
    [block |-> "footer", group |-> group, height |-> This.footer, top |-> top]

-----------------------------------------------------------------------------
(* The steps. *)

\* The chain ends before block h of the current section is placed.
RunOut ==
    /\ overflow' = TRUE
    /\ step' = "done"

\* A section without a header opens silently.
OpenUntitled ==
    /\ step = "header" /\ group <= Len(groups)
    /\ This.header = NoText
    /\ step' = "records" /\ record' = 1 /\ started' = FALSE
    /\ UNCHANGED <<arguments, group, frame, frames, parents, placed, overflow>>

\* The opening header, on the next frame when it does not fit on this one (it
\* is placed there whether or not it fits).
OpenSection ==
    LET f == FrameFor(opts.headerHeight)
    IN  /\ step = "header" /\ group <= Len(groups)
        /\ This.header # NoText
        /\ InChain(f)
        /\ frame' = f
        /\ frames' = [frames EXCEPT ![f] =
               WithBlock(@, Header(This.header, This.level, FALSE, @.used), opts.headerHeight)]
        /\ parents' = ParentsAt(group)
        /\ step' = "records" /\ record' = 1 /\ started' = FALSE
        /\ UNCHANGED <<arguments, group, placed, overflow>>

NoRoomForHeader ==
    /\ step = "header" /\ group <= Len(groups)
    /\ This.header # NoText
    /\ ~InChain(FrameFor(opts.headerHeight))
    /\ frame' = FrameFor(opts.headerHeight)
    /\ parents' = ParentsAt(group)
    /\ started' = FALSE
    /\ RunOut
    /\ UNCHANGED <<arguments, group, record, frames, placed>>

Recorded == record' = record + 1 /\ placed' = placed + 1 /\ started' = TRUE

\* The next record fits on the current frame.
PlaceRecord ==
    LET h == This.records[record].height
    IN  /\ step = "records" /\ record <= Len(This.records)
        /\ Fits(frame, h)
        /\ frames' = [frames EXCEPT ![frame] = WithBlock(@, RecordAt(@.used), h)]
        /\ Recorded
        /\ UNCHANGED <<arguments, step, group, frame, parents, overflow>>

\* It does not: it goes on the next frame, under the repeated headers if they
\* leave room for it, and whether or not it fits there.
ContinueRecord ==
    LET h == This.records[record].height
        f == frame + 1
        fr == ContinuationFrame(group, h, f)
    IN  /\ step = "records" /\ record <= Len(This.records)
        /\ ~Fits(frame, h)
        /\ InChain(f)
        /\ frame' = f
        /\ frames' = [frames EXCEPT ![f] = WithBlock(fr, RecordAt(fr.used), h)]
        /\ Recorded
        /\ UNCHANGED <<arguments, step, group, parents, overflow>>

NoRoomForRecord ==
    /\ step = "records" /\ record <= Len(This.records)
    /\ ~Fits(frame, This.records[record].height)
    /\ ~InChain(frame + 1)
    /\ frame' = frame + 1
    /\ RunOut
    /\ UNCHANGED <<arguments, group, record, frames, parents, started, placed>>

RecordsDone ==
    /\ step = "records" /\ record > Len(This.records)
    /\ step' = "footer"
    /\ UNCHANGED <<arguments, group, record, frame, frames, parents, started, placed, overflow>>

SkipFooter ==
    /\ step = "footer" /\ This.footer = NoFooter
    /\ step' = "header" /\ group' = group + 1
    /\ UNCHANGED <<arguments, record, frame, frames, parents, started, placed, overflow>>

\* The footer, on the next frame when it does not fit; no header is repeated.
PlaceFooter ==
    LET f == FrameFor(This.footer)
    IN  /\ step = "footer" /\ This.footer # NoFooter
        /\ InChain(f)
        /\ frame' = f
        /\ frames' = [frames EXCEPT ![f] = WithBlock(@, FooterAt(@.used), This.footer)]
        /\ step' = "header" /\ group' = group + 1
        /\ UNCHANGED <<arguments, record, parents, started, placed, overflow>>

\* Mutant of NoRoomForFooter: the loop goes on to the next section, silently.
NoRoomForFooterSkips ==
    /\ step = "footer" /\ This.footer # NoFooter
    /\ ~InChain(FrameFor(This.footer))
    /\ step' = "header" /\ group' = group + 1
    /\ UNCHANGED <<arguments, record, frame, frames, parents, started, placed, overflow>>

NoRoomForFooter ==
    /\ step = "footer" /\ This.footer # NoFooter
    /\ ~InChain(FrameFor(This.footer))
    /\ frame' = FrameFor(This.footer)
    /\ RunOut
    /\ UNCHANGED <<arguments, group, record, frames, parents, started, placed>>

SectionsDone ==
    /\ step = "header" /\ group > Len(groups)
    /\ step' = "done"
    /\ UNCHANGED <<arguments, group, record, frame, frames, parents, started, placed, overflow>>

LayoutNext ==
    \/ OpenUntitled \/ OpenSection \/ NoRoomForHeader
    \/ PlaceRecord \/ ContinueRecord \/ NoRoomForRecord \/ RecordsDone
    \/ SkipFooter \/ PlaceFooter \/ NoRoomForFooter
    \/ SectionsDone

\* Any number of calls, one after the other.
LayoutSpec ==
    /\ LayoutInit
    /\ [][\/ \E gs \in Seq(FlowGroup), c \in Seq(Nat), o \in FlowLayoutOpts : Paginate(gs, c, o)
          \/ LayoutNext]_layoutVars

\* PaginatedFlow.frames: the frames that hold something.
PaginatedFrames ==
    LET kept == {f \in DOMAIN frames : frames[f].blocks # <<>>}
    IN  [i \in 1..Cardinality(kept) |-> frames[InOrder(kept)[i]]]

-----------------------------------------------------------------------------
(* What a pagination promises. *)

\* The blocks placed, by frame and place on it.
Places == UNION {{<<f, i>> : i \in DOMAIN frames[f].blocks} : f \in DOMAIN frames}
BlockAt(p) == frames[p[1]].blocks[p[2]]

\* Reading order, of places on the frames and of records in the sections.
Earlier(x, y) == x[1] < y[1] \/ (x[1] = y[1] /\ x[2] < y[2])

\* The records of the flow, and those on the frames.
FlowRecords == UNION {{<<n, r>> : r \in DOMAIN groups[n].records} : n \in DOMAIN groups}
RecordPlaces == {p \in Places : BlockAt(p).block = "record"}
RecordOf(p) == <<BlockAt(p).group, BlockAt(p).record>>
PlacedRecords == {RecordOf(p) : p \in RecordPlaces}

\* "a non-tall record always fits its frame; the property gate relies on this"
\* (paginate_flow): repeated headers and earlier blocks never push a record or
\* footer that the frame could hold past its end, and blocks do not overlap.
NonTallFits ==
    \A f \in 1..Len(chain) : \A i \in DOMAIN frames[f].blocks :
        LET b == frames[f].blocks[i]
        IN  b.block \in {"record", "footer"} /\ b.height <= chain[f]
            => b.top + b.height <= chain[f]

\* The headers in force over section n, from the flow alone: for every
\* smaller level the last parent section, unless a shallower one came after.
TrueAncestors(n) ==
    {p \in 1..(n - 1) :
        /\ IsParent(groups[p])
        /\ groups[p].level < groups[n].level
        /\ \A m \in (p + 1)..(n - 1) : IsParent(groups[m]) => groups[m].level > groups[p].level}

\* "the FULL hierarchy path (ancestors + this leaf) so the context carries
\* over": a frame that opens in the middle of a titled section opens with the
\* headers in force over it, outermost first; only when they would not leave
\* room for the record does it open with the record itself.
ContextCarries ==
    opts.repeatHeader =>
      \A f \in 1..Len(chain) : \A i \in DOMAIN frames[f].blocks :
        LET bs == frames[f].blocks
            n  == bs[i].group
            above == TrueAncestors(n) \cup {n}
            path == InOrder(above)
        IN  (/\ bs[i].block = "record"
             /\ bs[i].record > 1 /\ groups[n].header # NoText
             /\ \A j \in 1..(i - 1) : bs[j].block = "header")
            => IF Cardinality(above) * opts.headerHeight + bs[i].height > chain[f] THEN i = 1
               ELSE /\ i = Cardinality(above) + 1
                    /\ \A j \in 1..(i - 1) : /\ bs[j].text = groups[path[j]].header
                                            /\ bs[j].level = groups[path[j]].level

\* Whatever the boundaries (an exact fit, a record taller than its frame, a
\* footer alone on a frame), the frames read in order hold the first `placed'
\* records of the flow, each once, none skipped (PaginatedFlow.placed); and
\* "placed < total => overflow": a finished pagination without an overflow has
\* every record, every opening header and every footer on some frame.
OverflowTold ==
    /\ \A p \in RecordPlaces :
           /\ RecordOf(p) \in FlowRecords
           /\ \A q \in RecordPlaces : Earlier(p, q) => Earlier(RecordOf(p), RecordOf(q))
           /\ \A r \in FlowRecords : Earlier(r, RecordOf(p)) => r \in PlacedRecords
    /\ placed = Cardinality(RecordPlaces)
    /\ step = "done" /\ ~overflow =>
        /\ PlacedRecords = FlowRecords
        /\ \A n \in DOMAIN groups :
               /\ groups[n].header # NoText =>
                    \E p \in Places : BlockAt(p).block = "header"
                        /\ BlockAt(p).text = groups[n].header /\ ~BlockAt(p).continued
               /\ groups[n].footer # NoFooter =>
                    \E p \in Places : BlockAt(p).block = "footer" /\ BlockAt(p).group = n

\* "True when records ran out of chain (more frames are needed)": a flow that
\* overflows leaves no frame of the chain empty.
OverflowMeansFull == overflow => \A f \in 1..Len(chain) : frames[f].blocks # <<>>
=============================================================================
