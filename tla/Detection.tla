----------------------------- MODULE Detection ------------------------------
(***************************************************************************)
(* The same report descriptor read by both parsers: by the detector of     *)
(* iptsd-runner, which starts an iptsd for the device, and by the parser   *)
(* of that iptsd, which refuses a device that is none.  Every step is one  *)
(* item that both read.                                                    *)
(***************************************************************************)
EXTENDS HidParser, IptsDetector

CONSTANTS
    Opening,        \* the items a descriptor begins with
    Blocks,         \* the runs of items it goes on with
    MaxBlocks       \* bound on the blocks after the opening

ASSUME BlocksAssumption ==
    /\ \A block \in Blocks \cup {Opening} : block \in Seq(Items) /\ block # <<>>
    /\ MaxBlocks \in Nat

VARIABLES
    blocks,         \* blocks begun
    pending,        \* items of the block not read yet
    stacked,        \* a Push or a Pop has been read
    open            \* the buffer has not ended

vars == <<hidVars, state, blocks, pending, stacked, open>>

Init ==
    /\ HidInit /\ ParserInit
    /\ blocks = 0 /\ pending = Opening /\ stacked = FALSE /\ open = TRUE

\* A parser that has thrown reads no further, the detector never throws.
Item(item) ==
    /\ \/ ParseItem(item)
       \/ status # "parsing" /\ UNCHANGED hidVars
    /\ ProcessItem(item)
    /\ stacked' = (stacked \/ item.tag \in {"Push", "Pop"})
    /\ UNCHANGED open

ReadItem ==
    /\ open /\ pending # <<>>
    /\ pending' = Tail(pending)
    /\ Item(Head(pending))
    /\ UNCHANGED blocks

NextBlock ==
    /\ open /\ pending = <<>> /\ blocks < MaxBlocks
    /\ \E block \in Blocks : Item(Head(block)) /\ pending' = Tail(block)
    /\ blocks' = blocks + 1

End ==
    /\ open
    /\ open' = FALSE
    /\ \/ \E truncated \in BOOLEAN : EndOfBuffer(truncated)
       \/ status # "parsing" /\ UNCHANGED hidVars
    /\ UNCHANGED <<state, blocks, pending, stacked>>

Next == ReadItem \/ NextBlock \/ End

Spec == Init /\ [][Next]_vars

-----------------------------------------------------------------------------
(* Properties.                                                             *)

\* Every variable has its type.
TypeOK ==
    /\ status \in {"parsing", "done", "thrown", "undefined"}
    /\ m_global.report_id \in {NoID} \cup 0..255
    /\ state.report_id \in {NoID} \cup 0..255
    /\ \A i \in DOMAIN state.reports : state.reports[i].type \in ReportTags
    /\ Len(state.reports) <= MAX_REPORTS
    /\ state.collection_depth \in 0..MAX_COLLECTION_DEPTH
    /\ blocks \in 0..MaxBlocks /\ stacked \in BOOLEAN /\ open \in BOOLEAN

Ids(reports) == [i \in DOMAIN reports |-> <<reports[i].type, reports[i].report_id>>]

\* A descriptor iptsd reads to its end with every collection closed.
Closed == ~open /\ status = "done" /\ m_collection_stack = <<>>

\* One in which no report is split over two collections, that needs no stack of
\* global items, and has no more than the detector has room for.  Its reports
\* have fewer bits than a uint32_t can count.
Regular ==
    /\ Closed /\ ~stacked
    /\ IsInjective(Ids(DescReports))
    /\ Len(DescReports) <= MAX_REPORTS
    /\ \A i \in DOMAIN DescReports :
           Len(DescReports[i].fields) <= MAX_USAGES_PER_REPORT /\ DescReports[i].bits < WORD

Usages(report) == {report.fields[i].usage : i \in DOMAIN report.fields} \ {NoUsage}
Described(report) == <<report.type, report.report_id, report.bits, Usages(report)>>

\* The detector looks at collections of this type only.
ApplicationsOnly ==
    \A i \in DOMAIN DescCollections :
        DescCollections[i].usage \in {TOUCHSCREEN, TOUCHPAD} => DescCollections[i].type = Application

\* Nothing the two parsers treat differently: reports of whole bytes, no
\* ranges of usages, digitizers that are application collections.
Plain ==
    /\ \A i \in DOMAIN DescReports :
           /\ DescReports[i].bits % 8 = 0
           /\ \A j \in DOMAIN DescReports[i].fields : DescReports[i].fields[j].usage_min = NoUsage
    /\ ApplicationsOnly

\* However the items nest and in whatever order reports, collections and global
\* items come, the detector's flat list has the reports of iptsd's tree, each
\* with the same size and usages.  On a plain descriptor iptsd then accepts the
\* device if and only if the runner starts one for it, and both take it for the
\* same kind of device.
SameReading ==
    Regular =>
        /\ ToSet([i \in DOMAIN DescReports |-> Described(DescReports[i])])
             = {<<r.type, r.report_id, r.total_bits, ToSet(r.usages)>> : r \in ToSet(state.reports)}
        /\ Plain => /\ Detected <=> DeviceAccepted
                    /\ DetectedType = DeviceType

\* What the detector has found is enough to know that an iptsd will start: if it
\* has a touch report and a mode report, one kind of digitizer, and an id for
\* every report, then the constructors of that iptsd and its first set_mode do
\* not throw, on any regular descriptor.  The scan looks at the two reports only
\* (android/device_manager.cpp:584); for the others an iptsd is started that
\* refuses the device, and again at every rescan.
Numbered == \A r \in ToSet(state.reports) : r.report_id # NoID
NoRefusedStart ==
    Regular /\ ApplicationsOnly /\ Detected /\ DetectedType # "unknown" /\ Numbered =>
        DeviceStarts

\* What ipts_detector.cpp:6 says of it: the detection logic of iptsd.
SameLogic == Closed => (Detected <=> DeviceAccepted)

\* What ipts/device.hpp:122 says: the buffer takes the largest report, which
\* as hid/report.hpp:46 says is stored after a byte with its id.
BufferTakesReports ==
    Closed => \A r \in TouchDataReports :
        BufferSize >= Bytes(r) + (IF r.report_id = NoID THEN 0 ELSE 1)
=============================================================================
