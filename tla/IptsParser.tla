----------------------------- MODULE IptsParser -----------------------------
(***************************************************************************)
(* The parser of the data an IPTS device sends (ipts/parser.hpp) and the   *)
(* reader it takes the data apart with (common/reader.hpp).                *)
(*                                                                         *)
(* A buffer is a set of structs, each at its position in bytes, so that    *)
(* every index, size and limit is the one of the code; what a struct holds *)
(* beyond the sizes and counts the parser acts on is abstract.             *)
(* Reading a struct where another one lies gives it any value.             *)
(*                                                                         *)
(* The recursion of the handlers is the stack of the readers they work on; *)
(* a handler that calls no other one is a single step, and the reader it   *)
(* was given is recorded as the step leaves it.                            *)
(***************************************************************************)
EXTENDS Integers, Sequences, SequencesExt

CONSTANT
    Garbage(_)      \* the values of a struct of some kind read from other data

VARIABLES
    buffer,         \* the structs, and the number of bytes received
    stack,          \* the readers of the handlers being executed
    used,           \* the reader the last step read from, as it was left behind
    m_dim, m_dft_meta,
    emitted,        \* the samples handed to the callbacks
    status          \* "idle", "parsing", "done", "thrown", or "aborted"

parserVars == <<buffer, stack, used, m_dim, m_dft_meta, emitted, status>>

\* The structs of ipts/protocol, in bytes.
Size == [header |-> 3, hid |-> 7, legacy |-> 12, group |-> 16, report |-> 4, metadata |-> 105,
         stylus |-> 8, mpp_1_0 |-> 12, mpp_1_51 |-> 16, dims |-> 8, heatmap |-> 9,
         window |-> 12, row |-> 48, dftmeta |-> 16, button |-> 16]

\* The fields the parser acts on are unsigned; nothing else of a struct matters.
Typed(kind, value) ==
    CASE kind \in {"hid", "report", "group", "heatmap"} -> value.size \in Nat
      [] kind = "legacy" -> value.elements \in Nat
      [] kind = "stylus" -> value.samples \in Nat
      [] kind = "window" -> value.num_rows \in Nat
      [] kind = "dims"   -> value \in [rows : Nat, columns : Nat, z_max : 0..255]
      [] OTHER           -> TRUE

ASSUME GarbageAssumption == \A kind \in DOMAIN Size : \A value \in Garbage(kind) : Typed(kind, value)

NoDim  == [rows |-> 0, columns |-> 0, z_max |-> 0]
NoMeta == [group |-> 0, seq_num |-> 0, data_type |-> "none"]
NoGroup == -1
NoBuffer == [structs |-> {}, length |-> 0]
NoReader == [index |-> 0, end |-> 0]

ParserInit ==
    /\ buffer = NoBuffer /\ stack = <<>> /\ used = NoReader
    /\ m_dim = NoDim /\ m_dft_meta = NoMeta
    /\ emitted = <<>> /\ status = "idle"

-----------------------------------------------------------------------------
(* Reader: a window of the buffer that is read from its start.             *)

Left(reader) == reader.end - reader.index

\* Both exceptions, EndOfData and InvalidRead.  A size below zero has wrapped
\* around and is larger than any buffer.
Throws(reader, size) == Left(reader) = 0 \/ size < 0 \/ size > Left(reader)

Skip(reader, size) == [reader EXCEPT !.index = @ + size]
Sub(reader, size)  == [index |-> reader.index, end |-> reader.index + size]

\* The reader once as many structs of some size as there are have been read.
SkipAll(reader, size) == Skip(reader, size * (Left(reader) \div size))

\* What read<T>() may return at the position of the reader.
Read(reader, kind) ==
    LET found == {s \in buffer.structs : s.at = reader.index /\ s.kind = kind}
    IN  IF found # {} THEN {s.value : s \in found} ELSE Garbage(kind)

-----------------------------------------------------------------------------
(* The handlers.                                                           *)

\* A handler in a loop over its reader, with the elements it has left to read.
Handler(name, left, reader) ==
    [in |-> name, left |-> left, index |-> reader.index, end |-> reader.end]
Top == Last(stack)
Emit(samples) == emitted' = emitted \o samples

Leave(reader) == used' = [index |-> reader.index, end |-> reader.end]

\* An exception, or the end of the process, while reading from a reader.
Fail(how, reader) ==
    /\ status' = how /\ stack' = <<>> /\ Leave(reader)
    /\ UNCHANGED <<buffer, m_dim, m_dft_meta, emitted>>

\* The handler is done with its reader and those that called it go on after its data.
Goto(callers, reader) ==
    /\ stack' = callers /\ Leave(reader)
    /\ UNCHANGED <<buffer, status>>
Unchanged == UNCHANGED <<m_dim, m_dft_meta, emitted>>

\* parse_with_header() skips the header and parses one HID frame.
Parse(data) ==
    /\ status = "idle"
    /\ LET reader == [index |-> 0, end |-> data.length]
       IN  IF Throws(reader, Size.header)
           THEN status' = "thrown" /\ UNCHANGED <<stack, buffer>>
           ELSE /\ status' = "parsing" /\ buffer' = data
                /\ stack' = <<Handler("frame", 1, Skip(reader, Size.header))>>
    /\ UNCHANGED <<used, m_dim, m_dft_meta, emitted>>

\* parse() has returned to its caller, or the caller has caught what it threw.
Finish ==
    /\ status \in {"done", "thrown"}
    /\ status' = "idle" /\ buffer' = NoBuffer /\ emitted' = <<>> /\ Leave(NoReader)
    /\ UNCHANGED <<stack, m_dim, m_dft_meta>>

Taken_Reread(size) == [stack EXCEPT ![Len(stack)] = Skip(@, 0)]
\* The callers once the handler on top has taken size bytes, and a handler
\* called for the last of them.
Taken(size) ==
    LET reader == [Top EXCEPT !.left = @ - 1]
    IN  [stack EXCEPT ![Len(stack)] = Skip(reader, size)]
Call(callers, name, reader) == Append(callers, Handler(name, 0, reader))

MetadataFrame(reader, callers) ==
    IF Throws(reader, Size.metadata) THEN Fail("thrown", reader) ELSE
    \E meta \in Read(reader, "metadata") :
        LET rest == Skip(reader, Size.metadata)
        IN  IF meta.rows > 255 \/ meta.columns > 255 THEN Fail("thrown", rest) ELSE
            /\ Emit(<<[kind |-> "metadata", rows |-> meta.rows, columns |-> meta.columns]>>)
            /\ Goto(callers, rest) /\ UNCHANGED <<m_dim, m_dft_meta>>

HeatmapData(reader, callers) ==
    LET size == m_dim.rows * m_dim.columns
    IN  IF Throws(reader, size) THEN Fail("thrown", reader) ELSE
        /\ Emit(<<[kind |-> "touch", dim |-> m_dim]>>)
        /\ Goto(callers, Skip(reader, size)) /\ UNCHANGED <<m_dim, m_dft_meta>>

HeatmapFrame(reader, callers) ==
    IF Throws(reader, Size.heatmap) THEN Fail("thrown", reader) ELSE
    \E frame \in Read(reader, "heatmap") :
        LET rest == Skip(reader, Size.heatmap)
        IN  IF Throws(rest, frame.size) THEN Fail("thrown", rest)
            ELSE HeatmapData(Sub(rest, frame.size), callers)

\* parse_hid_frame().  A reports frame with four bytes after it is ignored with
\* those, which is meant for one frame that the Surface Pro 7 sends.
HidFrame ==
    /\ status = "parsing" /\ Top.in \in {"frame", "frames"}
    /\ Top.in = "frames" => Left(Top) > 0
    /\ Top.in = "frame" => Top.left > 0
    /\ IF Throws(Top, Size.hid) THEN Fail("thrown", Top) ELSE
       \E frame \in Read(Top, "hid") :
           LET rest == Skip(Top, Size.hid)
               size == frame.size - Size.hid
               callers == Taken(Size.hid + size)
               sub == Sub(rest, size)
           IN  IF Throws(rest, size) THEN Fail("thrown", rest) ELSE
               CASE frame.type = "Hid" -> Goto(Call(callers, "frames", sub), NoReader) /\ Unchanged
                 [] frame.type = "Legacy" -> Goto(Call(callers, "legacy", sub), NoReader) /\ Unchanged
                 [] frame.type = "Heatmap" -> HeatmapFrame(sub, callers)
                 [] frame.type = "Metadata" -> MetadataFrame(sub, callers)
                 [] frame.type = "Reports" ->
                        /\ Goto(IF Left(Last(callers)) = 4
                                THEN [callers EXCEPT ![Len(callers)] = Skip(@, 4)]
                                ELSE Call(callers, "reports", sub), NoReader)
                        /\ Unchanged
                 [] OTHER -> Goto(callers, sub) /\ Unchanged

\* parse_legacy_frame(), up to its loop.
LegacyHeader ==
    /\ status = "parsing" /\ Top.in = "legacy"
    /\ IF Throws(Top, Size.legacy) THEN Fail("thrown", Top) ELSE
       /\ \E header \in Read(Top, "legacy") :
              Goto([stack EXCEPT ![Len(stack)] =
                       [Skip(@, Size.legacy) EXCEPT !.in = "groups", !.left = header.elements]],
                   NoReader)
       /\ Unchanged

ReportGroup ==
    /\ status = "parsing" /\ Top.in = "groups" /\ Top.left > 0
    /\ IF Throws(Top, Size.group) THEN Fail("thrown", Top) ELSE
       \E group \in Read(Top, "group") :
           LET rest == Skip(Top, Size.group)
               callers == Taken(Size.group + group.size)
           IN  IF Throws(rest, group.size) THEN Fail("thrown", rest) ELSE
               /\ Goto(IF group.type \in {"Stylus", "Touch"}
                       THEN Call(callers, "reports", Sub(rest, group.size))
                       ELSE callers, NoReader)
               /\ Unchanged

\* A loop has read all of its data, or all of its elements.
Return ==
    /\ status = "parsing"
    /\ \/ Top.in \in {"frames", "reports"} /\ Left(Top) = 0
       \/ Top.in \in {"frame", "groups"} /\ Top.left = 0
    /\ stack' = Front(stack) /\ Leave(NoReader)
    /\ status' = IF Len(stack) = 1 THEN "done" ELSE status
    /\ UNCHANGED buffer /\ Unchanged

-----------------------------------------------------------------------------
(* The reports.                                                            *)

Stylus_First(sample, reader, callers) ==
    IF Throws(reader, Size.stylus + Size[sample]) THEN Fail("thrown", reader) ELSE
    \E value \in Read(Skip(reader, Size.stylus), sample) :
        /\ Emit(<<[kind |-> "stylus", sample |-> value]>>)
        /\ Goto(callers, Skip(reader, Size.stylus + Size[sample])) /\ UNCHANGED <<m_dim, m_dft_meta>>

Stylus_Seek(sample, reader, callers) ==
    IF Throws(reader, Size.stylus) THEN Fail("thrown", reader) ELSE
    \E report \in Read(reader, "stylus") :
        LET rest == Skip(reader, Size.stylus)
            last == Skip(rest, (IF report.samples = 0 THEN 0 ELSE report.samples - 1) * Size[sample])
        IN  IF last.index > last.end THEN Fail("thrown", rest) ELSE
            \E value \in Read(last, sample) :
                /\ Emit(<<[kind |-> "stylus", sample |-> value]>>)
                /\ Goto(callers, Skip(last, Size[sample])) /\ UNCHANGED <<m_dim, m_dft_meta>>

\* All samples but the last are skipped; with no samples at all one is read.
Stylus(sample, reader, callers) ==
    IF Throws(reader, Size.stylus) THEN Fail("thrown", reader) ELSE
    \E report \in Read(reader, "stylus") :
        LET rest == Skip(reader, Size.stylus)
            last == Skip(rest, (IF report.samples = 0 THEN 0 ELSE report.samples - 1) * Size[sample])
        IN  IF Left(last) < Size[sample] THEN Fail("thrown", SkipAll(rest, Size[sample])) ELSE
            \E value \in Read(last, sample) :
                /\ Emit(<<[kind |-> "stylus", sample |-> value]>>)
                /\ Goto(callers, Skip(last, Size[sample])) /\ UNCHANGED <<m_dim, m_dft_meta>>

HeatmapDimensions(reader, callers) ==
    IF Throws(reader, Size.dims) THEN Fail("thrown", reader) ELSE
    /\ \E dim \in Read(reader, "dims") :
           m_dim' = [dim EXCEPT !.z_max = IF @ = 0 THEN 255 ELSE @]
    /\ Goto(callers, Skip(reader, Size.dims)) /\ UNCHANGED <<m_dft_meta, emitted>>

DftMetadata(reader, callers) ==
    IF Throws(reader, Size.dftmeta) THEN Fail("thrown", reader) ELSE
    /\ m_dft_meta' \in Read(reader, "dftmeta")
    /\ Goto(callers, Skip(reader, Size.dftmeta)) /\ UNCHANGED <<m_dim, emitted>>

\* subspan<Row>() compares the number of rows with the number of bytes left.
\* When the rows are then larger than the rest, taking them from the span
\* violates its contract, which ends the process.
RowsThrow(reader, rows) == Throws(reader, rows)
RowsAbort(reader, rows) == ~Throws(reader, rows) /\ rows * Size.row > Left(reader)

DftWindow(reader, callers) ==
    IF Throws(reader, Size.window) THEN Fail("thrown", reader) ELSE
    \E window \in Read(reader, "window") :
        LET x == Skip(reader, Size.window)
            y == Skip(x, window.num_rows * Size.row)
        IN  IF RowsThrow(x, window.num_rows) THEN Fail("thrown", x)
            ELSE IF RowsAbort(x, window.num_rows) THEN Fail("aborted", x)
            ELSE IF RowsThrow(y, window.num_rows) THEN Fail("thrown", y)
            ELSE IF RowsAbort(y, window.num_rows) THEN Fail("aborted", y) ELSE
            /\ Emit(<<[kind |-> "dft", type |-> window.data_type, rows |-> window.num_rows, dim |-> m_dim,
                       group |-> IF /\ window.seq_num = m_dft_meta.seq_num
                                    /\ window.data_type = m_dft_meta.data_type
                                 THEN m_dft_meta.group ELSE NoGroup]>>)
            /\ Goto(callers, Skip(y, window.num_rows * Size.row)) /\ UNCHANGED <<m_dim, m_dft_meta>>

\* Samples are read until the data ends; without any the button is not active.
Button(reader, callers) ==
    LET rest == SkipAll(reader, Size.button)
    IN  IF Left(rest) # 0 THEN Fail("thrown", rest) ELSE
        /\ IF Left(reader) = 0 THEN Emit(<<[kind |-> "button", sample |-> "inactive"]>>) ELSE
           \E value \in Read(Skip(rest, -Size.button), "button") :
               Emit(<<[kind |-> "button", sample |-> value]>>)
        /\ Goto(callers, rest) /\ UNCHANGED <<m_dim, m_dft_meta>>

ReportFrame ==
    /\ status = "parsing" /\ Top.in = "reports" /\ Left(Top) > 0
    /\ IF Throws(Top, Size.report) THEN Fail("thrown", Top) ELSE
       \E frame \in Read(Top, "report") :
           LET rest == Skip(Top, Size.report)
               callers == Taken(Size.report + frame.size)
               sub == Sub(rest, frame.size)
           IN  IF Throws(rest, frame.size) THEN Fail("thrown", rest) ELSE
               CASE frame.type = "StylusMPP_1_0"     -> Stylus("mpp_1_0", sub, callers)
                 [] frame.type = "StylusMPP_1_51"    -> Stylus("mpp_1_51", sub, callers)
                 [] frame.type = "HeatmapDimensions" -> HeatmapDimensions(sub, callers)
                 [] frame.type = "HeatmapData"       -> HeatmapData(sub, callers)
                 [] frame.type = "DftMetadata"       -> DftMetadata(sub, callers)
                 [] frame.type = "DftWindow"         -> DftWindow(sub, callers)
                 [] frame.type = "Button"            -> Button(sub, callers)
                 [] OTHER -> Goto(callers, sub) /\ Unchanged

Handle ==
    \/ HidFrame
    \/ LegacyHeader
    \/ ReportGroup
    \/ ReportFrame
    \/ Return
=============================================================================
