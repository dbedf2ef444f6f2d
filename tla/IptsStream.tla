----------------------------- MODULE IptsStream -----------------------------
(***************************************************************************)
(* The parser fed with what a device sends: buffers built from a list of   *)
(* reports in one of the layouts of ipts/protocol, intact, cut short, or   *)
(* with one size or count in them wrong, one buffer after the other.       *)
(*                                                                         *)
(* What an intact buffer means is stated over the list of reports alone;   *)
(* the parser only sees structs and positions.                             *)
(***************************************************************************)
EXTENDS IptsParser

CONSTANTS
    Messages,       \* what is sent: [layout, reports, padding, heatmap, metadata]
    WrongSizes      \* the values a wrong size or count may have

VARIABLE
    expected        \* the samples the message asks for, and whether it is intact

vars == <<parserVars, expected>>

-----------------------------------------------------------------------------
(* The device: from a message to structs.                                  *)

Struct(kind, value) == [kind |-> kind, bytes |-> Size[kind], value |-> value]
Raw(bytes) == IF bytes = 0 THEN <<>> ELSE <<[kind |-> "raw", bytes |-> bytes, value |-> 0]>>
Bytes(structs) == FoldSeq(LAMBDA s, sum : s.bytes + sum, 0, structs)
Structs(kind, values) == [i \in DOMAIN values |-> Struct(kind, values[i])]

Body(r) ==
    CASE r.type = "StylusMPP_1_0"     -> <<Struct("stylus", [samples |-> Len(r.samples)])>> \o Structs("mpp_1_0", r.samples)
      [] r.type = "StylusMPP_1_51"    -> <<Struct("stylus", [samples |-> Len(r.samples)])>> \o Structs("mpp_1_51", r.samples)
      [] r.type = "HeatmapDimensions" -> <<Struct("dims", r.dim)>>
      [] r.type = "HeatmapData"       -> Raw(r.size)
      [] r.type = "DftMetadata"       -> <<Struct("dftmeta", r.meta)>>
      [] r.type = "DftWindow"         -> <<Struct("window", r.window)>> \o Structs("row", [i \in 1..2 * r.window.num_rows |-> 0])
      [] r.type = "Button"            -> Structs("button", r.samples)
      [] OTHER                        -> Raw(4)

Report(r)  == <<Struct("report", [type |-> r.type, size |-> Bytes(Body(r))])>> \o Body(r)
ReportList(rs) == FlattenSeq([i \in DOMAIN rs |-> Report(rs[i])])

Frame(type, body) == <<Struct("hid", [type |-> type, size |-> Size.hid + Bytes(body)])>> \o body
Group(type, body) == <<Struct("group", [type |-> type, size |-> Bytes(body)])>> \o body

Payload(m) ==
    CASE m.layout = "reports" -> Frame("Hid", Frame("Reports", ReportList(m.reports)))
      [] m.layout = "chained" -> Frame("Hid", FlattenSeq([i \in DOMAIN m.reports |-> Frame("Reports", Report(m.reports[i]))]))
      [] m.layout = "heatmap" -> Frame("Hid", Frame("Heatmap", <<Struct("heatmap", [size |-> m.heatmap])>> \o Raw(m.heatmap))
                                                \o Frame("Reports", ReportList(m.reports)))
      [] m.layout = "direct"  -> Frame("Reports", ReportList(m.reports))
      [] m.layout = "legacy"  -> Frame("Hid", Frame("Legacy",
                                     <<Struct("legacy", [elements |-> Len(m.reports) + 1])>>
                                     \o Group("Other", Raw(4))
                                     \o FlattenSeq([i \in DOMAIN m.reports |-> Group("Touch", Report(m.reports[i]))])))
      [] m.layout = "metadata" -> Frame("Metadata", <<Struct("metadata", m.metadata)>>)

Encoded(m) == <<Struct("header", 0)>> \o Payload(m) \o Raw(m.padding)

-----------------------------------------------------------------------------
(* What the message means, given what was sent before it.                  *)

Nothing(dim, meta) == [dim |-> dim, meta |-> meta, samples |-> <<>>, broken |-> FALSE]

With(c, sample) == [c EXCEPT !.samples = Append(@, sample)]

\* A heatmap has the size of the last dimensions, or it cannot be understood.
Heatmap(c, size) ==
    IF size = 0 \/ size < c.dim.rows * c.dim.columns THEN [c EXCEPT !.broken = TRUE]
    ELSE With(c, [kind |-> "touch", dim |-> c.dim])

\* One report, in the context of those before it.
Meaning(r, c) ==
    IF c.broken THEN c ELSE
    CASE r.type \in {"StylusMPP_1_0", "StylusMPP_1_51"} ->
             IF r.samples = <<>> THEN [c EXCEPT !.broken = TRUE]
             ELSE With(c, [kind |-> "stylus", sample |-> Last(r.samples)])
      [] r.type = "HeatmapDimensions" ->
             [c EXCEPT !.dim = [r.dim EXCEPT !.z_max = IF @ = 0 THEN 255 ELSE @]]
      [] r.type = "HeatmapData" -> Heatmap(c, r.size)
      [] r.type = "DftMetadata" -> [c EXCEPT !.meta = r.meta]
      [] r.type = "DftWindow" ->
             IF r.window.num_rows = 0 THEN [c EXCEPT !.broken = TRUE] ELSE
             With(c, [kind |-> "dft", type |-> r.window.data_type, rows |-> r.window.num_rows, dim |-> c.dim,
                      group |-> IF [r.window EXCEPT !.num_rows = 0] =
                                   [num_rows |-> 0, seq_num |-> c.meta.seq_num, data_type |-> c.meta.data_type]
                                THEN c.meta.group ELSE NoGroup])
      [] r.type = "Button" ->
             With(c, [kind |-> "button", sample |-> IF r.samples = <<>> THEN "inactive" ELSE Last(r.samples)])
      [] OTHER -> c

Expected(m, c) ==
    IF m.layout = "metadata"
    THEN IF m.metadata.rows > 255 THEN [c EXCEPT !.broken = TRUE]
         ELSE With(c, [kind |-> "metadata", rows |-> m.metadata.rows, columns |-> m.metadata.columns])
    ELSE FoldLeft(LAMBDA ctx, r : Meaning(r, ctx),
                  IF m.layout = "heatmap" THEN Heatmap(c, m.heatmap) ELSE c, m.reports)

-----------------------------------------------------------------------------

Damaged(structs) ==
    UNION {{[structs EXCEPT ![i].value = v] :
               v \in CASE structs[i].kind \in {"hid", "report", "group", "heatmap"} ->
                             {[structs[i].value EXCEPT !.size = s] : s \in WrongSizes}
                      [] structs[i].kind = "stylus" -> {[samples |-> s] : s \in WrongSizes}
                      [] structs[i].kind = "legacy" -> {[elements |-> s] : s \in WrongSizes}
                      [] structs[i].kind = "window" -> {[structs[i].value EXCEPT !.num_rows = s] : s \in WrongSizes}
                      [] OTHER -> {}} : i \in DOMAIN structs}

\* The buffer with the structs in this order, and without the last bytes.
Buffer(structs, cut) ==
    [structs |-> {[kind |-> structs[i].kind, value |-> structs[i].value,
                   at |-> Bytes(SubSeq(structs, 1, i - 1))] : i \in DOMAIN structs},
     length |-> Bytes(structs) - cut]

\* A reports frame followed by four bytes is dropped: HidFrame.
Quirk(m) == m.layout = "direct" /\ m.padding = 4

Intact  == [m \in Messages |-> Buffer(Encoded(m), 0)]
Damages == [m \in Messages |->
               {Buffer(structs, 0) : structs \in Damaged(Encoded(m))}
               \cup {Buffer(Encoded(m), cut) : cut \in WrongSizes \cap 1..Bytes(Encoded(m))}]

ASSUME MessageAssumption ==
    \A m \in Messages : \A data \in {Intact[m]} \cup Damages[m] :
        /\ data.length \in Nat
        /\ \A s \in data.structs : Typed(s.kind, s.value)

Promise(c, intact) == [samples |-> c.samples, broken |-> c.broken, intact |-> intact]

Before == Nothing(m_dim, m_dft_meta)

SendIntact(m) ==
    /\ Parse(Intact[m])
    /\ expected' = Promise(IF Quirk(m) THEN Before ELSE Expected(m, Before), TRUE)

SendDamaged(m) ==
    /\ \E data \in Damages[m] : Parse(data)
    /\ expected' = Promise(Before, FALSE)

NothingSent == Promise(Nothing(NoDim, NoMeta), TRUE)

Init == ParserInit /\ expected = NothingSent

Next ==
    \/ \E m \in Messages : SendIntact(m) \/ SendDamaged(m)
    \/ Handle /\ UNCHANGED expected
    \/ Finish /\ expected' = NothingSent

\* The process runs as long as it has something to parse.
Spec == Init /\ [][Next]_vars /\ WF_vars(Handle /\ UNCHANGED expected)

-----------------------------------------------------------------------------
(* Properties.                                                             *)

\* Every variable has its type, and a heatmap that has been announced has a range.
TypeOK ==
    /\ status \in {"idle", "parsing", "done", "thrown", "aborted"}
    /\ status = "parsing" <=> stack # <<>>
    /\ m_dim = NoDim \/ m_dim.z_max \in 1..255

\* A reader has not read past the end of its data, nor past the bytes received.
Within(reader) ==
    0 <= reader.index /\ reader.index <= reader.end /\ reader.end <= buffer.length

\* Whatever the sizes and counts in the data say, no handler reads outside of the
\* bytes that were received, and none reads bytes its caller has yet to read itself:
\* not the handlers at work, and not the one that just returned or threw.
Confined ==
    /\ \A i \in DOMAIN stack :
           /\ Within(stack[i])
           /\ i > 1 => stack[i].end <= stack[i - 1].index
    /\ Within(used)
    /\ stack # <<>> => used.end <= Top.index

\* An intact buffer gives exactly the samples its reports stand for, in order,
\* with the dimensions and the group known at that point, also when buffers
\* before it were cut short or damaged.
Decoded ==
    expected.intact /\ status \in {"done", "thrown", "aborted"} =>
        /\ emitted = expected.samples
        /\ status = IF expected.broken THEN "thrown" ELSE "done"

\* Parsing ends, whatever counts and sizes the data claims to have.
Terminates == status = "parsing" ~> status # "parsing"
=============================================================================
