---------------------------- MODULE MCIptsStream ----------------------------
EXTENDS IptsStream

\* A struct read from the middle of other data.
AnyValue(kind) ==
    CASE kind = "hid"      -> [type : {"Hid", "Reports", "Heatmap"}, size : {0, 7, 23}]
      [] kind = "report"   -> [type : {"HeatmapData", "DftWindow", "Other"}, size : {0, 4}]
      [] kind = "group"    -> [type : {"Touch", "Other"}, size : {0, 12}]
      [] kind = "legacy"   -> [elements : {0, 3}]
      [] kind = "heatmap"  -> [size : {0, 2}]
      [] kind = "stylus"   -> [samples : {0, 255}]
      [] kind = "window"   -> [num_rows : {1}, seq_num : {2}, data_type : {"Position"}]
      [] kind = "dims"     -> [rows : {1}, columns : {1}, z_max : {0}]
      [] kind = "dftmeta"  -> [group : {3}, seq_num : {2}, data_type : {"Position"}]
      [] kind = "metadata" -> [rows : {1}, columns : {1}]
      [] OTHER             -> {"garbage"}

R(type, field, value) == [x \in {"type", field} |-> IF x = "type" THEN type ELSE value]
Old     == R("StylusMPP_1_0", "samples", <<"a", "b">>)
New     == R("StylusMPP_1_51", "samples", <<"c">>)
Dims(n) == R("HeatmapDimensions", "dim", [rows |-> 2, columns |-> n, z_max |-> 0])
Heat    == R("HeatmapData", "size", 4)
Meta    == R("DftMetadata", "meta", [group |-> 1, seq_num |-> 2, data_type |-> "Position"])
Win(type) == R("DftWindow", "window", [num_rows |-> 1, seq_num |-> 2, data_type |-> type])
Click   == R("Button", "samples", <<"down", "up">>)
Other   == R("DftGeneral", "size", 4)

Lists == {<<Old, New>>, <<Dims(2), Heat>>, <<Heat, Dims(2)>>, <<Meta, Win("Position")>>,
          <<Meta, Win("Button")>>, <<Win("Position"), Click>>, <<Other, Dims(1), Heat>>}

M(layout, reports, padding, heatmap) ==
    [layout |-> layout, reports |-> reports, padding |-> padding, heatmap |-> heatmap, metadata |-> 0]

Sent ==
    {M(layout, rs, 20, 0) : layout \in {"reports", "chained", "legacy"}, rs \in Lists}
    \cup {M("direct", rs, pad, 0) : rs \in Lists, pad \in {0, 4}}
    \cup {M("heatmap", <<Dims(n)>>, 0, 4) : n \in {1, 2}}
    \cup {[M("metadata", <<>>, 0, 0) EXCEPT !.metadata = [rows |-> rows, columns |-> 9]] : rows \in {8, 256}}
=============================================================================
