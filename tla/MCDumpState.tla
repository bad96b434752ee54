----------------------------- MODULE MCDumpState -----------------------------
(* Small instances of DumpState: two images of two parts that share their    *)
(* tail, and one of another size, may live at the same address.              *)
EXTENDS DumpStateProps

MCParts      == {"hA", "hB", "hC", "hD", "x", "y", "zero", "junk"}
MCHeaders    == {"hA", "hB", "hC", "hD"}
MCHeaderSize == [hA |-> 2, hB |-> 2, hC |-> 3, hD |-> 1]
ImageA       == <<"hA", "x">>
ImageB       == <<"hB", "x">>
ImageC       == <<"hC", "x", "y">>
ImageD       == <<"hD">>
MCImages     == {ImageA, ImageB, ImageC}
ShortImages  == {ImageA, ImageB, ImageD}

(* A scan meets one image, or another one when the address was remapped       *)
(* between its two reads.                                                    *)
MCScans      == {<<ImageA, ImageA>>}
ShortScans   == {<<ImageA, ImageA>>, <<ImageA, ImageD>>}
=============================================================================
