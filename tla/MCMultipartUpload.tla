-------------------------- MODULE MCMultipartUpload --------------------------
(* An instance of MultipartUpload: an upload announced as the parts "a"    *)
(* and "b", with a wrong part and an incomplete list among the requests.   *)
EXTENDS MultipartUpload

Pieces == {<<1, "a">>, <<1, "x">>, <<2, "b">>}

Lists == {<<<<1, "a">>, <<2, "b">>>>, <<<<1, "a">>>>}

MCRequests ==
    {[NoRequest EXCEPT !.op = op] : op \in {"initiate", "abort"}}
      \cup {[NoRequest EXCEPT !.op = "part", !.part = piece] : piece \in Pieces}
      \cup {[NoRequest EXCEPT !.op = "complete", !.parts = list] : list \in Lists}

MCExpected == <<"a", "b">>
=============================================================================
