---------------------------- MODULE MCJsonParser ----------------------------
(***************************************************************************)
(* Two names; a string, a number with a sign and a place, and a literal; a *)
(* string with an escaped quote.                                           *)
(***************************************************************************)
EXTENDS JsonParser

MCNames == {<<"a">>, <<"t">>}

Scalar(chars, value, strange) == [text |-> chars, shown |-> value, odd |-> strange]

MCScalars ==
  { Scalar(<<Quote, ",", "]", Quote>>, <<",", "]">>, FALSE),
    Scalar(<<"-", "0", ".", "2">>, <<"#", -20>>, FALSE),
    Scalar(Literal.VALUE_NULL, Literal.VALUE_NULL, FALSE),
    Scalar(<<Quote, "\\", Quote, ",", "t", Quote>>, <<Quote, ",", "t">>, TRUE) }
=============================================================================
