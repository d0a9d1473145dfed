---------------------------- MODULE MCVocabulary ----------------------------
(* Words of policies; arguments of `register-authority`, `issue` and         *)
(* authorities::issue, in pieces.                                            *)
EXTENDS Vocabulary

FourAttributes == <<"a", "b", "c", "d">>
OneAttribute   == <<"a">>

Arg(option, text) == [option |-> option, text |-> text]
Clearance(value, max) == Arg("--numeric", <<"clearance", "=", value, ":", max>>)

ControlTexts ==
  {<<"department">>, <<"clearance", ",", " ", "role">>, <<"security">>, <<" ", ",">>,
   <<"clearance", ">">>, <<"department", "=", "security">>}

Strings == STRING
StringTexts == Seq(STRING)

Requests ==
  {<<Arg("--flag", <<"department", "=", "security">>)>>,
   <<Arg("--flag", <<"security">>)>>,
   <<Arg("--flag", <<"and">>)>>,
   <<Arg("--flag", << >>)>>,
   <<Arg("--flag", <<"clearance", ">", "=", "2">>)>>,
   <<Arg("--text", <<"department", "=", "\"", "security", "\"">>)>>,
   <<Arg("--text", <<"department", "=", "(", "security", ")">>)>>,
   <<Arg("--text", <<"role", "=", "security", "=", "department">>)>>,
   <<Arg("--text", <<"role">>)>>,
   <<Arg("--flag", <<"role", " ", "=", "security">>), Arg("--text", <<"role", "=", "security">>)>>,
   <<Arg("--text", <<"department", "=", "security">>), Clearance("3", "2")>>,
   <<Clearance("1", "3")>>,
   <<Clearance("2", "3"), Arg("--numeric", <<"clearance", "=", "2">>)>>,
   <<Clearance("-1", "3"), Clearance("3", "3")>>}

\* Claims that the command line cannot make, lists of which a later one may be
\* refused, and none at all.
ClaimLists ==
  {<< >>,
   <<Text(<<"department", "=", "security">>, <<"role">>)>>,
   <<Flag(<<"department", "=", "security", "=", "role">>)>>,
   <<Flag(<<"clearance", ">", "=", "2">>), Flag(<<"clearance">>)>>,
   <<Text(<<"department">>, <<"security">>), Numeric(<<"clearance">>, 3, 2)>>,
   <<Numeric(<<"clearance">>, 2, 3), Numeric(<<"clearance", ">">>, 1, 1)>>,
   <<Numeric(<<"department", "=", "security">>, 1, 1)>>}
=============================================================================
