-------------------------- MODULE MCImagenetBench --------------------------
EXTENDS ImagenetBench

\* An empty list, a file of a whole block, and a shorter and a longer one.
MCLists == {<<>>, <<2>>, <<1, 3>>}

\* --path=all, and one path alone.
MCPathLists == {<<"buffered", "direct", "gds">>, <<"gds">>}

\* No csv file, or an empty one; and one of an earlier run of the program.
MCOldCsv == {<<>>, <<Header, <<"direct", 9>>>>}
=============================================================================
