-------------------------------- MODULE MCGCC --------------------------------
\* A small build: a C file and an assembler file that include a header, and an assembler
\* file that does not, compiled alone and together, with include directories in two
\* orders, and linked.
EXTENDS GCCModel

File(base, ext) == [base |-> base, ext |-> ext]
ac == File("a", "c")
as == File("a", "s")
ao == File("a", "o")
bS == File("b", "S")
bo == File("b", "o")
aout == File("a", "out")
h1 == File("1/h", "h")
h2 == File("2/h", "h")

MCNames == {ac, as, ao, bS, bo, aout, h1, h2}
MCSources == {ac, as, bS, h1, h2}
MCEdited == {ac, h1, h2}
MCAdded == {h1}
MCHeaders == {h1, h2}

Cmd(inputs, last, output, include) ==
    [inputs |-> inputs, last |-> last, output |-> output, include |-> include]

\* The fourth gives the default name of its first output to both of its outputs. The
\* last two are refused.
MCCommands == {
    Cmd(<<ac>>, ASSEMBLE, ao, <<h1, h2>>),
    Cmd(<<ac>>, ASSEMBLE, ao, <<h2, h1>>),
    Cmd(<<bS>>, ASSEMBLE, bo, <<h1, h2>>),
    Cmd(<<as, bS>>, ASSEMBLE, None, <<h1, h2>>),
    Cmd(<<ac, bo>>, LINK, None, <<h1, h2>>),
    Cmd(<<ac, bS>>, LINK, aout, <<h1, h2>>),
    Cmd(<<bS>>, ASSEMBLE, None, <<h1, h2>>) }
=============================================================================
