------------------------------- MODULE MCInitrd -------------------------------
EXTENDS Initrd, TLC

\* Two files of 1 and 3 bytes, two descriptors (model values in the cfg), reads of 2 bytes: a read
\* either fills its buffer or stops at the end of the file.
MCFileSizes == <<1, 3>>
MCReadSizes == {2}

\* Descriptors are interchangeable: every action is quantified over Fds alike.
FdSymmetry == Permutations(Fds)
============================================================================
