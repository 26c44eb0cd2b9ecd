--------------------------------- MODULE MCVfs ---------------------------------
EXTENDS Vfs, TLC

\* "/", "/a" and "/ab": a root, a directory, and a name that extends "/a"
\* without a '/' between.
MCMountPaths == {<<"/">>, <<"/", "a">>, <<"/", "a", "b">>}

\* Lookups: the mount paths, a file under "/a", and a relative path.
MCLookupPaths == MCMountPaths \cup {<<"/", "a", "/", "b">>, <<"a">>}
============================================================================
