-------------------------- MODULE MCNativeCpuQueue --------------------------
EXTENDS NativeCpuQueue

\* More work-groups than workers, which do not divide evenly, in three dimensions
LargeGrid == {<<3, 3, 3>>}
\* The same, and a grid without work-groups
EmptyGrid == {<<3, 3, 3>>, <<3, 0, 1>>}
\* One task for each worker; a copy is a single task.
SmallGrid == {<<3, 1, 1>>}

=============================================================================
