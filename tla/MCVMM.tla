------------------------------- MODULE MCVMM -------------------------------
EXTENDS VMM

\* Two pages in one page table: a process has two frames at first, four with one page and
\* five with both.
MCPages == 1 .. 2
MCDir(g) == 512
=============================================================================
