---------------------------- MODULE MCAllocator ----------------------------
EXTENDS Allocator
=============================================================================
