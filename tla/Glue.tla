--------------------------------- MODULE Glue ---------------------------------
(***************************************************************************)
(* The buffer descriptors through which the generated Halide code reaches  *)
(* a Fortran array of rank 1 to 4 (NumHalideDims).  LoopReplacer computes  *)
(* extents, strides, mins and a host offset at the call site, and          *)
(* HalideCodeGenerator's glue turns them into a buffer_t.                  *)
(*                                                                         *)
(* Modelled for arrays declared with explicit bounds.  A shape is a        *)
(* sequence of records [lo, hi], a vector a sequence of integers.          *)
(***************************************************************************)
EXTENDS Integers, Sequences

\* The distance in elements of a vector of steps, in an array whose dimensions
\* are s elements long: d[1] + s[1] * (d[2] + s[2] * (...)).  LoopReplacer
\* builds the host offset this way, from the last dimension inwards.
Nest(d, s) ==
  CASE Len(d) = 1 -> d[1]
    [] Len(d) = 2 -> d[1] + s[1] * d[2]
    [] Len(d) = 3 -> d[1] + s[1] * (d[2] + s[2] * d[3])
    [] Len(d) = 4 -> d[1] + s[1] * (d[2] + s[2] * (d[3] + s[3] * d[4]))

\* Mutant: the product stops one dimension short.
ProductsShort(s) ==
  [k \in 1..Len(s) |->
    CASE k = 1 -> 1
      [] k = 2 -> 1
      [] k = 3 -> s[1]
      [] k = 4 -> s[1] * s[2]]

\* buf.stride[k], the product of the lengths of the dimensions before k.
Products(s) ==
  [k \in 1..Len(s) |->
    CASE k = 1 -> 1
      [] k = 2 -> s[1]
      [] k = 3 -> s[1] * s[2]
      [] k = 4 -> s[1] * s[2] * s[3]]

\* The scalar product, with which a Halide function finds an element.
Dot(u, v) ==
  CASE Len(u) = 1 -> u[1] * v[1]
    [] Len(u) = 2 -> u[1] * v[1] + u[2] * v[2]
    [] Len(u) = 3 -> u[1] * v[1] + u[2] * v[2] + u[3] * v[3]
    [] Len(u) = 4 -> u[1] * v[1] + u[2] * v[2] + u[3] * v[3] + u[4] * v[4]

Minus(u, v) == [k \in 1..Len(u) |-> u[k] - v[k]]

Lower(shape) == [k \in 1..Len(shape) |-> shape[k].lo]
Upper(shape) == [k \in 1..Len(shape) |-> shape[k].hi]

------------------------------------------------------------------------------
\* Call site.

\* addArrayExprs, for every dimension: the box lb..ub of an array declared shape.
ArrayExprs(ub, lb, shape) ==
  [extent |-> [k \in 1..Len(shape) |-> ub[k] - lb[k] + 1],
   stride |-> [k \in 1..Len(shape) |-> shape[k].hi - shape[k].lo + 1],
   min    |-> [k \in 1..Len(shape) |-> lb[k] - 1]]

InputArgs(shape) == ArrayExprs(Upper(shape), Lower(shape), shape)

\* <array>_out_hostOffset: bytes from the array's first element to its box.
HostOffset(elem, lb, shape) ==
  elem * Nest(Minus(lb, Lower(shape)), ArrayExprs(lb, lb, shape).stride)

------------------------------------------------------------------------------
\* Glue function: the buffer_t of an array, addresses relative to its start.

InBuffer(shape) ==
  [host |-> 0, extent |-> InputArgs(shape).extent,
   stride |-> Products(InputArgs(shape).stride), min |-> InputArgs(shape).min]

OutBuffer(elem, ub, lb, shape) ==
  [host |-> HostOffset(elem, lb, shape),
   extent |-> ArrayExprs(ub, lb, shape).extent,
   stride |-> Products(ArrayExprs(ub, lb, shape).stride),
   min |-> ArrayExprs(ub, lb, shape).min]

\* Where a Halide function finds coordinate x of a buffer.
Address(elem, buf, x) == buf.host + elem * Dot(Minus(x, buf.min), buf.stride)

\* Where Fortran finds index x of an array: column major from the lower bounds.
FortranAddress(elem, shape, x) ==
  elem * Nest(Minus(x, Lower(shape)),
              [k \in 1..Len(shape) |-> shape[k].hi - shape[k].lo + 1])
==============================================================================
