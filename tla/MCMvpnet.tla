------------------------------- MODULE MCMvpnet -------------------------------
(* Mvpnet on two hosts: one VM each, and a host with two VMs after one with none. *)
EXTENDS Mvpnet

CONSTANTS a, b, j1, j2, j3

MCVMNames == {a, b}

MCVMLists == { << <<a>>, <<b>> >>, << << >>, <<a, b>> >>, << <<b, a>> >> }
===============================================================================
