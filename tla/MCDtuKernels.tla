---------------------------- MODULE MCDtuKernels ----------------------------
(* Model-checking instance of DtuKernels.                                  *)
EXTENDS DtuKernels

MCAllKernels == KernelNames

\* Kernels whose every create and result-producing call is wrapped in
\* OF_ENFLAME_CHECK.
MCCheckedKernels == KernelNames \ {"add_n", "sgd_update", "scalar_mul"}

\* Kernels with calls whose status is ignored.
MCUncheckedKernels == {"add_n", "sgd_update", "scalar_mul"}

MCPoolKernels == PoolKernels

\* Pool attributes for the resource runs: one shape, which PaddingCompute
\* accepts for every padding but "unknown", with the two-element pool_size
\* and strides topsSetPoolingDescriptor reads.
MCPoolSizes == {<<2, 2>>}
MCPoolStrides == {<<2, 2>>}
MCPoolDims == {<<1, 1, 4, 4>>}

\* Windows at least as large as strides, two-element attributes that reach
\* topsSetPoolingDescriptor and one-element ones that throw at .at(1),
\* odd and even input extents; read as NCHW or NHWC, every shape has
\* distinct extents on the axes the two layouts take for H and W.
MCCoverSizes == {<<2>>, <<2, 2>>, <<3, 2>>}
MCCoverStrides == {<<2>>, <<2, 2>>, <<2, 1>>}
MCCoverDims == {<<1, 2, 3, 4>>, <<1, 5, 4, 3>>}

\* A window smaller than its stride, as two-element pool_size.
MCSmallWindowSizes == {<<1, 1>>, <<1, 2>>}
=============================================================================
